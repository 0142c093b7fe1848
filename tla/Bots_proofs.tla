---------------------------- MODULE Bots_proofs ----------------------------
(***************************************************************************)
(* Proofs about Attaque de Bots.  First the flow engine (BotsFlow): which   *)
(* states its reducer keeps to, as the set Plays.  Then a tablet being      *)
(* played (BotsPlay), where screen and flow race, and the tablets with      *)
(* their server (TabletSync), whose flows are plays as well.  The two       *)
(* specifications share no variable; each theorem is about one of them.     *)
(* Last, what Débriefing reports of a game played (PlayReport).             *)
(***************************************************************************)
EXTENDS PlayReport, TabletSync, SequenceTheorems, FiniteSetTheorems, WellFoundedInduction, TLAPS

(***************************************************************************)
(* The flow.  A cursor of the prologue or of the énigmes points at a node,  *)
(* or the GameState projected from the flow would have no step.             *)
(***************************************************************************)
Flows ==
    {s \in FlowStates :
        /\ s.section = "prologue" => s.cursor \in DOMAIN Prologue
        /\ s.section = "enigmes" => s.cursor \in DOMAIN Parcours[s.variant]}

ScreenTaps == {Continue, Back, Retry} \cup {OpenMail(mail) : mail \in Mails}

Taps == ScreenTaps \cup {Answer(i) : i \in Inputs}

LEMMA TapsOfScreens ==
    ASSUME NEW s PROVE ScreenEvents(s) \subseteq ScreenTaps
  BY DEF ScreenEvents, InboxEvents, ErrorEvents, TimedEvents, ScreenTaps

LEMMA ParcoursFacts ==
    ASSUME NEW v \in Variants
    PROVE  /\ Parcours[v] \in Seq(StepIds) /\ Len(Parcours[v]) \in Nat \ {0}
           /\ DOMAIN Parcours[v] = 1..Len(Parcours[v])
           /\ \A i \in DOMAIN Parcours[v] : Parcours[v][i] \in StepIds
  BY ParcoursAssumption, EmptySeq DEF ParcoursAssumption

LEMMA NodeIsStep ==
    ASSUME NEW s \in Flows PROVE NodeId(s) \in StepIds \cup {Prologue[i] : i \in DOMAIN Prologue} \cup {"fin"}
  <1>1. s.variant \in Variants
    BY DEF Flows, FlowStates
  <1>2. CASE s.section = "prologue"
    <2>1. NodeId(s) = Prologue[s.cursor]
      BY <1>2 DEF NodeId, InEnigme
    <2> QED
      BY <1>2, <2>1 DEF Flows
  <1>3. CASE s.section # "prologue" /\ InEnigme(s)
    BY <1>1, <1>3, ParcoursFacts DEF NodeId, InEnigme, CurrentStep, VariantSteps
  <1>4. CASE s.section # "prologue" /\ ~InEnigme(s)
    BY <1>4 DEF NodeId
  <1> QED
    BY <1>2, <1>3, <1>4

LEMMA LogGrows ==
    ASSUME NEW l \in Seq(Events), NEW e \in Events PROVE Append(l, e) \in Seq(Events)
  OBVIOUS

LEMMA InitialPhaseIsPhase ==
    ASSUME NEW kind PROVE InitialPhase(kind) \in Phases
  BY DEF InitialPhase, Phases

LEMMA EnterStepOK ==
    ASSUME NEW s \in Flows, NEW i \in DOMAIN Parcours[s.variant] PROVE EnterStep(s, i) \in Flows
  <1>1. s.variant \in Variants
    BY DEF Flows, FlowStates
  <1>2. i \in Nat \ {0}
    BY <1>1, ParcoursFacts
  <1> QED
    BY <1>1, <1>2, InitialPhaseIsPhase DEF EnterStep, Flows, FlowStates

LEMMA NextOuterOK ==
    ASSUME NEW s \in Flows PROVE NextOuter(s) \in Flows
  <1>1. /\ s.variant \in Variants /\ s.cursor \in Nat \ {0} /\ s.score \in Nat
        /\ s.section \in {"prologue", "enigmes", "epilogue"} /\ s.log \in Seq(Events)
    BY DEF Flows, FlowStates
  <1>2. Prologue \in Seq(STRING) /\ DOMAIN Prologue = 1..Len(Prologue) /\ Len(Prologue) \in Nat
    BY ParcoursAssumption DEF ParcoursAssumption
  <1>3. CASE s.section = "prologue" /\ s.cursor < Len(Prologue)
    <2>1. NextOuter(s) = [s EXCEPT !.cursor = @ + 1, !.phase = "single"]
      BY <1>1, <1>2, <1>3 DEF NextOuter
    <2>2. s.cursor + 1 \in DOMAIN Prologue /\ s.cursor + 1 \in Nat \ {0}
      BY <1>1, <1>2, <1>3
    <2> QED
      BY <1>1, <1>3, <2>1, <2>2 DEF Flows, FlowStates, Phases
  <1>4. CASE s.section = "prologue" /\ ~(s.cursor < Len(Prologue))
    <2>1. NextOuter(s) = EnterStep(s, 1)
      BY <1>1, <1>2, <1>4 DEF NextOuter
    <2> QED
      BY <1>1, <2>1, ParcoursFacts, EnterStepOK
  <1>5. CASE s.section = "enigmes" /\ s.cursor < Len(Parcours[s.variant])
    <2>1. NextOuter(s) = EnterStep(s, s.cursor + 1)
      BY <1>1, <1>5, ParcoursFacts DEF NextOuter, VariantSteps
    <2>2. s.cursor + 1 \in DOMAIN Parcours[s.variant]
      BY <1>1, <1>5, ParcoursFacts
    <2> QED
      BY <2>1, <2>2, EnterStepOK
  <1>6. CASE s.section = "enigmes" /\ ~(s.cursor < Len(Parcours[s.variant]))
    <2>1. NextOuter(s) = EnterEpilogue(s)
      BY <1>1, <1>6, ParcoursFacts DEF NextOuter, VariantSteps
    <2>2. [kind |-> "session-complete", about |-> s.score, attempts |-> 0] \in Events
      BY <1>1 DEF Events
    <2>3. Logged(s, "session-complete", s.score, 0) \in Seq(Events)
      BY <1>1, <2>2, LogGrows DEF Logged
    <2> DEFINE t == [s EXCEPT !.section = "epilogue", !.cursor = 1, !.phase = "single",
                              !.attempts = 0, !.openedMailId = NoMail]
    <2>4. t \in FlowStates /\ t.section = "epilogue"
      <3>1. "single" \in Phases /\ 1 \in Nat \ {0}
        BY DEF Phases
      <3> QED
        BY <3>1 DEF Flows, FlowStates
    <2>5. NextOuter(s) = [t EXCEPT !.log = Logged(s, "session-complete", s.score, 0)]
      BY <2>1 DEF EnterEpilogue
    <2> HIDE DEF t
    <2> QED
      BY <2>3, <2>4, <2>5 DEF Flows, FlowStates
  <1>7. CASE s.section = "epilogue"
    BY <1>7 DEF NextOuter
  <1> QED
    BY <1>1, <1>3, <1>4, <1>5, <1>6, <1>7

LEMMA ContinuedOK ==
    ASSUME NEW s \in Flows PROVE Continued(s) \in Flows
  <1>1. NextIntroPhase(Kind[CurrentStep(s)], s.phase) \in Phases
    BY DEF NextIntroPhase, Phases
  <1> QED
    BY <1>1, NextOuterOK DEF Continued, Closed, Flows, FlowStates, Phases

LEMMA AnsweredOK ==
    ASSUME NEW s \in Flows, InEnigme(s), NEW input \in Inputs PROVE Answered(s, input) \in Flows
  <1>1. CurrentStep(s) \in StepIds
    BY ParcoursFacts DEF Flows, FlowStates, InEnigme, CurrentStep, VariantSteps
  <1>2. s.attempts + 1 \in Nat \ {0} /\ s.log \in Seq(Events)
    BY DEF Flows, FlowStates
  <1>3. \A kind \in {"enigme-solved", "enigme-error"} :
           Logged(s, kind, CurrentStep(s), s.attempts + 1) \in Seq(Events)
    BY <1>1, <1>2, LogGrows DEF Logged, Events
  <1>4. s.score + Points[CurrentStep(s)] \in Nat
    <2>1. Points[CurrentStep(s)] \in Nat
      BY <1>1, ParcoursAssumption DEF ParcoursAssumption
    <2> QED
      BY <2>1 DEF Flows, FlowStates
  <1> QED
    BY <1>2, <1>3, <1>4 DEF Answered, Flows, FlowStates, Phases

LEMMA OpenedOK ==
    ASSUME NEW s \in Flows, NEW mail \in Mails PROVE Opened(s, mail) \in Flows
  <1>1. mail \in Trap => Logged(s, "phishing-clicked", mail, 0) \in Seq(Events)
    BY LogGrows DEF Logged, Events, Flows, FlowStates
  <1> QED
    BY <1>1 DEF Opened, Flows, FlowStates, Phases

LEMMA DispatchOK ==
    ASSUME NEW s \in Flows, NEW e \in Taps PROVE Dispatch(s, e) \in Flows
  <1>1. CASE ~Accepts(s, e)
    BY <1>1 DEF Dispatch
  <1>2. CASE Accepts(s, e) /\ e = Continue
    <2>1. Dispatch(s, e) = Continued(s)
      BY <1>2 DEF Dispatch, Continue
    <2> QED
      BY <2>1, ContinuedOK
  <1>3. CASE Accepts(s, e) /\ e = Back
    <2>1. Dispatch(s, e) \in {s, Closed(s)}
      BY <1>3 DEF Dispatch, Back
    <2> QED
      BY <2>1 DEF Closed, Flows, FlowStates, Phases
  <1>4. CASE Accepts(s, e) /\ e = Retry
    <2>1. Dispatch(s, e) = Retried(s)
      BY <1>4 DEF Dispatch, Retry
    <2> QED
      BY <2>1 DEF Retried, Flows, FlowStates, Phases
  <1>5. ASSUME Accepts(s, e), NEW mail \in Mails, e = OpenMail(mail)
        PROVE  Dispatch(s, e) \in Flows
    <2>1. Dispatch(s, e) = Opened(s, mail)
      BY <1>5 DEF Dispatch, OpenMail
    <2> QED
      BY <2>1, OpenedOK
  <1>6. ASSUME Accepts(s, e), NEW i \in Inputs, e = Answer(i)
        PROVE  Dispatch(s, e) \in Flows
    <2>1. Dispatch(s, e) = Answered(s, i) /\ InEnigme(s)
      BY <1>6 DEF Dispatch, Answer, Accepts
    <2> QED
      BY <2>1, AnsweredOK
  <1> QED
    BY <1>1, <1>2, <1>3, <1>4, <1>5, <1>6 DEF Taps, ScreenTaps

LEMMA CreateFlowOK == CreateFlow \in Flows
  <1>1. <<>> \in Seq(Events)
    BY EmptySeq
  <1> QED
    BY <1>1, ParcoursAssumption DEF ParcoursAssumption, CreateFlow, Flows, FlowStates, Phases

-----------------------------------------------------------------------------
(***************************************************************************)
(* What a set of steps is worth.  MapThenSumSet takes the elements one by    *)
(* one in an order of CHOOSE; the sum does not depend on it.  Induction over *)
(* a finite set is by its smallest subset that would be an exception.        *)
(***************************************************************************)
LEMMA SmallestMember ==
    ASSUME NEW U, IsFiniteSet(U), NEW C, C \subseteq SUBSET U, C # {}
    PROVE  \E s \in C : \A t \in C : t \subseteq s => t = s
<1>1. IsWellFoundedOn(StrictSubsetOrdering(U), FiniteSubsetsOf(U))
  BY FS_StrictSubsetOrderingWellFounded
<1>2. FiniteSubsetsOf(U) = SUBSET U
  BY FS_FiniteSubsetsOfFinite
<1>3. PICK s \in C : \A t \in C : <<t, s>> \notin StrictSubsetOrdering(U)
  BY <1>1, <1>2, WFMin, Zenon
<1> QED
  BY <1>3 DEF StrictSubsetOrdering

Chosen(s) == CHOOSE x \in s : TRUE

\* The function that the sum over T is read from.
Pays(T, f) ==
    f = [s \in SUBSET T |->
            IF s = {} THEN 0 ELSE Points[Chosen(s)] + f[s \ {Chosen(s)}]]

LEMMA WorthIsPaid ==
    ASSUME NEW T PROVE Worth(T) = (CHOOSE f : Pays(T, f))[T]
  BY DEF Worth, MapThenSumSet, MapThenFoldSet, Pays, Chosen

LEMMA ChosenMember ==
    ASSUME NEW s, s # {} PROVE Chosen(s) \in s
  BY DEF Chosen

LEMMA PaysOnce ==
    ASSUME NEW T, IsFiniteSet(T), NEW f, Pays(T, f), NEW g, Pays(T, g) PROVE f = g
<1> DEFINE C == {s \in SUBSET T : f[s] # g[s]}
<1>1. DOMAIN f = SUBSET T /\ DOMAIN g = SUBSET T
      /\ f = [s \in SUBSET T |-> f[s]] /\ g = [s \in SUBSET T |-> g[s]]
  BY DEF Pays
<1>2. \A s \in SUBSET T :
         /\ f[s] = IF s = {} THEN 0 ELSE Points[Chosen(s)] + f[s \ {Chosen(s)}]
         /\ g[s] = IF s = {} THEN 0 ELSE Points[Chosen(s)] + g[s \ {Chosen(s)}]
  BY DEF Pays
<1>3. ASSUME C # {} PROVE FALSE
  <2>1. PICK s \in C : \A t \in C : t \subseteq s => t = s
    <3> HIDE DEF C
    <3>1. C \subseteq SUBSET T
      BY DEF C
    <3> QED
      BY <1>3, <3>1, SmallestMember
  <2>2. s # {}
    BY <1>2, <2>1
  <2>3. s \ {Chosen(s)} \notin C
    BY <2>1, <2>2, ChosenMember
  <2>4. f[s \ {Chosen(s)}] = g[s \ {Chosen(s)}]
    BY <2>1, <2>3
  <2> QED
    BY <1>2, <2>1, <2>4
<1> QED
  BY <1>1, <1>3

\* The equation of the sum, and the function behind it.
Unfolds(s) ==
    /\ \E f : Pays(s, f)
    /\ Worth(s) = IF s = {} THEN 0 ELSE Points[Chosen(s)] + Worth(s \ {Chosen(s)})

LEMMA PaysWorth ==
    ASSUME NEW s, IsFiniteSet(s), NEW f, Pays(s, f) PROVE Worth(s) = f[s]
<1>1. Pays(s, CHOOSE g : Pays(s, g))
  BY Zenon
<1>2. (CHOOSE g : Pays(s, g)) = f
  BY <1>1, PaysOnce, Zenon
<1> QED
  BY <1>2, WorthIsPaid

LEMMA PaysPart ==
    ASSUME NEW s, NEW f, Pays(s, f), NEW t \in SUBSET s
    PROVE  Pays(t, [u \in SUBSET t |-> f[u]])
<1> DEFINE g == [u \in SUBSET t |-> f[u]]
<1>1. \A u \in SUBSET s : f[u] = IF u = {} THEN 0 ELSE Points[Chosen(u)] + f[u \ {Chosen(u)}]
  BY DEF Pays
<1>2. \A u \in SUBSET t : g[u] = IF u = {} THEN 0 ELSE Points[Chosen(u)] + g[u \ {Chosen(u)}]
  BY <1>1
<1>3. g = [u \in SUBSET t |-> IF u = {} THEN 0 ELSE Points[Chosen(u)] + g[u \ {Chosen(u)}]]
  BY <1>2
<1> QED
  BY <1>3 DEF Pays

LEMMA WorthUnfolds ==
    ASSUME NEW U, IsFiniteSet(U) PROVE Unfolds(U)
<1> DEFINE C == {s \in SUBSET U : ~Unfolds(s)}
<1>1. ASSUME C # {} PROVE FALSE
  <2>1. PICK s \in C : \A t \in C : t \subseteq s => t = s
    <3> HIDE DEF C
    <3>1. C \subseteq SUBSET U
      BY DEF C
    <3> QED
      BY <1>1, <3>1, SmallestMember
  <2>2. \A t \in SUBSET s : t # s => Unfolds(t)
    BY <2>1
  <2>3. s \in SUBSET U /\ ~Unfolds(s)
    BY <2>1
  <2> HIDE DEF C
  <2> DEFINE h == [t \in SUBSET s |-> IF t = {} THEN 0 ELSE Points[Chosen(t)] + Worth(t \ {Chosen(t)})]
  <2>4. \A t \in SUBSET s : t # {} => h[t \ {Chosen(t)}] = Worth(t \ {Chosen(t)})
    <3>1. TAKE t \in SUBSET s
    <3>2. HAVE t # {}
    <3> DEFINE u == t \ {Chosen(t)}
    <3>3. u \in SUBSET s /\ u # s
      BY <3>2, ChosenMember
    <3>4. Worth(u) = IF u = {} THEN 0 ELSE Points[Chosen(u)] + Worth(u \ {Chosen(u)})
      BY <2>2, <3>3 DEF Unfolds
    <3>5. h[u] = IF u = {} THEN 0 ELSE Points[Chosen(u)] + Worth(u \ {Chosen(u)})
      BY <3>3
    <3> QED
      BY <3>4, <3>5
  <2>5. h = [t \in SUBSET s |-> IF t = {} THEN 0 ELSE Points[Chosen(t)] + h[t \ {Chosen(t)}]]
    BY <2>4
  <2>6. Pays(s, h)
    BY <2>5 DEF Pays
  <2>7. IsFiniteSet(s)
    BY <2>3, FS_Subset
  <2>8. Worth(s) = h[s]
    BY <2>6, <2>7, PaysWorth
  <2>9. Unfolds(s)
    BY <2>6, <2>8 DEF Unfolds
  <2> QED
    BY <2>3, <2>9
<1> QED
  BY <1>1

LEMMA WorthOfNone == Worth({}) = 0
  BY WorthUnfolds, FS_EmptySet DEF Unfolds

\* Whichever element is taken first.
LEMMA WorthTakes ==
    ASSUME NEW T \in SUBSET StepIds, IsFiniteSet(T)
    PROVE  /\ Worth(T) \in Nat
           /\ \A x \in T : Worth(T) = Points[x] + Worth(T \ {x})
<1> DEFINE P(s) == /\ Worth(s) \in Nat
                   /\ \A x \in s : Worth(s) = Points[x] + Worth(s \ {x})
           C == {s \in SUBSET T : ~P(s)}
<1>0. \A x \in StepIds : Points[x] \in Nat
  BY ParcoursAssumption DEF ParcoursAssumption
<1>1. ASSUME C # {} PROVE FALSE
  <2>1. PICK s \in C : \A t \in C : t \subseteq s => t = s
    <3> HIDE DEF C
    <3>1. C \subseteq SUBSET T
      BY DEF C
    <3> QED
      BY <1>1, <3>1, SmallestMember
  <2>2. \A t \in SUBSET s : t # s => P(t)
    BY <2>1
  <2>3. s \in SUBSET T /\ ~P(s)
    BY <2>1
  <2> HIDE DEF C
  <2>4. \A t \in SUBSET s :
           Worth(t) = IF t = {} THEN 0 ELSE Points[Chosen(t)] + Worth(t \ {Chosen(t)})
    BY <2>3, FS_Subset, WorthUnfolds DEF Unfolds
  <2>5. s # {}
    BY <2>3, WorthOfNone
  <2> DEFINE c == Chosen(s)
  <2>6. c \in s /\ Worth(s) = Points[c] + Worth(s \ {c})
    BY <2>4, <2>5, ChosenMember
  <2> HIDE DEF c
  <2>7. Points[c] \in Nat /\ Worth(s \ {c}) \in Nat
    BY <1>0, <2>2, <2>3, <2>6
  <2>8. ASSUME NEW x \in s, x # c PROVE Worth(s) = Points[x] + Worth(s \ {x})
    <3>1. Worth(s \ {c}) = Points[x] + Worth((s \ {c}) \ {x})
      BY <2>2, <2>6, <2>8
    <3>2. Worth(s \ {x}) = Points[c] + Worth((s \ {x}) \ {c})
      BY <2>2, <2>6, <2>8
    <3>3. (s \ {c}) \ {x} = (s \ {x}) \ {c}
      OBVIOUS
    <3>4. Worth((s \ {c}) \ {x}) \in Nat
      BY <2>2, <2>6
    <3>5. Points[x] \in Nat
      BY <1>0, <2>3
    <3> HIDE DEF P
    <3> QED
      BY <2>6, <2>7, <3>1, <3>2, <3>3, <3>4, <3>5
  <2>9. Worth(s) \in Nat
    BY <2>6, <2>7
  <2> QED
    BY <2>3, <2>6, <2>8, <2>9
<1> QED
  BY <1>1

LEMMA WorthAdds ==
    ASSUME NEW T \in SUBSET StepIds, IsFiniteSet(T), NEW x \in StepIds, x \notin T
    PROVE  Worth(T \cup {x}) = Worth(T) + Points[x]
<1>1. IsFiniteSet(T \cup {x}) /\ T \cup {x} \in SUBSET StepIds
  BY FS_AddElement
<1>2. (T \cup {x}) \ {x} = T
  OBVIOUS
<1>3. Worth(T \cup {x}) = Points[x] + Worth(T)
  BY <1>1, <1>2, WorthTakes
<1>4. Points[x] \in Nat /\ Worth(T) \in Nat
  BY WorthTakes, ParcoursAssumption DEF ParcoursAssumption
<1> QED
  BY <1>3, <1>4

LEMMA WorthGrows ==
    ASSUME NEW T \in SUBSET StepIds, IsFiniteSet(T), NEW S \in SUBSET T
    PROVE  Worth(S) <= Worth(T)
<1> DEFINE C == {d \in SUBSET T : ~(Worth(T \ d) <= Worth(T))}
<1>1. ASSUME C # {} PROVE FALSE
  <2>1. PICK d \in C : \A e \in C : e \subseteq d => e = d
    <3> HIDE DEF C
    <3>1. C \subseteq SUBSET T
      BY DEF C
    <3> QED
      BY <1>1, <3>1, SmallestMember
  <2>2. d \in SUBSET T /\ ~(Worth(T \ d) <= Worth(T))
    BY <2>1
  <2>3. Worth(T) \in Nat /\ Worth(T \ d) \in Nat
    <3>1. IsFiniteSet(T \ d) /\ T \ d \in SUBSET StepIds
      BY FS_Subset
    <3> QED
      BY <3>1, WorthTakes
  <2>4. PICK x : x \in d
    <3>1. CASE d = {}
      <4>1. T \ d = T
        BY <3>1
      <4> QED
        BY <2>2, <2>3, <4>1
    <3> QED
      BY <3>1
  <2> DEFINE r == T \ (d \ {x})
  <2>5. Worth(r) <= Worth(T)
    <3>1. d \ {x} \subseteq d /\ d \ {x} # d
      BY <2>4
    <3>2. d \ {x} \notin C
      BY <2>1, <3>1
    <3>3. d \ {x} \in SUBSET T
      BY <2>2
    <3> QED
      BY <3>2, <3>3
  <2> HIDE DEF C
  <2>6. x \in r /\ r \ {x} = T \ d /\ r \in SUBSET StepIds
    BY <2>2, <2>4
  <2>7. IsFiniteSet(r)
    BY FS_Subset
  <2> HIDE DEF r
  <2>8. Worth(r) = Points[x] + Worth(T \ d)
    BY <2>6, <2>7, WorthTakes
  <2>9. Points[x] \in Nat
    BY <2>6, ParcoursAssumption DEF ParcoursAssumption
  <2> QED
    BY <2>2, <2>3, <2>5, <2>8, <2>9
<1>2. T \ S \notin C
  BY <1>1
<1>3. T \ (T \ S) = S
  OBVIOUS
<1> QED
  BY <1>2, <1>3

-----------------------------------------------------------------------------
(***************************************************************************)
(* What the reducer keeps true of a flow, as a set of flow states.  Each    *)
(* step of the content is ahead, current or passed: one ahead has nothing   *)
(* in the log, of the current one the log has the attempts of the state and *)
(* its solve on the success screen, a passed énigme was solved or its       *)
(* attempts were used up.                                                   *)
(***************************************************************************)
SolvedSteps(l) == {step \in StepIds : Solved(l, step)}

Now(s) == IF InEnigme(s) THEN {CurrentStep(s)} ELSE {}

StepPlayed(s, step) ==
    /\ Cap[step] > 0 => Errors(s, step) <= Cap[step]
    /\ Occurrences(s.log, "enigme-solved", step) <= 1
    /\ step \notin Passed(s) \cup Now(s) =>
          Errors(s, step) = 0 /\ Occurrences(s.log, "enigme-solved", step) = 0
    /\ step \in Now(s) =>
          /\ Errors(s, step) = s.attempts
          /\ Solved(s.log, step) <=> s.phase = "success"
          /\ Cap[step] > 0 /\ s.phase \notin {"success", "error"} => s.attempts < Cap[step]
    /\ step \in Passed(s) /\ Kind[step] \in EnigmeKinds =>
          Solved(s.log, step) \/ (Cap[step] > 0 /\ Errors(s, step) = Cap[step])

LogEnds(s) ==
    /\ IsComplete(s) <=> \E i \in DOMAIN s.log : s.log[i].kind = "session-complete"
    /\ \A i \in DOMAIN s.log :
          s.log[i].kind = "session-complete" => i = Len(s.log) /\ s.log[i].about = s.score

\* Events carry what their kind is about.
ScorePaid(s) == IsFiniteSet(SolvedSteps(s.log)) /\ s.score = Worth(SolvedSteps(s.log))

OnPhase(s) == PhaseOK(s) /\ (s.openedMailId # NoMail <=> s.phase \in {"reading", "phishing"})

Plays ==
    {s \in Flows : /\ OnPhase(s) /\ ScorePaid(s) /\ LogEnds(s)
                   /\ \A step \in StepIds : StepPlayed(s, step)}

-----------------------------------------------------------------------------
(***************************************************************************)
(* What one dispatch does to a flow.                                        *)
(***************************************************************************)
\* A screen that CONTINUE leaves for the next node.
Leaves(s) ==
    /\ InEnigme(s) /\ s.phase \notin {"accueil", "loading", "saisie", "reading", "phishing"}
    /\ ~CanRetry(s)

\* What the buttons and timers of a screen do, and what an answer does.
Strolls(s, r) ==
    \/ r = s
    \/ /\ s.section = "prologue" /\ s.cursor < Len(Prologue)
       /\ r = [s EXCEPT !.cursor = @ + 1, !.phase = "single"]
    \/ s.section = "prologue" /\ r = EnterStep(s, 1)
    \/ /\ InEnigme(s) /\ s.phase \in {"accueil", "loading"}
       /\ r = [s EXCEPT !.phase = NextIntroPhase(Kind[CurrentStep(s)], s.phase)]
    \/ s.phase \in {"reading", "phishing"} /\ r = Closed(s)
    \/ Leaves(s) /\ s.cursor < Len(VariantSteps(s)) /\ r = EnterStep(s, s.cursor + 1)
    \/ Leaves(s) /\ s.cursor = Len(VariantSteps(s)) /\ r = EnterEpilogue(s)
    \/ s.phase = "error" /\ CanRetry(s) /\ r = Retried(s)
    \/ s.phase = "inbox" /\ \E mail \in Mails : r = Opened(s, mail)

Answers(s, r) ==
    /\ InEnigme(s) /\ s.phase = "saisie"
    /\ \E input \in Inputs : r = Answered(s, input)

Moves(s, r) == Strolls(s, r) \/ Answers(s, r)

\* RETRY is wired on screens that allow it.
Allowed(s, e) == e = Retry /\ s.phase = "error" => CanRetry(s)

LEMMA FlowFields ==
    ASSUME NEW s \in Flows
    PROVE  /\ s.section \in {"prologue", "enigmes", "epilogue"} /\ s.variant \in Variants
           /\ s.cursor \in Nat \ {0} /\ s.phase \in Phases
           /\ s.score \in Nat /\ s.attempts \in Nat
           /\ s.log \in Seq(Events)
           /\ VariantSteps(s) \in Seq(StepIds) /\ Len(VariantSteps(s)) \in Nat \ {0}
           /\ DOMAIN VariantSteps(s) = 1..Len(VariantSteps(s))
           /\ \A i \in DOMAIN VariantSteps(s) : VariantSteps(s)[i] \in StepIds
           /\ \A i, j \in DOMAIN VariantSteps(s) :
                 VariantSteps(s)[i] = VariantSteps(s)[j] => i = j
           /\ InEnigme(s) <=> s.section = "enigmes"
           /\ InEnigme(s) => CurrentStep(s) \in StepIds
<1>1. /\ s.section \in {"prologue", "enigmes", "epilogue"} /\ s.variant \in Variants
      /\ s.cursor \in Nat \ {0} /\ s.phase \in Phases
      /\ s.score \in Nat /\ s.attempts \in Nat /\ s.log \in Seq(Events)
  BY DEF Flows, FlowStates
<1>2. /\ Parcours[s.variant] \in Seq(StepIds) /\ Len(Parcours[s.variant]) \in Nat \ {0}
      /\ DOMAIN Parcours[s.variant] = 1..Len(Parcours[s.variant])
      /\ \A i \in DOMAIN Parcours[s.variant] : Parcours[s.variant][i] \in StepIds
  BY <1>1, ParcoursFacts
<1>3. \A i, j \in DOMAIN Parcours[s.variant] :
         Parcours[s.variant][i] = Parcours[s.variant][j] => i = j
  BY <1>1, ParcoursAssumption DEF ParcoursAssumption
<1>4. InEnigme(s) <=> s.section = "enigmes"
  BY DEF InEnigme, Flows, VariantSteps
<1>5. InEnigme(s) => CurrentStep(s) \in StepIds
  BY <1>2 DEF InEnigme, CurrentStep, VariantSteps
<1> QED
  BY <1>1, <1>2, <1>3, <1>4, <1>5 DEF VariantSteps

LEMMA DispatchStrolls ==
    ASSUME NEW s \in Flows, OnPhase(s), NEW e \in ScreenTaps, Allowed(s, e)
    PROVE  Strolls(s, Dispatch(s, e))
<1>1. CASE ~Accepts(s, e)
  BY <1>1 DEF Dispatch, Strolls
<1>2. CASE Accepts(s, e) /\ e = Continue
  <2>1. Dispatch(s, e) = Continued(s)
    BY <1>2 DEF Dispatch, Continue
  <2>2. s.section = "enigmes" => InEnigme(s) /\ s.phase # "saisie" /\ ~CanRetry(s)
    BY <1>2 DEF Accepts, Continue
  <2>3. /\ s.section \in {"prologue", "enigmes", "epilogue"}
        /\ s.cursor \in Nat \ {0} /\ Len(VariantSteps(s)) \in Nat
        /\ s.section = "enigmes" => s.cursor \in 1..Len(VariantSteps(s))
        /\ Len(Prologue) \in Nat
    BY FlowFields, ParcoursAssumption DEF ParcoursAssumption, InEnigme
  <2>4. CASE s.section = "enigmes" /\ s.phase \in {"accueil", "loading"}
    BY <2>1, <2>2, <2>4 DEF Continued, Strolls
  <2>5. CASE s.section = "enigmes" /\ s.phase \in {"reading", "phishing"}
    BY <2>1, <2>5 DEF Continued, Strolls
  <2>6. CASE s.section = "enigmes" /\ s.phase \notin {"accueil", "loading", "reading", "phishing"}
    <3>1. Leaves(s)
      BY <2>2, <2>6 DEF Leaves
    <3>2. Dispatch(s, e) = IF s.cursor < Len(VariantSteps(s)) THEN EnterStep(s, s.cursor + 1)
                           ELSE EnterEpilogue(s)
      BY <2>1, <2>3, <2>6 DEF Continued, NextOuter
    <3>3. s.cursor < Len(VariantSteps(s)) \/ s.cursor = Len(VariantSteps(s))
      BY <2>3, <2>6
    <3> QED
      BY <3>1, <3>2, <3>3 DEF Strolls
  <2>7. CASE s.section = "prologue"
    <3>1. Dispatch(s, e) = IF s.cursor < Len(Prologue)
                           THEN [s EXCEPT !.cursor = @ + 1, !.phase = "single"]
                           ELSE EnterStep(s, 1)
      BY <2>1, <2>3, <2>7 DEF Continued, NextOuter
    <3> QED
      BY <2>7, <3>1 DEF Strolls
  <2>8. CASE s.section = "epilogue"
    BY <2>1, <2>8 DEF Continued, NextOuter, Strolls
  <2> QED
    BY <2>3, <2>4, <2>5, <2>6, <2>7, <2>8
<1>3. CASE Accepts(s, e) /\ e = Back
  <2>1. Dispatch(s, e) = IF s.phase \in {"reading", "phishing"} THEN Closed(s) ELSE s
    BY <1>3 DEF Dispatch, Back
  <2> QED
    BY <2>1 DEF Strolls
<1>4. CASE Accepts(s, e) /\ e = Retry
  <2>1. Dispatch(s, e) = Retried(s) /\ s.phase = "error"
    BY <1>4 DEF Dispatch, Retry, Accepts
  <2>2. CanRetry(s)
    BY <1>4, <2>1 DEF Allowed
  <2> QED
    BY <2>1, <2>2 DEF Strolls
<1>5. ASSUME Accepts(s, e), NEW mail \in Mails, e = OpenMail(mail)
      PROVE  Strolls(s, Dispatch(s, e))
  <2>1. Dispatch(s, e) = Opened(s, mail) /\ s.phase = "inbox"
    BY <1>5 DEF Dispatch, OpenMail, Accepts
  <2> QED
    BY <2>1 DEF Strolls
<1> QED
  BY <1>1, <1>2, <1>3, <1>4, <1>5 DEF ScreenTaps

LEMMA DispatchMoves ==
    ASSUME NEW s \in Flows, OnPhase(s), NEW e \in Taps, Allowed(s, e)
    PROVE  Moves(s, Dispatch(s, e))
<1>1. CASE e \in ScreenTaps
  BY <1>1, DispatchStrolls DEF Moves
<1>2. ASSUME NEW i \in Inputs, e = Answer(i)
      PROVE  Moves(s, Dispatch(s, e))
  <2>1. CASE ~Accepts(s, e)
    BY <2>1 DEF Dispatch, Moves, Strolls
  <2>2. CASE Accepts(s, e)
    <3>1. Dispatch(s, e) = Answered(s, i) /\ InEnigme(s) /\ s.phase = "saisie"
      BY <1>2, <2>2 DEF Dispatch, Answer, Accepts
    <3> QED
      BY <3>1 DEF Moves, Answers
  <2> QED
    BY <2>1, <2>2
<1> QED
  BY <1>1, <1>2 DEF Taps

-----------------------------------------------------------------------------
(***************************************************************************)
(* Counting events.                                                         *)
(***************************************************************************)
LEMMA OccurrencesFinite ==
    ASSUME NEW l \in Seq(Events), NEW kind, NEW about
    PROVE  /\ Occurrences(l, kind, about) \in Nat
           /\ Occurrences(l, kind, about) > 0 <=>
                 \E i \in DOMAIN l : l[i].kind = kind /\ l[i].about = about
<1> DEFINE S == {i \in DOMAIN l : l[i].kind = kind /\ l[i].about = about}
<1>1. Len(l) \in Nat /\ DOMAIN l = 1..Len(l)
  BY LenProperties
<1>2. IsFiniteSet(S)
  <2>1. IsFiniteSet(1..Len(l)) /\ S \in SUBSET (1..Len(l))
    BY <1>1, FS_Interval
  <2> QED
    BY <2>1, FS_Subset
<1>3. Cardinality(S) \in Nat /\ (Cardinality(S) = 0 <=> S = {})
  BY <1>2, FS_CardinalityType, FS_EmptySet
<1> QED
  BY <1>3 DEF Occurrences

LEMMA OccurrencesAppend ==
    ASSUME NEW l \in Seq(Events), NEW e \in Events, NEW kind, NEW about
    PROVE  Occurrences(Append(l, e), kind, about) =
              Occurrences(l, kind, about) + IF e.kind = kind /\ e.about = about THEN 1 ELSE 0
<1> DEFINE S == {i \in DOMAIN l : l[i].kind = kind /\ l[i].about = about}
           m == Append(l, e)
           T == {i \in DOMAIN m : m[i].kind = kind /\ m[i].about = about}
<1>1. Len(l) \in Nat /\ DOMAIN l = 1..Len(l)
  BY LenProperties
<1>2. /\ Len(m) = Len(l) + 1 /\ DOMAIN m = 1..(Len(l) + 1)
      /\ \A i \in 1..Len(l) : m[i] = l[i]
      /\ m[Len(l) + 1] = e
  BY <1>1, AppendProperties
<1> HIDE DEF m
<1>3. IsFiniteSet(S) /\ Len(l) + 1 \notin S /\ Cardinality(S) \in Nat
  <2>1. IsFiniteSet(1..Len(l)) /\ S \in SUBSET (1..Len(l))
    BY <1>1, FS_Interval
  <2>2. IsFiniteSet(S)
    BY <2>1, FS_Subset
  <2> QED
    BY <1>1, <2>1, <2>2, FS_CardinalityType
<1>4. T = IF e.kind = kind /\ e.about = about THEN S \cup {Len(l) + 1} ELSE S
  <2>1. \A i \in DOMAIN m : i \in DOMAIN l \/ i = Len(l) + 1
    BY <1>1, <1>2
  <2>2. DOMAIN l \subseteq DOMAIN m /\ Len(l) + 1 \in DOMAIN m
    BY <1>1, <1>2
  <2> QED
    BY <1>1, <1>2, <2>1, <2>2
<1>5. Cardinality(T) = Cardinality(S) + IF e.kind = kind /\ e.about = about THEN 1 ELSE 0
  <2> HIDE DEF S, T
  <2>1. Cardinality(S \cup {Len(l) + 1}) = Cardinality(S) + 1
    BY <1>3, FS_AddElement
  <2> QED
    BY <1>3, <1>4, <2>1
<1> QED
  BY <1>5 DEF Occurrences, m

-----------------------------------------------------------------------------
(***************************************************************************)
(* Where the steps stand after a move.                                      *)
(***************************************************************************)
LEMMA SamePlace ==
    ASSUME NEW s, NEW r, r.section = s.section, r.variant = s.variant, r.cursor = s.cursor
    PROVE  /\ Passed(r) = Passed(s) /\ Now(r) = Now(s) /\ VariantSteps(r) = VariantSteps(s)
           /\ InEnigme(r) <=> InEnigme(s)
           /\ CurrentStep(r) = CurrentStep(s)
  BY DEF Passed, Now, VariantSteps, InEnigme, CurrentStep

LEMMA Places ==
    ASSUME NEW s \in Flows
    PROVE  /\ s.section = "prologue" => Passed(s) = {} /\ Now(s) = {}
           /\ s.section = "epilogue" =>
                 Passed(s) = {VariantSteps(s)[i] : i \in DOMAIN VariantSteps(s)} /\ Now(s) = {}
           /\ s.section = "enigmes" =>
                 /\ Passed(s) = {VariantSteps(s)[i] : i \in 1..(s.cursor - 1)}
                 /\ Now(s) = {VariantSteps(s)[s.cursor]}
                 /\ s.cursor \in 1..Len(VariantSteps(s))
           /\ Passed(s) \cup Now(s) \subseteq StepIds
           /\ Passed(s) \cap Now(s) = {}
<1>1. /\ s.section \in {"prologue", "enigmes", "epilogue"} /\ s.cursor \in Nat \ {0}
      /\ Len(VariantSteps(s)) \in Nat \ {0}
      /\ DOMAIN VariantSteps(s) = 1..Len(VariantSteps(s))
      /\ \A i \in DOMAIN VariantSteps(s) : VariantSteps(s)[i] \in StepIds
      /\ \A i, j \in DOMAIN VariantSteps(s) :
            VariantSteps(s)[i] = VariantSteps(s)[j] => i = j
      /\ InEnigme(s) <=> s.section = "enigmes"
  BY FlowFields
<1>2. CASE s.section = "prologue"
  BY <1>1, <1>2 DEF Passed, Now
<1>3. CASE s.section = "epilogue"
  BY <1>1, <1>3 DEF Passed, Now
<1>4. CASE s.section = "enigmes"
  <2>1. Passed(s) = {VariantSteps(s)[i] : i \in 1..(s.cursor - 1)}
    BY <1>4 DEF Passed
  <2>2. Now(s) = {VariantSteps(s)[s.cursor]} /\ s.cursor \in 1..Len(VariantSteps(s))
    BY <1>1, <1>4 DEF Now, CurrentStep, InEnigme
  <2>3. \A i \in 1..(s.cursor - 1) : i \in DOMAIN VariantSteps(s) /\ i # s.cursor
    BY <1>1, <2>2
  <2>4. \A i \in 1..(s.cursor - 1) : VariantSteps(s)[i] # VariantSteps(s)[s.cursor]
    BY <1>1, <2>2, <2>3
  <2>5. Passed(s) \cup Now(s) \subseteq StepIds
    BY <1>1, <2>1, <2>2, <2>3
  <2> QED
    BY <1>4, <2>1, <2>2, <2>4, <2>5
<1> QED
  BY <1>1, <1>2, <1>3, <1>4

\* The flow goes to the next node: what was current is passed.
Advances(s, r) ==
    /\ Passed(r) = Passed(s) \cup Now(s)
    /\ Now(r) \cap Passed(r) = {}
    /\ r.attempts = 0 /\ r.phase \notin {"success", "error"}

LEMMA InitialPhaseFresh ==
    ASSUME NEW kind \in Kinds
    PROVE  /\ InitialPhase(kind) \notin {"success", "error", "reading", "phishing"}
           /\ kind = "mailbox" => InitialPhase(kind) = "inbox"
           /\ kind = "piratage" => InitialPhase(kind) = "single"
           /\ kind \notin {"mailbox", "piratage"} => InitialPhase(kind) = "accueil"
  BY DEF InitialPhase, Kinds, EnigmeKinds

LEMMA KindOfStep ==
    ASSUME NEW step \in StepIds PROVE Kind[step] \in Kinds /\ Points[step] \in Nat /\ Cap[step] \in Nat
  BY ParcoursAssumption DEF ParcoursAssumption

LEMMA EnterFields ==
    ASSUME NEW s \in Flows, NEW i \in DOMAIN VariantSteps(s)
    PROVE  /\ EnterStep(s, i).section = "enigmes" /\ EnterStep(s, i).cursor = i
           /\ EnterStep(s, i).phase = InitialPhase(Kind[VariantSteps(s)[i]])
           /\ EnterStep(s, i).attempts = 0 /\ EnterStep(s, i).openedMailId = NoMail
           /\ EnterStep(s, i).variant = s.variant
           /\ EnterStep(s, i).score = s.score /\ EnterStep(s, i).log = s.log
           /\ VariantSteps(EnterStep(s, i)) = VariantSteps(s)
  BY DEF EnterStep, Flows, FlowStates, VariantSteps

LEMMA EpilogueFields ==
    ASSUME NEW s \in Flows
    PROVE  /\ EnterEpilogue(s).section = "epilogue" /\ EnterEpilogue(s).cursor = 1
           /\ EnterEpilogue(s).phase = "single"
           /\ EnterEpilogue(s).attempts = 0 /\ EnterEpilogue(s).openedMailId = NoMail
           /\ EnterEpilogue(s).variant = s.variant /\ EnterEpilogue(s).score = s.score
           /\ EnterEpilogue(s).log = Logged(s, "session-complete", s.score, 0)
           /\ VariantSteps(EnterEpilogue(s)) = VariantSteps(s)
  BY DEF EnterEpilogue, Flows, FlowStates, VariantSteps

LEMMA EnterAdvances ==
    ASSUME NEW s \in Flows, NEW i \in DOMAIN VariantSteps(s), EnterStep(s, i) \in Flows,
           \/ s.section = "prologue" /\ i = 1
           \/ s.section = "enigmes" /\ i = s.cursor + 1
    PROVE  Advances(s, EnterStep(s, i))
<1> DEFINE r == EnterStep(s, i)
           V == VariantSteps(s)
<1>1. /\ r.section = "enigmes" /\ r.cursor = i /\ r.attempts = 0 /\ VariantSteps(r) = V
      /\ r.phase = InitialPhase(Kind[V[i]])
  BY EnterFields
<1>2. r \in Flows
  OBVIOUS
<1>3. V[i] \in StepIds
  BY FlowFields
<1>4. r.phase \notin {"success", "error"}
  BY <1>1, <1>3, KindOfStep, InitialPhaseFresh
<1> HIDE DEF r
<1>5. /\ Passed(r) = {V[k] : k \in 1..(i - 1)} /\ Now(r) = {V[i]}
      /\ Passed(r) \cap Now(r) = {}
  BY <1>1, <1>2, Places
<1>6. ASSUME s.section = "prologue" /\ i = 1 PROVE Advances(s, r)
  <2>1. Passed(s) = {} /\ Now(s) = {}
    BY <1>6, Places
  <2>2. 1..(i - 1) = {}
    BY <1>6
  <2> QED
    BY <1>1, <1>4, <1>5, <2>1, <2>2 DEF Advances
<1>7. ASSUME s.section = "enigmes" /\ i = s.cursor + 1 PROVE Advances(s, r)
  <2>1. Passed(s) = {V[k] : k \in 1..(s.cursor - 1)} /\ Now(s) = {V[s.cursor]}
    BY <1>7, Places
  <2>2. s.cursor \in Nat \ {0}
    BY FlowFields
  <2>3. 1..(i - 1) = 1..(s.cursor - 1) \cup {s.cursor}
    BY <1>7, <2>2
  <2>4. Passed(r) = Passed(s) \cup Now(s)
    BY <1>5, <2>1, <2>3
  <2> QED
    BY <1>1, <1>4, <1>5, <2>4 DEF Advances
<1> QED
  BY <1>6, <1>7 DEF r

LEMMA EpilogueAdvances ==
    ASSUME NEW s \in Flows, EnterEpilogue(s) \in Flows,
           s.section = "enigmes", s.cursor = Len(VariantSteps(s))
    PROVE  Advances(s, EnterEpilogue(s))
<1> DEFINE r == EnterEpilogue(s)
           V == VariantSteps(s)
<1>1. r.section = "epilogue" /\ r.attempts = 0 /\ r.phase = "single" /\ VariantSteps(r) = V
  BY EpilogueFields
<1>2. r \in Flows
  OBVIOUS
<1> HIDE DEF r
<1>3. Passed(r) = {V[k] : k \in DOMAIN V} /\ Now(r) = {}
  BY <1>1, <1>2, Places
<1>4. Passed(s) = {V[k] : k \in 1..(s.cursor - 1)} /\ Now(s) = {V[s.cursor]}
  BY Places
<1>5. DOMAIN V = 1..(s.cursor - 1) \cup {s.cursor}
  <2>1. DOMAIN V = 1..Len(V) /\ Len(V) \in Nat \ {0}
    BY FlowFields
  <2> QED
    BY <2>1
<1>6. Passed(r) = Passed(s) \cup Now(s)
  BY <1>3, <1>4, <1>5
<1> QED
  BY <1>1, <1>3, <1>6 DEF Advances, r

-----------------------------------------------------------------------------
(***************************************************************************)
(* The parts of Plays, one by one.                                          *)
(***************************************************************************)
LEMMA PhaseByKind ==
    ASSUME NEW s \in Flows, OnPhase(s), InEnigme(s)
    PROVE  /\ Kind[CurrentStep(s)] \in EnigmeKinds =>
                 s.phase \in {"accueil", "loading", "saisie", "success", "error"}
           /\ s.phase = "loading" => Kind[CurrentStep(s)] = "bdd"
           /\ s.phase \in {"accueil", "loading", "saisie", "success", "error"} =>
                 Kind[CurrentStep(s)] \notin {"mailbox", "piratage"}
           /\ s.phase \in {"inbox", "reading", "phishing"} => Kind[CurrentStep(s)] = "mailbox"
           /\ s.phase = "single" => Kind[CurrentStep(s)] = "piratage"
  BY DEF OnPhase, PhaseOK, EnigmeKinds

LEMMA OnPhaseKept ==
    ASSUME NEW s \in Flows, OnPhase(s), NEW r \in Flows, Moves(s, r)
    PROVE  OnPhase(r)
<1>0. /\ s.section \in {"prologue", "enigmes", "epilogue"} /\ s.phase \in Phases
      /\ InEnigme(s) <=> s.section = "enigmes"
      /\ ~InEnigme(s) => s.phase = "single" /\ s.openedMailId = NoMail
  BY FlowFields DEF OnPhase, PhaseOK
<1>1. CASE r = s
  BY <1>1
<1>2. CASE /\ s.section = "prologue" /\ s.cursor < Len(Prologue)
           /\ r = [s EXCEPT !.cursor = @ + 1, !.phase = "single"]
  <2>1. r.section = "prologue" /\ r.phase = "single" /\ r.openedMailId = s.openedMailId
    BY <1>2 DEF Flows, FlowStates
  <2>2. ~InEnigme(r)
    BY <2>1 DEF InEnigme
  <2> QED
    BY <1>0, <1>2, <2>1, <2>2 DEF OnPhase, PhaseOK
<1>3. ASSUME NEW i \in DOMAIN VariantSteps(s), r = EnterStep(s, i) PROVE OnPhase(r)
  <2> DEFINE k == Kind[VariantSteps(s)[i]]
  <2>1. /\ r.section = "enigmes" /\ r.cursor = i /\ r.phase = InitialPhase(k)
        /\ r.openedMailId = NoMail /\ VariantSteps(r) = VariantSteps(s)
    BY <1>3, EnterFields
  <2>2. k \in Kinds
    BY FlowFields, KindOfStep
  <2>3. InEnigme(r) /\ Kind[CurrentStep(r)] = k
    BY <2>1 DEF InEnigme, CurrentStep
  <2> HIDE DEF k
  <2> QED
    BY <2>1, <2>2, <2>3, InitialPhaseFresh DEF OnPhase, PhaseOK
<1>4. CASE s.section = "prologue" /\ r = EnterStep(s, 1)
  BY <1>3, <1>4, FlowFields
<1>5. CASE /\ InEnigme(s) /\ s.phase \in {"accueil", "loading"}
           /\ r = [s EXCEPT !.phase = NextIntroPhase(Kind[CurrentStep(s)], s.phase)]
  <2>1. /\ r.section = s.section /\ r.variant = s.variant /\ r.cursor = s.cursor
        /\ r.phase = NextIntroPhase(Kind[CurrentStep(s)], s.phase)
        /\ r.openedMailId = s.openedMailId
    BY <1>5 DEF Flows, FlowStates
  <2>2. InEnigme(r) /\ CurrentStep(r) = CurrentStep(s)
    BY <1>5, <2>1, SamePlace
  <2>3. Kind[CurrentStep(s)] \notin {"mailbox", "piratage"}
    BY <1>5, PhaseByKind
  <2>4. r.phase = "saisie" \/ (r.phase = "loading" /\ Kind[CurrentStep(s)] = "bdd")
    BY <2>1 DEF NextIntroPhase
  <2>5. s.openedMailId = NoMail
    BY <1>5 DEF OnPhase
  <2> QED
    BY <2>1, <2>2, <2>3, <2>4, <2>5 DEF OnPhase, PhaseOK
<1>6. CASE s.phase \in {"reading", "phishing"} /\ r = Closed(s)
  <2>1. /\ r.section = s.section /\ r.variant = s.variant /\ r.cursor = s.cursor
        /\ r.phase = "inbox" /\ r.openedMailId = NoMail
    BY <1>6 DEF Closed, Flows, FlowStates
  <2>2. InEnigme(r) /\ CurrentStep(r) = CurrentStep(s) /\ InEnigme(s)
    BY <1>0, <1>6, <2>1, SamePlace
  <2> QED
    BY <1>6, <2>1, <2>2, PhaseByKind DEF OnPhase, PhaseOK
<1>7. CASE Leaves(s) /\ s.cursor < Len(VariantSteps(s)) /\ r = EnterStep(s, s.cursor + 1)
  <2>1. s.cursor + 1 \in DOMAIN VariantSteps(s)
    BY <1>7, FlowFields
  <2> QED
    BY <1>3, <1>7, <2>1
<1>8. CASE r = EnterEpilogue(s)
  <2>1. r.section = "epilogue" /\ r.phase = "single" /\ r.openedMailId = NoMail
    BY <1>8, EpilogueFields
  <2>2. ~InEnigme(r)
    BY <2>1 DEF InEnigme
  <2> QED
    BY <2>1, <2>2 DEF OnPhase, PhaseOK
<1>9. CASE s.phase = "error" /\ CanRetry(s) /\ r = Retried(s)
  <2>1. /\ r.section = s.section /\ r.variant = s.variant /\ r.cursor = s.cursor
        /\ r.phase = "saisie" /\ r.openedMailId = s.openedMailId
    BY <1>9 DEF Retried, Flows, FlowStates
  <2>2. InEnigme(r) /\ CurrentStep(r) = CurrentStep(s) /\ InEnigme(s)
    BY <1>0, <1>9, <2>1, SamePlace
  <2>3. Kind[CurrentStep(s)] \notin {"mailbox", "piratage"} /\ s.openedMailId = NoMail
    BY <1>9, <2>2, PhaseByKind DEF OnPhase
  <2> QED
    BY <2>1, <2>2, <2>3 DEF OnPhase, PhaseOK
<1>10. CASE s.phase = "inbox" /\ \E mail \in Mails : r = Opened(s, mail)
  <2>1. PICK mail \in Mails : r = Opened(s, mail)
    BY <1>10
  <2>2. /\ r.section = s.section /\ r.variant = s.variant /\ r.cursor = s.cursor
        /\ r.phase \in {"reading", "phishing"} /\ r.openedMailId = mail
    BY <2>1 DEF Opened, Flows, FlowStates
  <2>3. InEnigme(r) /\ CurrentStep(r) = CurrentStep(s) /\ InEnigme(s)
    BY <1>0, <1>10, <2>2, SamePlace
  <2>4. Kind[CurrentStep(s)] = "mailbox" /\ mail # NoMail
    BY <1>10, <2>3, PhaseByKind, ParcoursAssumption DEF ParcoursAssumption
  <2> QED
    BY <2>2, <2>3, <2>4 DEF OnPhase, PhaseOK
<1>11. CASE /\ InEnigme(s) /\ s.phase = "saisie"
            /\ \E input \in Inputs : r = Answered(s, input)
  <2>1. PICK input \in Inputs : r = Answered(s, input)
    BY <1>11
  <2>2. /\ r.section = s.section /\ r.variant = s.variant /\ r.cursor = s.cursor
        /\ r.phase \in {"success", "error"} /\ r.openedMailId = s.openedMailId
    BY <2>1 DEF Answered, Flows, FlowStates
  <2>3. InEnigme(r) /\ CurrentStep(r) = CurrentStep(s)
    BY <1>11, <2>2, SamePlace
  <2>4. Kind[CurrentStep(s)] \notin {"mailbox", "piratage"} /\ s.openedMailId = NoMail
    BY <1>11, PhaseByKind DEF OnPhase
  <2> QED
    BY <2>2, <2>3, <2>4 DEF OnPhase, PhaseOK
<1> QED
  BY <1>1, <1>2, <1>4, <1>5, <1>6, <1>7, <1>8, <1>9, <1>10, <1>11 DEF Moves, Strolls, Answers

-----------------------------------------------------------------------------
SameCounts(l, m) ==
    \A step \in StepIds : \A kind \in {"enigme-solved", "enigme-error"} :
        Occurrences(m, kind, step) = Occurrences(l, kind, step)

LEMMA PlaysFields ==
    ASSUME NEW s \in Plays
    PROVE  /\ s \in Flows /\ OnPhase(s) /\ ScorePaid(s) /\ LogEnds(s)
           /\ \A step \in StepIds : StepPlayed(s, step)
  BY DEF Plays

LEMMA CountsNatural ==
    ASSUME NEW s \in Flows, NEW step
    PROVE  /\ Errors(s, step) \in Nat
           /\ Occurrences(s.log, "enigme-solved", step) \in Nat
  BY FlowFields, OccurrencesFinite DEF Errors

\* The flow stays on its step and the log tells nothing new of it.
LEMMA StepsStay ==
    ASSUME NEW s \in Plays, NEW r, SameCounts(s.log, r.log),
           r.section = s.section, r.variant = s.variant, r.cursor = s.cursor,
           r.attempts = s.attempts, r.phase = "success" <=> s.phase = "success",
           s.phase \notin {"success", "error"} \/ CanRetry(s),
           NEW step \in StepIds
    PROVE  StepPlayed(r, step)
<1>1. Passed(r) = Passed(s) /\ Now(r) = Now(s)
  BY SamePlace
<1>2. /\ Errors(r, step) = Errors(s, step)
      /\ Occurrences(r.log, "enigme-solved", step) = Occurrences(s.log, "enigme-solved", step)
      /\ Solved(r.log, step) <=> Solved(s.log, step)
  BY DEF SameCounts, Errors, Solved
<1>3. StepPlayed(s, step)
  BY PlaysFields
<1>4. ASSUME step \in Now(s), Cap[step] > 0, CanRetry(s) PROVE s.attempts < Cap[step]
  BY <1>4 DEF CanRetry, Now
<1> HIDE DEF Plays
<1> QED
  BY <1>1, <1>2, <1>3, <1>4 DEF StepPlayed

\* The flow goes on: the step it leaves was solved, or its attempts are used up.
LEMMA StepsAdvance ==
    ASSUME NEW s \in Plays, NEW r, SameCounts(s.log, r.log), Advances(s, r),
           Leaves(s) \/ Now(s) = {}, NEW step \in StepIds
    PROVE  StepPlayed(r, step)
<1>1. /\ Errors(r, step) = Errors(s, step)
      /\ Occurrences(r.log, "enigme-solved", step) = Occurrences(s.log, "enigme-solved", step)
      /\ Solved(r.log, step) <=> Solved(s.log, step)
  BY DEF SameCounts, Errors, Solved
<1>2. StepPlayed(s, step) /\ s \in Flows /\ OnPhase(s)
  BY PlaysFields
<1>3. Passed(r) = Passed(s) \cup Now(s) /\ Now(r) \cap Passed(r) = {}
      /\ r.attempts = 0 /\ r.phase \notin {"success", "error"}
  BY DEF Advances
<1>4. Cap[step] \in Nat /\ Errors(s, step) \in Nat
  BY <1>2, KindOfStep, CountsNatural
<1>5. ASSUME step \in Now(r) PROVE Errors(s, step) = 0 /\ ~Solved(s.log, step)
  <2>1. step \notin Passed(s) \cup Now(s)
    BY <1>3, <1>5
  <2> QED
    BY <1>2, <2>1 DEF StepPlayed, Solved
<1>6. ASSUME step \in Now(s), Kind[step] \in EnigmeKinds
      PROVE  Solved(s.log, step) \/ (Cap[step] > 0 /\ Errors(s, step) = Cap[step])
  <2>1. Leaves(s) /\ InEnigme(s) /\ step = CurrentStep(s)
    BY <1>6 DEF Now, Leaves
  <2>2. s.phase \in {"success", "error"}
    BY <1>2, <1>6, <2>1, PhaseByKind DEF Leaves
  <2>3. s.phase = "success" => Solved(s.log, step)
    BY <1>2, <1>6 DEF StepPlayed
  <2>4. s.phase = "error" => Cap[step] > 0 /\ ~(s.attempts < Cap[step])
    BY <2>1 DEF Leaves, CanRetry
  <2>5. Errors(s, step) = s.attempts /\ (Cap[step] > 0 => Errors(s, step) <= Cap[step])
    BY <1>2, <1>6 DEF StepPlayed
  <2> QED
    BY <1>4, <2>2, <2>3, <2>4, <2>5
<1>7. /\ Cap[step] > 0 => Errors(s, step) <= Cap[step]
      /\ Occurrences(s.log, "enigme-solved", step) <= 1
      /\ step \notin Passed(s) \cup Now(s) =>
            Errors(s, step) = 0 /\ Occurrences(s.log, "enigme-solved", step) = 0
      /\ step \in Passed(s) /\ Kind[step] \in EnigmeKinds =>
            Solved(s.log, step) \/ (Cap[step] > 0 /\ Errors(s, step) = Cap[step])
  BY <1>2 DEF StepPlayed
<1> QED
  BY <1>1, <1>3, <1>4, <1>5, <1>6, <1>7 DEF StepPlayed

\* An answer is of the current step.
LEMMA StepsAnswered ==
    ASSUME NEW s \in Plays, InEnigme(s), s.phase = "saisie", NEW input \in Inputs,
           NEW step \in StepIds
    PROVE  /\ StepPlayed(Answered(s, input), step)
           /\ Solved(Answered(s, input).log, step) <=>
                 Solved(s.log, step) \/ (step = CurrentStep(s) /\ IsCorrect(step, input))
           /\ ~Solved(s.log, CurrentStep(s))
<1> DEFINE r == Answered(s, input)
           c == CurrentStep(s)
           kind == IF IsCorrect(c, input) THEN "enigme-solved" ELSE "enigme-error"
           e == [kind |-> kind, about |-> c, attempts |-> s.attempts + 1]
<1>1. s \in Flows /\ StepPlayed(s, step) /\ StepPlayed(s, c) /\ c \in StepIds /\ c \in Now(s)
  BY PlaysFields, FlowFields DEF Now
<1>2. s.attempts \in Nat /\ s.log \in Seq(Events)
  BY <1>1, FlowFields
<1>3. /\ r.section = s.section /\ r.variant = s.variant /\ r.cursor = s.cursor
      /\ r.phase = IF IsCorrect(c, input) THEN "success" ELSE "error"
      /\ r.attempts = IF IsCorrect(c, input) THEN s.attempts ELSE s.attempts + 1
      /\ r.log = Append(s.log, e)
  BY <1>1 DEF Answered, Logged, Flows, FlowStates
<1>4. e \in Events /\ e.kind = kind /\ e.about = c
  BY <1>1, <1>2 DEF Events
<1> HIDE DEF r, e
<1>5. Passed(r) = Passed(s) /\ Now(r) = Now(s) /\ Now(s) = {c}
  BY <1>3, SamePlace DEF Now
<1>6. /\ Errors(r, step) = Errors(s, step) + IF kind = "enigme-error" /\ c = step THEN 1 ELSE 0
      /\ Occurrences(r.log, "enigme-solved", step) = Occurrences(s.log, "enigme-solved", step)
            + IF kind = "enigme-solved" /\ c = step THEN 1 ELSE 0
  BY <1>2, <1>3, <1>4, OccurrencesAppend DEF Errors
<1>7. /\ Errors(s, step) \in Nat /\ Occurrences(s.log, "enigme-solved", step) \in Nat
      /\ Occurrences(s.log, "enigme-solved", c) \in Nat /\ Cap[step] \in Nat
  BY <1>1, CountsNatural, KindOfStep
<1>8. ~Solved(s.log, c) /\ Occurrences(s.log, "enigme-solved", c) = 0
  <2>1. ~Solved(s.log, c)
    BY <1>1 DEF StepPlayed
  <2> QED
    BY <1>7, <2>1 DEF Solved
<1>9. Solved(r.log, step) <=> Solved(s.log, step) \/ (step = c /\ kind = "enigme-solved")
  BY <1>6, <1>7 DEF Solved
<1>10. CASE step # c
  <2>1. Errors(r, step) = Errors(s, step)
        /\ Occurrences(r.log, "enigme-solved", step) = Occurrences(s.log, "enigme-solved", step)
        /\ (Solved(r.log, step) <=> Solved(s.log, step))
    BY <1>6, <1>7, <1>9, <1>10
  <2>2. StepPlayed(r, step)
    BY <1>1, <1>5, <1>10, <2>1 DEF StepPlayed
  <2> QED
    BY <1>8, <1>10, <2>1, <2>2 DEF r
<1>11. CASE step = c
  <2>1. Errors(s, c) = s.attempts /\ (Cap[c] > 0 => s.attempts < Cap[c])
    BY <1>1 DEF StepPlayed
  <2>2. c \notin Passed(s)
    BY <1>1, Places
  <2>3. CASE IsCorrect(c, input)
    <3>1. /\ Errors(r, c) = s.attempts /\ Occurrences(r.log, "enigme-solved", c) = 1
          /\ Solved(r.log, c) /\ r.phase = "success" /\ r.attempts = s.attempts
      BY <1>3, <1>6, <1>7, <1>8, <1>9, <1>11, <2>1, <2>3
    <3>2. StepPlayed(r, c)
      BY <1>2, <1>5, <1>7, <1>11, <2>1, <2>2, <3>1 DEF StepPlayed
    <3> QED
      BY <1>8, <1>11, <2>3, <3>1, <3>2 DEF r
  <2>4. CASE ~IsCorrect(c, input)
    <3>1. /\ Errors(r, c) = s.attempts + 1 /\ Occurrences(r.log, "enigme-solved", c) = 0
          /\ ~Solved(r.log, c) /\ r.phase = "error" /\ r.attempts = s.attempts + 1
      BY <1>3, <1>6, <1>7, <1>8, <1>9, <1>11, <2>1, <2>4
    <3>2. StepPlayed(r, c)
      BY <1>2, <1>5, <1>7, <1>11, <2>1, <2>2, <3>1 DEF StepPlayed
    <3> QED
      BY <1>8, <1>11, <2>4, <3>1, <3>2 DEF r
  <2> QED
    BY <2>3, <2>4
<1> QED
  BY <1>10, <1>11

-----------------------------------------------------------------------------
LEMMA ScoreStays ==
    ASSUME NEW s, ScorePaid(s), NEW r, SameCounts(s.log, r.log), r.score = s.score
    PROVE  ScorePaid(r)
<1>1. SolvedSteps(r.log) = SolvedSteps(s.log)
  BY DEF SolvedSteps, Solved, SameCounts
<1> QED
  BY <1>1 DEF ScorePaid

LEMMA ScoreAnswered ==
    ASSUME NEW s \in Plays, InEnigme(s), s.phase = "saisie", NEW input \in Inputs
    PROVE  ScorePaid(Answered(s, input))
<1> DEFINE r == Answered(s, input)
           c == CurrentStep(s)
<1>1. s \in Flows /\ c \in StepIds /\ ScorePaid(s)
  BY PlaysFields, FlowFields
<1>2. r.score = IF IsCorrect(c, input) THEN s.score + Points[c] ELSE s.score
  BY <1>1 DEF Answered, Flows, FlowStates
<1>3. SolvedSteps(r.log) = IF IsCorrect(c, input) THEN SolvedSteps(s.log) \cup {c}
                           ELSE SolvedSteps(s.log)
  BY <1>1, StepsAnswered DEF SolvedSteps
<1>4. c \notin SolvedSteps(s.log) /\ SolvedSteps(s.log) \subseteq StepIds
  BY <1>1, StepsAnswered DEF SolvedSteps
<1> HIDE DEF r, c
<1>5. IsFiniteSet(SolvedSteps(s.log)) /\ s.score = Worth(SolvedSteps(s.log))
  BY <1>1 DEF ScorePaid
<1>6. /\ IsFiniteSet(SolvedSteps(s.log) \cup {c})
      /\ Worth(SolvedSteps(s.log) \cup {c}) = Worth(SolvedSteps(s.log)) + Points[c]
  BY <1>1, <1>4, <1>5, FS_AddElement, WorthAdds
<1>7. ScorePaid(r)
  BY <1>2, <1>3, <1>5, <1>6 DEF ScorePaid
<1> QED
  BY <1>7 DEF r

LEMMA EndStays ==
    ASSUME NEW s, LogEnds(s), ~IsComplete(s), NEW r, ~IsComplete(r), r.log = s.log
    PROVE  LogEnds(r)
  BY DEF LogEnds

LEMMA EndAhead ==
    ASSUME NEW s \in Flows, LogEnds(s), ~IsComplete(s), NEW r, ~IsComplete(r),
           NEW e \in Events, e.kind # "session-complete", r.log = Append(s.log, e)
    PROVE  LogEnds(r)
<1>1. s.log \in Seq(Events)
  BY FlowFields
<1>2. \A i \in DOMAIN s.log : s.log[i].kind # "session-complete"
  BY DEF LogEnds
<1>3. \A i \in DOMAIN r.log : r.log[i] = e \/ (i \in DOMAIN s.log /\ r.log[i] = s.log[i])
  BY <1>1, AppendProperties
<1>4. \A i \in DOMAIN r.log : r.log[i].kind # "session-complete"
  BY <1>2, <1>3
<1> QED
  BY <1>4 DEF LogEnds

LEMMA EndReached ==
    ASSUME NEW s \in Flows, LogEnds(s), ~IsComplete(s)
    PROVE  LogEnds(EnterEpilogue(s))
<1> DEFINE r == EnterEpilogue(s)
           e == [kind |-> "session-complete", about |-> s.score, attempts |-> 0]
<1>1. s.log \in Seq(Events) /\ e \in Events
  BY FlowFields DEF Events
<1>2. r.log = Append(s.log, e) /\ r.score = s.score /\ IsComplete(r)
  BY EpilogueFields DEF Logged, IsComplete
<1>3. \A i \in DOMAIN s.log : s.log[i].kind # "session-complete"
  BY DEF LogEnds
<1>4. e.kind = "session-complete" /\ e.about = s.score
  OBVIOUS
<1> HIDE DEF e, r
<1>5. /\ Len(r.log) = Len(s.log) + 1 /\ Len(s.log) \in Nat
      /\ DOMAIN r.log = 1..Len(r.log) /\ r.log[Len(r.log)] = e
      /\ \A i \in DOMAIN r.log : i # Len(r.log) => i \in DOMAIN s.log /\ r.log[i] = s.log[i]
  BY <1>1, <1>2, AppendProperties
<1>6. Len(r.log) \in DOMAIN r.log
  BY <1>5
<1>7. LogEnds(r)
  BY <1>2, <1>3, <1>4, <1>5, <1>6 DEF LogEnds
<1> QED
  BY <1>7 DEF r

-----------------------------------------------------------------------------
LEMMA SameLogCounts ==
    ASSUME NEW s, NEW r, r.log = s.log PROVE SameCounts(s.log, r.log)
  BY DEF SameCounts

LEMMA OtherEventCounts ==
    ASSUME NEW s \in Flows, NEW r, NEW e \in Events, r.log = Append(s.log, e),
           e.kind \notin {"enigme-solved", "enigme-error"}
    PROVE  SameCounts(s.log, r.log)
<1> SUFFICES ASSUME NEW step \in StepIds, NEW kind \in {"enigme-solved", "enigme-error"}
             PROVE  Occurrences(r.log, kind, step) = Occurrences(s.log, kind, step)
  BY DEF SameCounts
<1>1. s.log \in Seq(Events)
  BY FlowFields
<1>2. Occurrences(s.log, kind, step) \in Nat
  BY <1>1, OccurrencesFinite
<1>3. Occurrences(r.log, kind, step) = Occurrences(s.log, kind, step) + 0
  BY <1>1, OccurrencesAppend
<1> QED
  BY <1>2, <1>3

LEMMA MovesKeepPlays ==
    ASSUME NEW s \in Plays, NEW r \in Flows, Moves(s, r)
    PROVE  r \in Plays
<1>0. /\ s \in Flows /\ OnPhase(s) /\ ScorePaid(s) /\ LogEnds(s)
      /\ s.section \in {"prologue", "enigmes", "epilogue"}
      /\ InEnigme(s) <=> s.section = "enigmes"
      /\ ~InEnigme(s) => s.phase = "single"
      /\ s.log \in Seq(Events) /\ s.cursor \in Nat \ {0} /\ s.score \in Nat
      /\ Len(VariantSteps(s)) \in Nat \ {0}
      /\ DOMAIN VariantSteps(s) = 1..Len(VariantSteps(s))
  BY PlaysFields, FlowFields DEF OnPhase, PhaseOK
<1>1. OnPhase(r)
  BY <1>0, OnPhaseKept
<1> SUFFICES ScorePaid(r) /\ LogEnds(r) /\ \A step \in StepIds : StepPlayed(r, step)
  BY <1>1 DEF Plays
<1>2. ASSUME r.section = s.section, r.variant = s.variant, r.cursor = s.cursor,
             r.attempts = s.attempts, r.phase = "success" <=> s.phase = "success",
             s.phase \notin {"success", "error"} \/ CanRetry(s),
             r.score = s.score, r.log = s.log, s.section # "epilogue"
      PROVE  ScorePaid(r) /\ LogEnds(r) /\ \A step \in StepIds : StepPlayed(r, step)
  <2>1. SameCounts(s.log, r.log)
    BY <1>2, SameLogCounts
  <2>2. ~IsComplete(s) /\ ~IsComplete(r)
    BY <1>2 DEF IsComplete
  <2> QED
    BY <1>0, <1>2, <2>1, <2>2, StepsStay, ScoreStays, EndStays
<1>3. ASSUME Advances(s, r), Leaves(s) \/ Now(s) = {}, r.score = s.score,
             r.log = s.log, s.section # "epilogue", r.section # "epilogue"
      PROVE  ScorePaid(r) /\ LogEnds(r) /\ \A step \in StepIds : StepPlayed(r, step)
  <2>1. SameCounts(s.log, r.log)
    BY <1>3, SameLogCounts
  <2>2. ~IsComplete(s) /\ ~IsComplete(r)
    BY <1>3 DEF IsComplete
  <2> QED
    BY <1>0, <1>3, <2>1, <2>2, StepsAdvance, ScoreStays, EndStays
<1>4. CASE r = s
  BY <1>4, PlaysFields
<1>5. CASE /\ s.section = "prologue" /\ s.cursor < Len(Prologue)
           /\ r = [s EXCEPT !.cursor = @ + 1, !.phase = "single"]
  <2>1. /\ r.section = "prologue" /\ r.attempts = s.attempts /\ r.score = s.score
        /\ r.log = s.log /\ r.phase = "single"
    BY <1>0, <1>5 DEF Flows, FlowStates
  <2>2. Passed(r) = {} /\ Now(r) = {} /\ Passed(s) = {} /\ Now(s) = {}
    BY <1>0, <1>5, <2>1, Places
  <2>3. SameCounts(s.log, r.log) /\ ~IsComplete(s) /\ ~IsComplete(r)
    BY <1>5, <2>1, SameLogCounts DEF IsComplete
  <2>4. \A step \in StepIds : StepPlayed(r, step)
    <3>1. TAKE step \in StepIds
    <3>2. StepPlayed(s, step)
      BY PlaysFields
    <3>3. Errors(r, step) = Errors(s, step)
      BY <2>1 DEF Errors
    <3> QED
      BY <2>1, <2>2, <3>2, <3>3 DEF StepPlayed
  <2> QED
    BY <1>0, <2>1, <2>3, <2>4, ScoreStays, EndStays
<1>6. CASE s.section = "prologue" /\ r = EnterStep(s, 1)
  <2>1. 1 \in DOMAIN VariantSteps(s)
    BY <1>0
  <2>2. r.section = "enigmes" /\ r.score = s.score /\ r.log = s.log
    BY <1>0, <1>6, <2>1, EnterFields
  <2>3. Advances(s, r)
    BY <1>0, <1>6, <2>1, EnterAdvances
  <2>4. Now(s) = {}
    BY <1>0, <1>6, Places
  <2> QED
    BY <1>3, <1>6, <2>2, <2>3, <2>4
<1>7. CASE /\ InEnigme(s) /\ s.phase \in {"accueil", "loading"}
           /\ r = [s EXCEPT !.phase = NextIntroPhase(Kind[CurrentStep(s)], s.phase)]
  <2>1. /\ r.section = s.section /\ r.variant = s.variant /\ r.cursor = s.cursor
        /\ r.attempts = s.attempts /\ r.score = s.score /\ r.log = s.log
        /\ r.phase = NextIntroPhase(Kind[CurrentStep(s)], s.phase)
    BY <1>0, <1>7 DEF Flows, FlowStates
  <2>2. r.phase \in {"loading", "saisie"}
    BY <2>1 DEF NextIntroPhase
  <2> QED
    BY <1>0, <1>2, <1>7, <2>1, <2>2
<1>8. CASE s.phase \in {"reading", "phishing"} /\ r = Closed(s)
  <2>1. /\ r.section = s.section /\ r.variant = s.variant /\ r.cursor = s.cursor
        /\ r.attempts = s.attempts /\ r.score = s.score /\ r.log = s.log /\ r.phase = "inbox"
    BY <1>0, <1>8 DEF Closed, Flows, FlowStates
  <2> QED
    BY <1>0, <1>2, <1>8, <2>1
<1>9. CASE Leaves(s) /\ s.cursor < Len(VariantSteps(s)) /\ r = EnterStep(s, s.cursor + 1)
  <2>1. s.cursor + 1 \in DOMAIN VariantSteps(s) /\ s.section = "enigmes"
    BY <1>0, <1>9 DEF Leaves
  <2>2. r.section = "enigmes" /\ r.score = s.score /\ r.log = s.log
    BY <1>0, <1>9, <2>1, EnterFields
  <2>3. Advances(s, r)
    BY <1>0, <1>9, <2>1, EnterAdvances
  <2> QED
    BY <1>3, <1>9, <2>1, <2>2, <2>3
<1>10. CASE Leaves(s) /\ s.cursor = Len(VariantSteps(s)) /\ r = EnterEpilogue(s)
  <2> DEFINE e == [kind |-> "session-complete", about |-> s.score, attempts |-> 0]
  <2>1. s.section = "enigmes" /\ ~IsComplete(s)
    BY <1>0, <1>10 DEF Leaves, IsComplete
  <2>2. Advances(s, r)
    BY <1>0, <1>10, <2>1, EpilogueAdvances
  <2>3. e \in Events /\ e.kind = "session-complete"
    BY <1>0 DEF Events
  <2>4. r.log = Append(s.log, e) /\ r.score = s.score
    BY <1>0, <1>10, EpilogueFields DEF Logged
  <2> HIDE DEF e
  <2>5. SameCounts(s.log, r.log)
    BY <1>0, <2>3, <2>4, OtherEventCounts
  <2> QED
    BY <1>0, <1>10, <2>1, <2>2, <2>4, <2>5, StepsAdvance, ScoreStays, EndReached
<1>11. CASE s.phase = "error" /\ CanRetry(s) /\ r = Retried(s)
  <2>1. /\ r.section = s.section /\ r.variant = s.variant /\ r.cursor = s.cursor
        /\ r.attempts = s.attempts /\ r.score = s.score /\ r.log = s.log /\ r.phase = "saisie"
    BY <1>0, <1>11 DEF Retried, Flows, FlowStates
  <2> QED
    BY <1>0, <1>2, <1>11, <2>1
<1>12. CASE s.phase = "inbox" /\ \E mail \in Mails : r = Opened(s, mail)
  <2>1. PICK mail \in Mails : r = Opened(s, mail)
    BY <1>12
  <2>2. /\ r.section = s.section /\ r.variant = s.variant /\ r.cursor = s.cursor
        /\ r.attempts = s.attempts /\ r.score = s.score
        /\ r.phase \in {"reading", "phishing"}
        /\ mail \notin Trap => r.log = s.log
        /\ mail \in Trap => r.log = Logged(s, "phishing-clicked", mail, 0)
    BY <1>0, <2>1 DEF Opened, Flows, FlowStates
  <2>3. s.section # "epilogue" /\ s.phase \notin {"success", "error"} /\ r.phase # "success"
    BY <1>0, <1>12, <2>2
  <2>4. CASE mail \notin Trap
    BY <1>2, <2>2, <2>3, <2>4
  <2>5. CASE mail \in Trap
    <3> DEFINE e == [kind |-> "phishing-clicked", about |-> mail, attempts |-> 0]
    <3>1. e \in Events /\ e.kind = "phishing-clicked" /\ r.log = Append(s.log, e)
      BY <2>2, <2>5 DEF Events, Logged
    <3> HIDE DEF e
    <3>2. SameCounts(s.log, r.log)
      BY <1>0, <3>1, OtherEventCounts
    <3>3. ~IsComplete(s) /\ ~IsComplete(r)
      BY <2>2, <2>3 DEF IsComplete
    <3>4. LogEnds(r)
      BY <1>0, <3>1, <3>3, EndAhead
    <3>5. ScorePaid(r)
      BY <1>0, <2>2, <3>2, ScoreStays
    <3>6. \A step \in StepIds : StepPlayed(r, step)
      BY <2>2, <2>3, <3>2, StepsStay
    <3> QED
      BY <3>4, <3>5, <3>6
  <2> QED
    BY <2>4, <2>5
<1>13. CASE /\ InEnigme(s) /\ s.phase = "saisie"
            /\ \E input \in Inputs : r = Answered(s, input)
  <2>1. PICK input \in Inputs : r = Answered(s, input)
    BY <1>13
  <2> DEFINE c == CurrentStep(s)
             e == [kind |-> IF IsCorrect(c, input) THEN "enigme-solved" ELSE "enigme-error",
                   about |-> c, attempts |-> s.attempts + 1]
  <2>2. r.section = s.section /\ r.log = Append(s.log, e)
    BY <1>0, <2>1 DEF Answered, Logged, Flows, FlowStates
  <2>3. e \in Events /\ e.kind # "session-complete"
    <3>1. c \in StepIds /\ s.attempts + 1 \in Nat \ {0}
      BY <1>0, <1>13, FlowFields
    <3> HIDE DEF c
    <3> QED
      BY <3>1 DEF Events
  <2> HIDE DEF e
  <2>4. ~IsComplete(s) /\ ~IsComplete(r)
    BY <1>0, <1>13, <2>2 DEF IsComplete
  <2>5. LogEnds(r)
    BY <1>0, <2>2, <2>3, <2>4, EndAhead
  <2> QED
    BY <1>13, <2>1, <2>5, ScoreAnswered, StepsAnswered
<1> HIDE DEF Moves
<1> QED
  BY <1>4, <1>5, <1>6, <1>7, <1>8, <1>9, <1>10, <1>11, <1>12, <1>13 DEF Moves, Strolls, Answers

\* The reducer keeps it, if RETRY comes from screens that allow it.
LEMMA DispatchPlays ==
    ASSUME NEW s \in Plays, NEW e \in Taps, Allowed(s, e)
    PROVE  Dispatch(s, e) \in Plays
<1>1. s \in Flows /\ OnPhase(s)
  BY PlaysFields
<1>2. Dispatch(s, e) \in Flows /\ Moves(s, Dispatch(s, e))
  BY <1>1, DispatchOK, DispatchMoves
<1> QED
  BY <1>2, MovesKeepPlays

LEMMA CreateFlowPlays == CreateFlow \in Plays
<1>1. CreateFlow \in Flows /\ CreateFlow.section = "prologue" /\ CreateFlow.log = <<>>
      /\ CreateFlow.score = 0 /\ CreateFlow.phase = "single" /\ CreateFlow.openedMailId = NoMail
  BY CreateFlowOK DEF CreateFlow
<1>2. ~InEnigme(CreateFlow) /\ ~IsComplete(CreateFlow)
  BY <1>1 DEF InEnigme, IsComplete
<1>3. OnPhase(CreateFlow) /\ LogEnds(CreateFlow)
  BY <1>1, <1>2 DEF OnPhase, PhaseOK, LogEnds
<1>4. \A kind, step : Occurrences(CreateFlow.log, kind, step) = 0
  <2>1. \A kind, step : {i \in DOMAIN <<>> : <<>>[i].kind = kind /\ <<>>[i].about = step} = {}
    OBVIOUS
  <2> QED
    BY <1>1, <2>1, FS_EmptySet DEF Occurrences
<1>5. SolvedSteps(CreateFlow.log) = {}
  BY <1>4 DEF SolvedSteps, Solved
<1>6. ScorePaid(CreateFlow)
  BY <1>1, <1>5, WorthOfNone, FS_EmptySet DEF ScorePaid
<1>7. \A step \in StepIds : StepPlayed(CreateFlow, step)
  <2>1. Passed(CreateFlow) = {} /\ Now(CreateFlow) = {}
    BY <1>1, Places
  <2>2. \A step \in StepIds : Cap[step] \in Nat
    BY KindOfStep
  <2> QED
    BY <1>4, <2>1, <2>2 DEF StepPlayed, Errors, Solved
<1> QED
  BY <1>1, <1>3, <1>6, <1>7 DEF Plays

-----------------------------------------------------------------------------
(***************************************************************************)
(* A tablet being played.  Both the flow and the screen on display, which   *)
(* may lag behind it, are plays; and the « Recommencer » of a screen never  *)
(* meets a flow whose attempts are used up, because a screen that offers it *)
(* is the flow itself, or the flow just before it was tapped.               *)
(***************************************************************************)
RetryLag(s, c) == CanRetry(s) => c \in {s, Retried(s)}

PlayInv ==
    /\ current \in Plays /\ screen \in Plays
    /\ value \in Inputs /\ marks \in Inputs
    /\ RetryLag(screen, current)

\* A screen offers « Recommencer » where it is allowed only, and with it nothing
\* that moves the flow otherwise.
LEMMA RetryOffered ==
    ASSUME NEW s \in Flows, OnPhase(s), CanRetry(s) PROVE ScreenEvents(s) \subseteq {Back, Retry}
<1>1. s.phase = "error" /\ InEnigme(s) /\ s.section = "enigmes"
  BY DEF CanRetry, OnPhase, PhaseOK, InEnigme
<1> QED
  BY <1>1 DEF ScreenEvents, OnConnexion, ErrorEvents

LEMMA RetryWired ==
    ASSUME NEW s, Retry \in ScreenEvents(s) PROVE CanRetry(s)
<1>1. Retry # Back /\ Retry # Continue /\ \A mail \in Mails : Retry # OpenMail(mail)
  BY DEF Retry, Back, Continue, OpenMail
<1>2. \/ OnConnexion(s) \/ s.section = "epilogue" \/ s.phase = "saisie" \/ s.phase = "inbox"
      \/ s.phase \in {"reading", "phishing"} \/ s.phase = "error"
      \/ (InEnigme(s) /\ s.phase \in {"single", "loading"})
      \/ Retry \in {Back, Continue}
  BY DEF ScreenEvents
<1>3. Retry \in {Back} \cup InboxEvents \cup ErrorEvents(s) \cup TimedEvents
  BY <1>1, <1>2 DEF ScreenEvents
<1>4. Retry \in ErrorEvents(s)
  BY <1>1, <1>3 DEF InboxEvents, TimedEvents
<1> QED
  BY <1>1, <1>4 DEF ErrorEvents

LEMMA ScreenAllowed ==
    ASSUME NEW s \in Plays, NEW c \in Plays, RetryLag(s, c), NEW e \in ScreenEvents(s)
    PROVE  Allowed(c, e)
<1>1. SUFFICES ASSUME e = Retry, c.phase = "error" PROVE CanRetry(c)
  BY DEF Allowed
<1>2. CanRetry(s) /\ c \in {s, Retried(s)}
  BY <1>1, RetryWired DEF RetryLag
<1>3. Retried(s).phase = "saisie"
  BY PlaysFields DEF Retried, Flows, FlowStates
<1> QED
  BY <1>1, <1>2, <1>3

LEMMA LagKept ==
    ASSUME NEW s \in Plays, NEW c \in Plays, RetryLag(s, c), NEW e \in ScreenEvents(s)
    PROVE  RetryLag(s, Dispatch(c, e))
<1>1. SUFFICES ASSUME CanRetry(s) PROVE Dispatch(c, e) \in {s, Retried(s)}
  BY DEF RetryLag
<1>2. s \in Flows /\ OnPhase(s) /\ c \in Flows
  BY PlaysFields
<1>3. c \in {s, Retried(s)} /\ e \in {Back, Retry} /\ s.phase = "error"
  BY <1>1, <1>2, RetryOffered DEF RetryLag, CanRetry
<1>4. Retried(s).phase = "saisie"
  BY <1>2 DEF Retried, Flows, FlowStates
<1>5. CASE e = Back
  <2>1. c.phase \notin {"reading", "phishing"}
    BY <1>3, <1>4
  <2>2. Dispatch(c, Back) = c
    BY <2>1 DEF Dispatch, Back
  <2> QED
    BY <1>3, <1>5, <2>2
<1>6. CASE e = Retry
  <2>1. Dispatch(c, Retry) = IF c.phase = "error" THEN Retried(c) ELSE c
    BY DEF Dispatch, Retry, Accepts
  <2> QED
    BY <1>3, <1>4, <1>6, <2>1
<1> QED
  BY <1>3, <1>5, <1>6

LEMMA PlayStarts == PlayInit => PlayInv
<1> SUFFICES ASSUME PlayInit PROVE PlayInv
  OBVIOUS
<1> USE DEF PlayInit
<1>1. CreateFlow \in Plays
  BY CreateFlowPlays
<1>2. RetryLag(screen, current)
  BY DEF RetryLag
<1> QED
  BY <1>1, <1>2 DEF PlayInv, Inputs

LEMMA PlayKept == PlayInv /\ [PlayNext]_playVars => PlayInv'
<1> SUFFICES ASSUME PlayInv, [PlayNext]_playVars PROVE PlayInv'
  OBVIOUS
<1>1. /\ current \in Plays /\ screen \in Plays /\ value \in Inputs /\ marks \in Inputs
      /\ RetryLag(screen, current)
  BY DEF PlayInv
<1>2. CASE Tap
  <2>1. PICK e \in ScreenEvents(screen) : current' = Dispatch(current, e)
    BY <1>2 DEF Tap
  <2>2. e \in Taps /\ Allowed(current, e)
    BY <1>1, TapsOfScreens, ScreenAllowed DEF Taps
  <2>3. current' \in Plays
    BY <1>1, <2>1, <2>2, DispatchPlays
  <2>4. RetryLag(screen, Dispatch(current, e))
    BY <1>1, LagKept
  <2> QED
    BY <1>1, <1>2, <2>1, <2>3, <2>4 DEF PlayInv, Tap, RetryLag
<1>3. CASE SubmitAnyTeam
  <2>1. Continue \in Taps /\ Allowed(current, Continue)
    BY DEF Taps, ScreenTaps, Allowed, Continue, Retry
  <2>2. current' \in Plays
    BY <1>1, <1>3, <2>1, DispatchPlays DEF SubmitAnyTeam
  <2>3. ~CanRetry(screen)
    <3>1. screen.section = "prologue" /\ OnPhase(screen)
      BY <1>1, <1>3, PlaysFields DEF SubmitAnyTeam, OnConnexion
    <3> QED
      BY <3>1 DEF OnPhase, PhaseOK, InEnigme, CanRetry
  <2> QED
    BY <1>1, <1>3, <2>2, <2>3 DEF PlayInv, SubmitAnyTeam, RetryLag
<1>4. CASE Enter
  BY <1>1, <1>4 DEF PlayInv, Enter, RetryLag, Inputs
<1>5. CASE Validate
  <2>1. Answer(value) \in Taps /\ Allowed(current, Answer(value))
    BY <1>1 DEF Taps, Allowed, Answer, Retry
  <2>2. current' \in Plays
    BY <1>1, <1>5, <2>1, DispatchPlays DEF Validate
  <2>3. ~CanRetry(screen)
    BY <1>5 DEF Validate, CanRetry
  <2> QED
    BY <1>1, <1>5, <2>2, <2>3 DEF PlayInv, Validate, RetryLag
<1>6. CASE Draw
  <2>1. screen' = current /\ current' = current
    BY <1>6 DEF Draw
  <2>2. RetryLag(screen', current')
    BY <2>1 DEF RetryLag
  <2>3. value' \in Inputs /\ marks' \in Inputs
    BY <1>1, <1>6 DEF Draw, Inputs
  <2> QED
    BY <1>1, <2>1, <2>2, <2>3 DEF PlayInv
<1>7. CASE UNCHANGED playVars
  BY <1>1, <1>7 DEF PlayInv, playVars, RetryLag
<1> QED
  BY <1>2, <1>3, <1>4, <1>5, <1>6, <1>7 DEF PlayNext

\* Flow and screen stay plays, however taps, timers and answers race the drawing.
THEOREM PlaysStayPlays == PlaySpec => []PlayInv
  BY PlayStarts, PlayKept, PTL DEF PlaySpec

LEMMA PlayFacts ==
    ASSUME PlayInv
    PROVE  NoEnigmeSkipped /\ CapRespected /\ ScoreIsLogged /\ LogClosedAtEnd
<1>1. current \in Plays /\ screen \in Plays /\ value \in Inputs /\ marks \in Inputs
  BY DEF PlayInv
<1>2. /\ current \in Flows /\ screen \in Flows /\ OnPhase(current) /\ OnPhase(screen)
      /\ ScorePaid(current) /\ LogEnds(current)
      /\ \A step \in StepIds : StepPlayed(current, step)
  BY <1>1, PlaysFields DEF Plays
<1>3. NoEnigmeSkipped
  <2>1. Passed(current) \subseteq StepIds
    BY <1>2, Places
  <2> QED
    BY <1>2, <2>1 DEF NoEnigmeSkipped, StepPlayed
<1>4. CapRespected
  <2>1. PlayTypeOK
    BY <1>1, <1>2 DEF PlayTypeOK, OnPhase, Flows
  <2> QED
    BY <1>2, <2>1 DEF CapRespected, StepPlayed
<1>5. ScoreIsLogged
  BY <1>2 DEF ScoreIsLogged, StepPlayed, ScorePaid, SolvedSteps
<1>6. LogClosedAtEnd
  BY <1>2 DEF LogClosedAtEnd, LogEnds
<1> QED
  BY <1>3, <1>4, <1>5, <1>6

\* An énigme the flow has left behind was solved, or its attempts were used up.
THEOREM EnigmesNotSkipped == PlaySpec => []NoEnigmeSkipped
<1>1. PlayInv => NoEnigmeSkipped
  BY PlayFacts
<1> QED
  BY <1>1, PlaysStayPlays, PTL

\* No énigme is answered wrong more often than its maxAttempts.
THEOREM AttemptsCapped == PlaySpec => []CapRespected
<1>1. PlayInv => CapRespected
  BY PlayFacts
<1> QED
  BY <1>1, PlaysStayPlays, PTL

\* The score is what the énigmes the log shows solved are worth, each once.
THEOREM ScoreFollowsLog == PlaySpec => []ScoreIsLogged
<1>1. PlayInv => ScoreIsLogged
  BY PlayFacts
<1> QED
  BY <1>1, PlaysStayPlays, PTL

\* The log ends with session-complete on the final screen, and only there.
THEOREM LogClosedOnce == PlaySpec => []LogClosedAtEnd
<1>1. PlayInv => LogClosedAtEnd
  BY PlayFacts
<1> QED
  BY <1>1, PlaysStayPlays, PTL

-----------------------------------------------------------------------------
(***************************************************************************)
(* What the screen keeps of an answer.  The flow runs ahead of the screen   *)
(* on the steps after it, and stops at the next énigme, which needs an      *)
(* answer from a screen of its own: a body drawn again is that of the same  *)
(* step, or of a later one with no énigme between.                          *)
(***************************************************************************)
Unplayed(s) == s.phase \in {"accueil", "loading", "saisie"} /\ s.attempts = 0

AheadOf(s, c) ==
    /\ s.phase # "saisie"
    /\ \A k \in s.cursor + 1..c.cursor - 1 : Kind[VariantSteps(s)[k]] \notin EnigmeKinds
    /\ Kind[CurrentStep(c)] \in EnigmeKinds => Unplayed(c)

SameStep(s, c) == s.attempts <= c.attempts /\ (s.phase = "success" => c.phase = "success")

Follows(s, c) ==
    InEnigme(s) =>
        /\ c.section # "prologue"
        /\ c.section = "enigmes" =>
              /\ c.variant = s.variant /\ s.cursor <= c.cursor
              /\ s.cursor = c.cursor => SameStep(s, c)
              /\ s.cursor < c.cursor => AheadOf(s, c)

ErrorCounted(s) == s.phase = "error" => s.attempts > 0

ShownInv ==
    /\ PlayInv
    /\ Follows(screen, current)
    /\ ErrorCounted(screen) /\ ErrorCounted(current)
    /\ AnswerAsShown

LEMMA FollowsSelf ==
    ASSUME NEW s \in Plays PROVE Follows(s, s)
<1>1. s \in Flows
  BY PlaysFields
<1>2. s.cursor \in Nat /\ s.attempts \in Nat
  BY <1>1, FlowFields
<1> QED
  BY <1>2 DEF Follows, InEnigme, SameStep

\* A move that leaves the flow on its step.
LEMMA FollowsInPlace ==
    ASSUME NEW s \in Plays, NEW c \in Plays, Follows(s, c), NEW r \in Flows,
           r.section = c.section, r.variant = c.variant, r.cursor = c.cursor,
           c.attempts <= r.attempts,
           c.phase # "success" \/ s.phase = "saisie",
           \/ Kind[CurrentStep(c)] \notin EnigmeKinds
           \/ ~Unplayed(c)
           \/ Unplayed(r)
           \/ s.phase = "saisie"
    PROVE  Follows(s, r)
<1>1. s \in Flows /\ c \in Flows
  BY PlaysFields
<1>2. /\ s.cursor \in Nat /\ c.cursor \in Nat /\ s.attempts \in Nat /\ c.attempts \in Nat
      /\ r.attempts \in Nat
  BY <1>1, FlowFields
<1>3. CurrentStep(r) = CurrentStep(c)
  BY SamePlace
<1> SUFFICES ASSUME InEnigme(s) PROVE
        /\ r.section # "prologue"
        /\ r.section = "enigmes" =>
              /\ r.variant = s.variant /\ s.cursor <= r.cursor
              /\ s.cursor = r.cursor => SameStep(s, r)
              /\ s.cursor < r.cursor => AheadOf(s, r)
  BY DEF Follows
<1>4. /\ c.section # "prologue"
      /\ c.section = "enigmes" =>
            /\ c.variant = s.variant /\ s.cursor <= c.cursor
            /\ s.cursor = c.cursor => SameStep(s, c)
            /\ s.cursor < c.cursor => AheadOf(s, c)
  BY DEF Follows
<1>5. ASSUME c.section = "enigmes", s.cursor = c.cursor PROVE SameStep(s, r)
  BY <1>2, <1>4, <1>5 DEF SameStep
<1>6. ASSUME c.section = "enigmes", s.cursor < c.cursor PROVE AheadOf(s, r)
  BY <1>3, <1>4, <1>6 DEF AheadOf
<1> QED
  BY <1>4, <1>5, <1>6

\* The flow goes on to the next step while the screen shows one it has left.
LEMMA FollowsEnter ==
    ASSUME NEW s \in Plays, NEW c \in Plays, Follows(s, c), s.phase # "saisie",
           Leaves(c), c.cursor < Len(VariantSteps(c)),
           NEW r, r = EnterStep(c, c.cursor + 1)
    PROVE  Follows(s, r)
<1>1. s \in Flows /\ c \in Flows
  BY PlaysFields
<1>2. /\ s.cursor \in Nat /\ c.cursor \in Nat \ {0} /\ Len(VariantSteps(c)) \in Nat
      /\ DOMAIN VariantSteps(c) = 1..Len(VariantSteps(c)) /\ InEnigme(c) /\ c.section = "enigmes"
      /\ CurrentStep(c) = VariantSteps(c)[c.cursor]
      /\ \A i \in DOMAIN VariantSteps(c) : VariantSteps(c)[i] \in StepIds
  BY <1>1, FlowFields DEF Leaves, CurrentStep
<1>3. c.cursor + 1 \in DOMAIN VariantSteps(c)
  BY <1>2
<1>4. /\ r.section = "enigmes" /\ r.cursor = c.cursor + 1 /\ r.attempts = 0
      /\ r.variant = c.variant /\ VariantSteps(r) = VariantSteps(c)
      /\ r.phase = InitialPhase(Kind[VariantSteps(c)[c.cursor + 1]])
  BY <1>1, <1>3, EnterFields
<1> SUFFICES ASSUME InEnigme(s) PROVE
        /\ r.section # "prologue"
        /\ r.section = "enigmes" =>
              /\ r.variant = s.variant /\ s.cursor <= r.cursor
              /\ s.cursor = r.cursor => SameStep(s, r)
              /\ s.cursor < r.cursor => AheadOf(s, r)
  BY DEF Follows
<1>5. /\ c.variant = s.variant /\ s.cursor <= c.cursor
      /\ s.cursor < c.cursor => AheadOf(s, c)
  BY <1>2 DEF Follows
<1>6. s.cursor < r.cursor /\ VariantSteps(s) = VariantSteps(c)
  BY <1>2, <1>4, <1>5 DEF VariantSteps
<1>7. ASSUME NEW k \in s.cursor + 1..r.cursor - 1
      PROVE  Kind[VariantSteps(s)[k]] \notin EnigmeKinds
  <2>1. k \in s.cursor + 1..c.cursor - 1 \/ (k = c.cursor /\ s.cursor < c.cursor)
    BY <1>2, <1>4, <1>5
  <2>2. CASE k \in s.cursor + 1..c.cursor - 1
    <3>1. s.cursor < c.cursor
      BY <1>2, <2>2
    <3> QED
      BY <1>5, <2>2, <3>1 DEF AheadOf
  <2>3. CASE k = c.cursor /\ s.cursor < c.cursor
    <3>1. ~Unplayed(c)
      BY DEF Leaves, Unplayed
    <3> QED
      BY <1>2, <1>5, <1>6, <2>3, <3>1 DEF AheadOf
  <2> QED
    BY <2>1, <2>2, <2>3
<1>8. Kind[CurrentStep(r)] \in EnigmeKinds => Unplayed(r)
  <2>1. CurrentStep(r) = VariantSteps(c)[c.cursor + 1]
    BY <1>4 DEF CurrentStep
  <2>2. Kind[CurrentStep(r)] \in Kinds
    BY <1>2, <1>3, <2>1, KindOfStep
  <2>3. Kind[CurrentStep(r)] \in EnigmeKinds => r.phase = "accueil"
    BY <1>4, <2>1, <2>2 DEF InitialPhase, EnigmeKinds
  <2> QED
    BY <1>4, <2>3 DEF Unplayed
<1>9. AheadOf(s, r)
  BY <1>7, <1>8 DEF AheadOf
<1>10. s.cursor # r.cursor /\ s.cursor <= r.cursor
  BY <1>2, <1>4, <1>6
<1> QED
  BY <1>4, <1>5, <1>9, <1>10

LEMMA FollowsStroll ==
    ASSUME NEW s \in Plays, NEW c \in Plays, Follows(s, c), s.phase # "saisie", InEnigme(s),
           NEW r \in Flows, Strolls(c, r)
    PROVE  Follows(s, r)
<1>1. c \in Flows /\ OnPhase(c)
  BY PlaysFields
<1>2. /\ c.section # "prologue"
      /\ c.cursor \in Nat /\ c.attempts \in Nat
  BY <1>1, FlowFields DEF Follows
<1>3. CASE r = c
  BY <1>3
<1>4. CASE /\ InEnigme(c) /\ c.phase \in {"accueil", "loading"}
           /\ r = [c EXCEPT !.phase = NextIntroPhase(Kind[CurrentStep(c)], c.phase)]
  <2>1. /\ r.section = c.section /\ r.variant = c.variant /\ r.cursor = c.cursor
        /\ r.attempts = c.attempts /\ r.phase \in {"loading", "saisie"}
    BY <1>1, <1>4 DEF Flows, FlowStates, NextIntroPhase
  <2>2. ~Unplayed(c) \/ Unplayed(r)
    BY <2>1 DEF Unplayed
  <2> QED
    <3>1. c.phase # "success" /\ c.attempts <= r.attempts
      BY <1>2, <1>4, <2>1
    <3> QED
      BY <2>1, <2>2, <3>1, FollowsInPlace
<1>5. CASE c.phase \in {"reading", "phishing"} /\ r = Closed(c)
  <2>1. /\ r.section = c.section /\ r.variant = c.variant /\ r.cursor = c.cursor
        /\ r.attempts = c.attempts
    BY <1>1, <1>5 DEF Flows, FlowStates, Closed
  <2> QED
    BY <1>2, <1>5, <2>1, FollowsInPlace DEF Unplayed
<1>6. CASE Leaves(c) /\ c.cursor < Len(VariantSteps(c)) /\ r = EnterStep(c, c.cursor + 1)
  BY <1>6, FollowsEnter
<1>7. CASE Leaves(c) /\ c.cursor = Len(VariantSteps(c)) /\ r = EnterEpilogue(c)
  <2>1. r.section = "epilogue"
    BY <1>1, <1>7, EpilogueFields
  <2> QED
    BY <2>1 DEF Follows
<1>8. CASE c.phase = "error" /\ CanRetry(c) /\ r = Retried(c)
  <2>1. /\ r.section = c.section /\ r.variant = c.variant /\ r.cursor = c.cursor
        /\ r.attempts = c.attempts
    BY <1>1, <1>8 DEF Flows, FlowStates, Retried
  <2> QED
    BY <1>2, <1>8, <2>1, FollowsInPlace DEF Unplayed
<1>9. CASE c.phase = "inbox" /\ \E mail \in Mails : r = Opened(c, mail)
  <2>1. /\ r.section = c.section /\ r.variant = c.variant /\ r.cursor = c.cursor
        /\ r.attempts = c.attempts
    BY <1>1, <1>9 DEF Flows, FlowStates, Opened
  <2> QED
    BY <1>2, <1>9, <2>1, FollowsInPlace DEF Unplayed
<1> QED
  BY <1>2, <1>3, <1>4, <1>5, <1>6, <1>7, <1>8, <1>9 DEF Strolls

\* A body drawn again, on an énigme without an answer and a kind that shows no value,
\* is drawn in the same place.
LEMMA SameBodyKept ==
    ASSUME TwinsApart, NEW s \in Plays, NEW c \in Plays, Follows(s, c), ErrorCounted(s),
           SameBody(s, c), ~ShowsValue(c), c.phase = "saisie", c.attempts = 0
    PROVE  SameWidget(s, c)
<1>1. s \in Flows /\ c \in Flows /\ OnPhase(c)
  BY PlaysFields
<1>2. /\ InEnigme(s) /\ InEnigme(c) /\ s.phase \in BodyPhases
      /\ Kind[CurrentStep(s)] = Kind[CurrentStep(c)]
      /\ s.section = "enigmes" /\ c.section = "enigmes"
  BY DEF SameBody, InEnigme
<1>3. /\ s.variant \in Variants /\ s.cursor \in Nat /\ c.cursor \in Nat /\ s.attempts \in Nat
      /\ CurrentStep(s) = Parcours[s.variant][s.cursor] /\ s.cursor \in DOMAIN Parcours[s.variant]
      /\ CurrentStep(c) = Parcours[c.variant][c.cursor] /\ c.cursor \in DOMAIN Parcours[c.variant]
      /\ CurrentStep(c) \in StepIds
  BY <1>1, <1>2, FlowFields DEF CurrentStep, VariantSteps, InEnigme
<1>4. Kind[CurrentStep(c)] \in EnigmeKinds \ FieldKinds
  <2>1. Kind[CurrentStep(c)] \in Kinds
    BY <1>3, KindOfStep
  <2>2. Kind[CurrentStep(c)] \notin {"mailbox", "piratage"}
    BY <1>1, <1>2 DEF OnPhase, PhaseOK
  <2> QED
    BY <2>1, <2>2 DEF Kinds, ShowsValue
<1>5. /\ c.variant = s.variant /\ s.cursor <= c.cursor
      /\ s.cursor = c.cursor => SameStep(s, c)
      /\ s.cursor < c.cursor => AheadOf(s, c)
  BY <1>2 DEF Follows
<1>6. CASE s.cursor = c.cursor
  <2>1. s.attempts = 0 /\ s.phase # "success"
    BY <1>3, <1>5, <1>6 DEF SameStep
  <2>2. s.phase = "saisie"
    BY <1>2, <1>3, <2>1 DEF ErrorCounted, BodyPhases
  <2> QED
    BY <2>1, <2>2 DEF SameWidget
<1>7. CASE s.cursor < c.cursor
  <2>1. PICK k \in s.cursor + 1..c.cursor - 1 : Kind[Parcours[s.variant][k]] \in EnigmeKinds
    BY <1>2, <1>3, <1>4, <1>5, <1>7 DEF TwinsApart
  <2> QED
    BY <1>5, <1>7, <2>1 DEF AheadOf, VariantSteps
<1> QED
  BY <1>3, <1>5, <1>6, <1>7

LEMMA ErrorKept ==
    ASSUME NEW s \in Flows, ErrorCounted(s), NEW r, Moves(s, r)
    PROVE  ErrorCounted(r)
<1>1. s.attempts \in Nat
  BY FlowFields
<1>2. CASE Answers(s, r)
  <2>1. PICK input \in Inputs : r = Answered(s, input)
    BY <1>2 DEF Answers
  <2>2. r.phase = "success" \/ r.attempts = s.attempts + 1
    BY <2>1 DEF Answered, Flows, FlowStates
  <2> QED
    BY <1>1, <2>2 DEF ErrorCounted
<1>3. ASSUME NEW i, r = EnterStep(s, i), Kind[VariantSteps(s)[i]] \in Kinds PROVE ErrorCounted(r)
  <2>1. r.phase = InitialPhase(Kind[VariantSteps(s)[i]])
    BY <1>3 DEF EnterStep, Flows, FlowStates
  <2> QED
    BY <1>3, <2>1, InitialPhaseFresh DEF ErrorCounted
<1>4. CASE Strolls(s, r)
  <2>1. CASE r = s
    BY <2>1
  <2>2. CASE s.section = "prologue" /\ r = EnterStep(s, 1)
    <3>1. 1 \in DOMAIN VariantSteps(s)
      BY FlowFields
    <3>2. Kind[VariantSteps(s)[1]] \in Kinds
      BY <3>1, FlowFields, KindOfStep
    <3> QED
      BY <1>3, <2>2, <3>2
  <2>3. CASE Leaves(s) /\ s.cursor < Len(VariantSteps(s)) /\ r = EnterStep(s, s.cursor + 1)
    <3>1. s.cursor + 1 \in DOMAIN VariantSteps(s)
      BY <2>3, FlowFields
    <3>2. Kind[VariantSteps(s)[s.cursor + 1]] \in Kinds
      BY <3>1, FlowFields, KindOfStep
    <3> QED
      BY <1>3, <2>3, <3>2
  <2>4. CASE Leaves(s) /\ s.cursor = Len(VariantSteps(s)) /\ r = EnterEpilogue(s)
    BY <2>4, EpilogueFields DEF ErrorCounted
  <2>5. CASE \/ s.section = "prologue" /\ r = [s EXCEPT !.cursor = @ + 1, !.phase = "single"]
             \/ r = [s EXCEPT !.phase = NextIntroPhase(Kind[CurrentStep(s)], s.phase)]
             \/ r = Closed(s) \/ r = Retried(s) \/ \E mail \in Mails : r = Opened(s, mail)
    <3>1. r.phase # "error"
      BY <2>5 DEF Flows, FlowStates, NextIntroPhase, Closed, Retried, Opened
    <3> QED
      BY <3>1 DEF ErrorCounted
  <2> QED
    BY <1>4, <2>1, <2>2, <2>3, <2>4, <2>5 DEF Strolls
<1> QED
  BY <1>2, <1>4 DEF Moves

LEMMA ShownStarts == PlayInit => ShownInv
<1> SUFFICES ASSUME PlayInit PROVE ShownInv
  OBVIOUS
<1>1. PlayInv /\ screen = CreateFlow /\ current = CreateFlow /\ value = marks
  BY PlayStarts DEF PlayInit
<1>2. Follows(screen, current)
  BY <1>1, FollowsSelf DEF PlayInv
<1>3. ErrorCounted(CreateFlow)
  BY DEF ErrorCounted, CreateFlow
<1> QED
  BY <1>1, <1>2, <1>3 DEF ShownInv, AnswerAsShown

LEMMA ShownKept ==
    ASSUME TwinsApart, ShownInv, [PlayNext]_playVars PROVE ShownInv'
<1>1. /\ current \in Plays /\ screen \in Plays /\ value \in Inputs
      /\ Follows(screen, current) /\ RetryLag(screen, current)
      /\ ErrorCounted(screen) /\ ErrorCounted(current) /\ AnswerAsShown
  BY DEF ShownInv, PlayInv
<1>2. /\ current \in Flows /\ screen \in Flows /\ OnPhase(current) /\ OnPhase(screen)
  BY <1>1, PlaysFields
<1>3. PlayInv' /\ current' \in Flows
  <2>1. PlayInv'
    BY PlayKept DEF ShownInv
  <2> QED
    BY <2>1, PlaysFields DEF PlayInv
<1>4. CASE Tap
  <2>1. PICK e \in ScreenEvents(screen) : current' = Dispatch(current, e)
    BY <1>4 DEF Tap
  <2>2. e \in ScreenTaps /\ Allowed(current, e)
    BY <1>1, TapsOfScreens, ScreenAllowed
  <2>3. Strolls(current, current')
    BY <1>2, <2>1, <2>2, DispatchStrolls
  <2>4. Follows(screen, current')
    <3>1. CASE InEnigme(screen) /\ screen.phase # "saisie"
      BY <1>1, <1>3, <2>3, <3>1, FollowsStroll
    <3>2. CASE ~InEnigme(screen)
      BY <3>2 DEF Follows
    <3>3. CASE InEnigme(screen) /\ screen.phase = "saisie"
      <4>1. ScreenEvents(screen) = {Back}
        BY <3>3 DEF ScreenEvents
      <4>2. Dispatch(current, Back) \in {current, Closed(current)}
        BY DEF Dispatch, Back
      <4>3. /\ Closed(current).section = current.section
            /\ Closed(current).variant = current.variant
            /\ Closed(current).cursor = current.cursor
            /\ Closed(current).attempts = current.attempts
        BY <1>2 DEF Closed, Flows, FlowStates
      <4>4. current.attempts \in Nat /\ current' \in {current, Closed(current)}
        BY <1>2, <2>1, <4>1, <4>2, FlowFields
      <4> QED
        BY <1>1, <1>3, <3>3, <4>3, <4>4, FollowsInPlace
    <3> QED
      BY <3>1, <3>2, <3>3
  <2>5. ErrorCounted(current')
    BY <1>1, <1>2, <2>3, ErrorKept DEF Moves
  <2> QED
    BY <1>1, <1>3, <1>4, <2>4, <2>5 DEF ShownInv, Tap, AnswerAsShown
<1>5. CASE SubmitAnyTeam
  <2>1. Continue \in ScreenTaps /\ Allowed(current, Continue)
    BY DEF ScreenTaps, Allowed, Continue, Retry
  <2>2. Strolls(current, current')
    BY <1>2, <1>5, <2>1, DispatchStrolls DEF SubmitAnyTeam
  <2>3. Follows(screen, current')
    BY <1>5 DEF SubmitAnyTeam, OnConnexion, Follows, InEnigme
  <2>4. ErrorCounted(current')
    BY <1>1, <1>2, <2>2, ErrorKept DEF Moves
  <2> QED
    BY <1>1, <1>3, <1>5, <2>3, <2>4 DEF ShownInv, SubmitAnyTeam, AnswerAsShown
<1>6. CASE Enter
  <2>1. value' = marks'
    BY <1>6 DEF Enter
  <2> QED
    BY <1>1, <1>3, <1>6, <2>1 DEF ShownInv, Enter, AnswerAsShown
<1>7. CASE Validate
  <2>1. Answer(value) \in Taps /\ Allowed(current, Answer(value))
    BY <1>1 DEF Taps, Allowed, Answer, Retry
  <2>2. Dispatch(current, Answer(value)) =
            IF current.phase = "saisie" /\ InEnigme(current)
            THEN Answered(current, value) ELSE current
    BY DEF Dispatch, Accepts, Answer
  <2>3. /\ Answered(current, value).section = current.section
        /\ Answered(current, value).variant = current.variant
        /\ Answered(current, value).cursor = current.cursor
        /\ Answered(current, value).attempts \in {current.attempts, current.attempts + 1}
    BY <1>2 DEF Answered, Flows, FlowStates
  <2>4. current.attempts \in Nat /\ screen.phase = "saisie"
    BY <1>2, <1>7, FlowFields DEF Validate
  <2>5. Follows(screen, current')
    <3>1. CASE current' = current
      BY <1>1, <3>1
    <3>2. CASE current' = Answered(current, value)
      <4>1. current.attempts <= current'.attempts
        BY <2>3, <2>4, <3>2
      <4> QED
        BY <1>1, <1>3, <2>3, <2>4, <3>2, <4>1, FollowsInPlace
    <3> QED
      BY <1>7, <2>2, <3>1, <3>2 DEF Validate
  <2>6. Moves(current, current')
    BY <1>2, <1>7, <2>1, DispatchMoves DEF Validate
  <2>7. ErrorCounted(current')
    BY <1>1, <1>2, <2>6, ErrorKept
  <2> QED
    BY <1>1, <1>3, <1>7, <2>5, <2>7 DEF ShownInv, Validate, AnswerAsShown
<1>8. CASE Draw
  <2>1. screen' = current /\ current' = current
    BY <1>8 DEF Draw
  <2>2. Follows(screen', current')
    BY <1>1, <2>1, FollowsSelf
  <2>3. AnswerAsShown'
    <3>1. SUFFICES ASSUME InEnigme(current), current.phase = "saisie",
                          ShowsValue(current) \/ current.attempts = 0
                   PROVE  value' = marks'
      BY <2>1 DEF AnswerAsShown
    <3>2. CASE ShowsValue(current) \/ ~SameBody(screen, current)
      <4>1. SameWidget(screen, current) => SameBody(screen, current)
        BY DEF SameWidget
      <4> QED
        BY <1>8, <3>2, <4>1 DEF Draw
    <3>3. CASE ~ShowsValue(current) /\ SameBody(screen, current)
      <4>1. SameWidget(screen, current)
        BY <1>1, <3>1, <3>3, SameBodyKept
      <4>2. value = marks
        BY <1>1, <3>1, <3>3, <4>1 DEF AnswerAsShown, SameWidget, SameBody
      <4> QED
        BY <1>8, <3>3, <4>1, <4>2 DEF Draw
    <3> QED
      BY <3>2, <3>3
  <2> QED
    BY <1>1, <1>3, <2>1, <2>2, <2>3 DEF ShownInv
<1>9. CASE UNCHANGED playVars
  BY <1>1, <1>3, <1>9 DEF ShownInv, playVars, AnswerAsShown
<1> QED
  BY <1>4, <1>5, <1>6, <1>7, <1>8, <1>9 DEF PlayNext

\* Where énigmes of one kind are kept apart, « Valider » sends what the screen shows
\* entered, on a first attempt and wherever a field shows the value, whatever the
\* drawing of React lags behind.
THEOREM AnswersAreShown == ASSUME TwinsApart PROVE PlaySpec => []AnswerAsShown
<1>1. PlayInit => ShownInv
  BY ShownStarts
<1>2. ShownInv /\ [PlayNext]_playVars => ShownInv'
  BY ShownKept
<1>3. ShownInv => AnswerAsShown
  BY DEF ShownInv
<1> QED
  BY <1>1, <1>2, <1>3, PTL DEF PlaySpec

-----------------------------------------------------------------------------
(***************************************************************************)
(* What a play can score: each énigme pays once, and those paid are of its  *)
(* parcours.                                                                *)
(***************************************************************************)
Scores == 0..AllPoints

StepsOf(v) == {Parcours[v][i] : i \in DOMAIN Parcours[v]}

LEMMA ScoreInScores ==
    ASSUME NEW s \in Plays PROVE s.score \in Scores
<1>1. s \in Flows /\ ScorePaid(s) /\ \A step \in StepIds : StepPlayed(s, step)
  BY PlaysFields
<1> DEFINE A == UNION {StepsOf(v) : v \in Variants}
<1>2. ASSUME NEW v \in Variants PROVE IsFiniteSet(StepsOf(v)) /\ StepsOf(v) \subseteq StepIds
  <2>1. /\ DOMAIN Parcours[v] = 1..Len(Parcours[v]) /\ Len(Parcours[v]) \in Nat
        /\ \A i \in DOMAIN Parcours[v] : Parcours[v][i] \in StepIds
    BY ParcoursFacts
  <2>2. IsFiniteSet(DOMAIN Parcours[v])
    BY <2>1, FS_Interval
  <2>3. Parcours[v] = [i \in DOMAIN Parcours[v] |-> Parcours[v][i]]
    BY <2>1, ParcoursFacts
  <2>4. Parcours[v] \in Surjection(DOMAIN Parcours[v], StepsOf(v))
    BY <2>3 DEF Surjection, StepsOf
  <2> QED
    BY <2>1, <2>2, <2>4, FS_Surjection DEF StepsOf
<1>3. IsFiniteSet({StepsOf(v) : v \in Variants})
  <2> DEFINE f == [v \in Variants |-> StepsOf(v)]
  <2>1. f \in Surjection(Variants, {StepsOf(v) : v \in Variants})
    BY DEF Surjection
  <2>2. IsFiniteSet(Variants)
    BY ParcoursAssumption DEF ParcoursAssumption
  <2> HIDE DEF f
  <2> QED
    BY <2>1, <2>2, FS_Surjection
<1>4. IsFiniteSet(A) /\ A \in SUBSET StepIds /\ Worth(A) = AllPoints
  <2>1. IsFiniteSet(A)
    BY <1>2, <1>3, FS_UNION
  <2>2. A = UNION {{Parcours[v][i] : i \in DOMAIN Parcours[v]} : v \in Variants}
    BY DEF StepsOf
  <2> QED
    BY <1>2, <2>1, <2>2 DEF AllPoints
<1>5. Passed(s) \cup Now(s) \subseteq StepsOf(s.variant)
  <2>1. /\ s.section \in {"prologue", "enigmes", "epilogue"} /\ VariantSteps(s) = Parcours[s.variant]
        /\ DOMAIN VariantSteps(s) = 1..Len(VariantSteps(s)) /\ Len(VariantSteps(s)) \in Nat
    BY <1>1, FlowFields DEF VariantSteps
  <2>2. CASE s.section = "prologue"
    BY <1>1, <2>2, Places
  <2>3. CASE s.section = "epilogue"
    BY <1>1, <2>1, <2>3, Places DEF StepsOf
  <2>4. CASE s.section = "enigmes"
    <3>1. /\ Passed(s) = {VariantSteps(s)[i] : i \in 1..(s.cursor - 1)}
          /\ Now(s) = {VariantSteps(s)[s.cursor]} /\ s.cursor \in 1..Len(VariantSteps(s))
      BY <1>1, <2>4, Places
    <3>2. \A i \in 1..(s.cursor - 1) : i \in DOMAIN VariantSteps(s)
      BY <2>1, <3>1
    <3> QED
      BY <2>1, <3>1, <3>2 DEF StepsOf
  <2> QED
    BY <2>1, <2>2, <2>3, <2>4
<1>6. SolvedSteps(s.log) \in SUBSET A
  <2>1. ASSUME NEW step \in StepIds, Solved(s.log, step) PROVE step \in A
    <3>1. Occurrences(s.log, "enigme-solved", step) > 0
      BY <2>1 DEF Solved
    <3>2. step \in Passed(s) \cup Now(s)
      BY <1>1, <3>1 DEF StepPlayed
    <3>3. s.variant \in Variants
      BY <1>1, FlowFields
    <3> QED
      BY <1>5, <3>2, <3>3
  <2> QED
    BY <2>1 DEF SolvedSteps
<1> HIDE DEF A
<1>7. Worth(SolvedSteps(s.log)) <= Worth(A) /\ Worth(A) \in Nat
  BY <1>4, <1>6, WorthGrows, WorthTakes
<1>8. s.score \in Nat
  BY <1>1, FlowFields
<1> QED
  BY <1>1, <1>4, <1>7, <1>8 DEF ScorePaid, Scores

\* What the screen of a play dispatches keeps it one.
LEMMA PlaysPlayed ==
    ASSUME NEW s \in Plays, NEW e \in PlayEvents(s) PROVE Dispatch(s, e) \in Plays
<1>1. CASE e \in ScreenEvents(s)
  <2>1. RetryLag(s, s)
    BY DEF RetryLag
  <2>2. e \in Taps /\ Allowed(s, e)
    BY <1>1, <2>1, TapsOfScreens, ScreenAllowed DEF Taps
  <2> QED
    BY <2>2, DispatchPlays
<1>2. ASSUME NEW i \in Inputs, e = Answer(i) PROVE Dispatch(s, e) \in Plays
  <2>1. e \in Taps /\ Allowed(s, e)
    BY <1>2 DEF Taps, Allowed, Answer, Retry
  <2> QED
    BY <2>1, DispatchPlays
<1> QED
  BY <1>1, <1>2 DEF PlayEvents

LEMMA ContinuePlays ==
    ASSUME NEW s \in Plays PROVE Dispatch(s, Continue) \in Plays
<1>1. Continue \in Taps /\ Allowed(s, Continue)
  BY DEF Taps, ScreenTaps, Allowed, Continue, Retry
<1> QED
  BY <1>1, DispatchPlays

LEMMA NodeIsPlayed ==
    ASSUME NEW s \in Plays PROVE NodeId(s) \in Steps
  BY NodeIsStep, PlaysFields DEF Steps

LEMMA PlayedLog ==
    ASSUME NEW s \in Plays PROVE s.log \in Seq(Events)
  BY FlowFields, PlaysFields

LEMMA ScoresNatural == \A x \in Scores : x \in Nat /\ x <= AllPoints
  BY DEF Scores

LEMMA ZeroScores == 0 \in Scores
  BY ScoreInScores, CreateFlowPlays DEF CreateFlow
-----------------------------------------------------------------------------
(***************************************************************************)
(* The invariant.  A frame keeps the team it was made for, wherever it      *)
(* waits, so the teams entered on a tablet bound what it remembers, what it *)
(* has still to write, what is on its way in either direction and what may  *)
(* yet be read of its dead sockets; and what the server holds was filed by a *)
(* tablet on which the team was entered.                                    *)
(***************************************************************************)
GamesOf(T) == [team : T \cup {NoTeam}, step : Steps, score : Scores]

WritesOf(T) == [key : {"game"}, value : GamesOf(T)] \cup [key : {"flow"}, value : Plays]

ReportsOf(d, T) ==
    [type : {"state"}, device : {d}, team : T, step : Steps, score : Scores, time : Nat, sent : Nat]
    \cup [type : {"log"}, device : {d}, team : T, events : Seq(Events)]

FramesOf(d, T) == ReportsOf(d, T) \cup {[type |-> "hello"]}

\* A hello comes before all else on a socket.
QueueOK(q, d, T) ==
    /\ q \in Seq(FramesOf(d, T))
    /\ \/ q \in Seq(ReportsOf(d, T))
       \/ q # <<>> /\ Head(q).type = "hello" /\ Tail(q) \in Seq(ReportsOf(d, T))

RestoresOf(T) == [team : T, step : Steps, score : Scores]

Pushes(t) == [device : {d \in Tablets : t \in typed[d]}, events : Seq(Events)]

OfTablets(f) == f = [d \in Tablets |-> f[d]]

Shape ==
    /\ running \in [Tablets -> BOOLEAN] /\ open \in [Tablets -> BOOLEAN]
    /\ told \in [Tablets -> BOOLEAN] /\ torn \in [Tablets -> BOOLEAN]
    /\ typed \in [Tablets -> SUBSET Teams]
    /\ OfTablets(flow) /\ OfTablets(game) /\ OfTablets(shown) /\ OfTablets(writes)
    /\ OfTablets(disk) /\ OfTablets(up) /\ OfTablets(down) /\ OfTablets(late)
    /\ now \in Nat /\ faults \in Nat

TabletOK(d) ==
    /\ flow[d] \in Plays \cup {NoFlow}
    /\ game[d] \in GamesOf(typed[d]) /\ shown[d] \in GamesOf(typed[d])
    /\ disk[d] \in [game : GamesOf(typed[d]), flow : Plays \cup {NoFlow}]
    /\ writes[d] \in Seq(WritesOf(typed[d]))
    /\ QueueOK(up[d], d, typed[d])
    /\ down[d] \in Seq(RestoresOf(typed[d]))
    /\ late[d] \in Seq(ReportsOf(d, typed[d]))
    /\ open[d] => running[d]
    /\ ~open[d] => up[d] = <<>> /\ down[d] = <<>>
    /\ ~running[d] => writes[d] = <<>>

ServerOK ==
    /\ row \in [Teams -> Rows \cup {NoRow}]
    /\ \A t \in Teams : row[t] # NoRow => t \in typed[row[t].device] /\ row[t].score \in Scores
    /\ log = [t \in Teams |-> log[t]]
    /\ \A t \in Teams : log[t] \in Seq(Pushes(t))

IInv == Shape /\ (\A d \in Tablets : TabletOK(d)) /\ ServerOK

TabletVars(d) ==
    <<flow[d], game[d], shown[d], disk[d], writes[d], up[d], down[d], late[d], open[d],
      running[d], typed[d]>>

LEMMA TabletKept ==
    ASSUME NEW d \in Tablets, TabletOK(d), UNCHANGED TabletVars(d)
    PROVE  TabletOK(d)'
  BY DEF TabletOK, TabletVars

LEMMA ServerKept ==
    ASSUME ServerOK, UNCHANGED <<server, typed>>
    PROVE  ServerOK'
  BY DEF ServerOK, server, Pushes

\* A step of one tablet.
LEMMA OneTablet ==
    ASSUME IInv, NEW d \in Tablets, Shape', TabletOK(d)',
           \A c \in Tablets \ {d} : UNCHANGED TabletVars(c), ServerOK'
    PROVE  IInv'
  <1>1. \A c \in Tablets \ {d} : TabletOK(c)'
    BY TabletKept DEF IInv
  <1> QED
    BY <1>1 DEF IInv

LEMMA QueueEmpty ==
    ASSUME NEW d, NEW T
    PROVE  /\ QueueOK(<<>>, d, T) /\ QueueOK(<<[type |-> "hello"]>>, d, T)
           /\ \A S : <<>> \in Seq(S)
  <1>1. \A S : <<>> \in Seq(S)
    BY EmptySeq
  <1>2. /\ <<[type |-> "hello"]>> \in Seq(FramesOf(d, T))
        /\ <<[type |-> "hello"]>> # <<>>
        /\ Head(<<[type |-> "hello"]>>) = [type |-> "hello"]
        /\ Tail(<<[type |-> "hello"]>>) = <<>>
    BY DEF FramesOf
  <1> QED
    BY <1>1, <1>2 DEF QueueOK

LEMMA QueueAppend ==
    ASSUME NEW d, NEW T, NEW q, QueueOK(q, d, T), NEW f \in ReportsOf(d, T)
    PROVE  QueueOK(Append(q, f), d, T)
  <1>1. Append(q, f) \in Seq(FramesOf(d, T))
    BY AppendProperties DEF QueueOK, FramesOf
  <1>2. CASE q \in Seq(ReportsOf(d, T))
    BY <1>1, <1>2, AppendProperties DEF QueueOK
  <1>3. CASE q # <<>> /\ Head(q).type = "hello" /\ Tail(q) \in Seq(ReportsOf(d, T))
    <2>1. /\ Append(q, f) # <<>> /\ Head(Append(q, f)) = Head(q)
          /\ Tail(Append(q, f)) = Append(Tail(q), f)
      BY <1>3, AppendProperties, HeadTailAppend DEF QueueOK, FramesOf
    <2>2. Append(Tail(q), f) \in Seq(ReportsOf(d, T))
      BY <1>3, AppendProperties
    <2> QED
      BY <1>1, <1>3, <2>1, <2>2 DEF QueueOK
  <1> QED
    BY <1>2, <1>3 DEF QueueOK

LEMMA QueueNext ==
    ASSUME NEW d, NEW T, NEW q, QueueOK(q, d, T), q # <<>>
    PROVE  /\ Tail(q) \in Seq(ReportsOf(d, T))
           /\ Head(q).type = "hello" \/ Head(q) \in ReportsOf(d, T)
           /\ Head(q).type # "hello" => q \in Seq(ReportsOf(d, T))
           /\ QueueOK(Tail(q), d, T)
  <1>1. Tail(q) \in Seq(FramesOf(d, T))
    BY HeadTailProperties DEF QueueOK
  <1>2. Tail(q) \in Seq(ReportsOf(d, T)) /\ (Head(q).type = "hello" \/ Head(q) \in ReportsOf(d, T))
    BY HeadTailProperties DEF QueueOK
  <1> QED
    BY <1>1, <1>2 DEF QueueOK

\* Where one more team is entered, all that was well formed still is.
LEMMA MoreTeams ==
    ASSUME NEW d, NEW T, NEW U, T \subseteq U
    PROVE  /\ GamesOf(T) \subseteq GamesOf(U) /\ WritesOf(T) \subseteq WritesOf(U)
           /\ Seq(WritesOf(T)) \subseteq Seq(WritesOf(U))
           /\ Seq(RestoresOf(T)) \subseteq Seq(RestoresOf(U))
           /\ Seq(ReportsOf(d, T)) \subseteq Seq(ReportsOf(d, U))
           /\ \A q : QueueOK(q, d, T) => QueueOK(q, d, U)
  <1>1. GamesOf(T) \subseteq GamesOf(U)
    BY DEF GamesOf
  <1>2. WritesOf(T) \subseteq WritesOf(U)
    BY <1>1 DEF WritesOf
  <1>3. RestoresOf(T) \subseteq RestoresOf(U)
    BY DEF RestoresOf
  <1>4. ReportsOf(d, T) \subseteq ReportsOf(d, U) /\ FramesOf(d, T) \subseteq FramesOf(d, U)
    BY DEF ReportsOf, FramesOf
  <1>5. /\ Seq(ReportsOf(d, T)) \subseteq Seq(ReportsOf(d, U))
        /\ Seq(FramesOf(d, T)) \subseteq Seq(FramesOf(d, U))
    BY <1>4, SeqMonotonic
  <1>6. \A q : QueueOK(q, d, T) => QueueOK(q, d, U)
    BY <1>5 DEF QueueOK
  <1> QED
    BY <1>1, <1>2, <1>3, <1>5, <1>6, SeqMonotonic

-----------------------------------------------------------------------------
LEMMA DefaultGameOK == \A T : DefaultGame \in GamesOf(T)
  BY ZeroScores DEF DefaultGame, GamesOf, Steps

LEMMA SyncInitial == Init => IInv
  <1> SUFFICES ASSUME Init PROVE IInv
    OBVIOUS
  <1>1. Shape
    BY DEF Init, Shape, OfTablets
  <1>2. ASSUME NEW d \in Tablets PROVE TabletOK(d)
    <2>1. /\ game[d] = DefaultGame /\ shown[d] = DefaultGame /\ flow[d] = NoFlow
          /\ disk[d] = [game |-> DefaultGame, flow |-> NoFlow]
          /\ writes[d] = <<>> /\ up[d] = <<>> /\ down[d] = <<>> /\ late[d] = <<>>
          /\ ~open[d] /\ ~running[d]
      BY DEF Init
    <2> QED
      BY <2>1, DefaultGameOK, QueueEmpty DEF TabletOK
  <1>3. ServerOK
    BY QueueEmpty DEF Init, ServerOK
  <1> QED
    BY <1>1, <1>2, <1>3 DEF IInv

-----------------------------------------------------------------------------
(***************************************************************************)
(* Boot and play.                                                           *)
(***************************************************************************)
LEMMA BootStep ==
    ASSUME IInv, NEW d \in Tablets, Launch(d) \/ Hydrate(d)
    PROVE  IInv'
  <1>1. TabletOK(d) /\ Shape /\ ServerOK
    BY DEF IInv
  <1>2. CASE Launch(d)
    <2>1. /\ OfTablets(game') /\ game'[d] = disk[d].game
          /\ OfTablets(shown') /\ shown'[d] = disk[d].game
          /\ \A c \in Tablets \ {d} : game'[c] = game[c] /\ shown'[c] = shown[c]
      BY <1>1, <1>2 DEF Launch, Shape, OfTablets
    <2>2. /\ running' \in [Tablets -> BOOLEAN] /\ running'[d]
          /\ \A c \in Tablets \ {d} : running'[c] = running[c]
      BY <1>1, <1>2 DEF Launch, Shape
    <2>3. TabletOK(d)'
      BY <1>1, <1>2, <2>1, <2>2 DEF Launch, TabletOK, socket, ghosts
    <2>4. Shape'
      BY <1>1, <1>2, <2>1, <2>2 DEF Launch, Shape, socket, ghosts
    <2> QED
      BY <1>1, <1>2, <2>1, <2>2, <2>3, <2>4, OneTablet, ServerKept
         DEF Launch, TabletVars, socket, ghosts
  <1>3. CASE Hydrate(d)
    <2>1. /\ OfTablets(flow') /\ flow'[d] = Hydrated(disk[d].flow)
          /\ \A c \in Tablets \ {d} : flow'[c] = flow[c]
      BY <1>1, <1>3 DEF Hydrate, Shape, OfTablets
    <2>2. flow'[d] \in Plays
      BY <1>1, <2>1, CreateFlowPlays DEF Hydrated, TabletOK
    <2>3. TabletOK(d)'
      BY <1>1, <1>3, <2>2 DEF Hydrate, TabletOK, socket, ghosts
    <2>4. Shape'
      BY <1>1, <1>3, <2>1 DEF Hydrate, Shape, socket, ghosts
    <2> QED
      BY <1>1, <1>3, <2>1, <2>3, <2>4, OneTablet, ServerKept
         DEF Hydrate, TabletVars, socket, ghosts
  <1> QED
    BY <1>2, <1>3

LEMMA ProjectedOK ==
    ASSUME NEW T, NEW s \in Plays, NEW g \in GamesOf(T)
    PROVE  Projected(s, g) \in GamesOf(T)
  BY NodeIsPlayed, ScoreInScores DEF Projected, GamesOf

LEMMA WritesGrow ==
    ASSUME NEW T, NEW w \in Seq(WritesOf(T)), NEW s \in Plays, NEW g \in GamesOf(T)
    PROVE  /\ w \o <<FlowWrite(s), GameWrite(g)>> \in Seq(WritesOf(T))
           /\ Append(w, GameWrite(g)) \in Seq(WritesOf(T))
           /\ \A h \in GamesOf(T) :
                 w \o <<GameWrite(h), FlowWrite(s), GameWrite(g)>> \in Seq(WritesOf(T))
  <1>1. /\ FlowWrite(s) \in WritesOf(T)
        /\ \A h \in GamesOf(T) : GameWrite(h) \in WritesOf(T)
    BY DEF FlowWrite, GameWrite, WritesOf
  <1>2. /\ <<FlowWrite(s), GameWrite(g)>> \in Seq(WritesOf(T))
        /\ \A h \in GamesOf(T) :
              <<GameWrite(h), FlowWrite(s), GameWrite(g)>> \in Seq(WritesOf(T))
    BY <1>1
  <1> QED
    BY <1>1, <1>2, ConcatProperties, AppendProperties

\* What a tablet sends, it sends for a team entered on it.
LEMMA SentOK ==
    ASSUME NEW d \in Tablets, OfTablets(up), QueueOK(up[d], d, typed[d]), open[d],
           NEW f \in ReportsOf(d, typed[d])
    PROVE  /\ OfTablets(Sent(d, f)) /\ QueueOK(Sent(d, f)[d], d, typed[d])
           /\ \A c \in Tablets \ {d} : Sent(d, f)[c] = up[c]
  <1>1. Sent(d, f) = [up EXCEPT ![d] = Append(up[d], f)]
    BY DEF Sent
  <1>2. /\ OfTablets(Sent(d, f)) /\ Sent(d, f)[d] = Append(up[d], f)
        /\ \A c \in Tablets \ {d} : Sent(d, f)[c] = up[c]
    BY <1>1 DEF OfTablets
  <1> QED
    BY <1>2, QueueAppend

LEMMA PlayStep ==
    ASSUME IInv, NEW d \in Tablets, Play(d)
    PROVE  IInv'
  <1>1. TabletOK(d) /\ Shape /\ ServerOK
    BY DEF IInv
  <1>2. flow[d] \in Plays
    BY <1>1 DEF TabletOK, Play, OnScreen
  <1>3. \A e \in PlayEvents(flow[d]) : Dispatch(flow[d], e) \in Plays
    BY <1>2, PlaysPlayed
  <1>4. PICK next \in Plays :
           /\ flow' = [flow EXCEPT ![d] = next]
           /\ game' = [game EXCEPT ![d] = Projected(next, @)]
           /\ writes' = [writes EXCEPT ![d] = @ \o <<FlowWrite(next), GameWrite(game'[d])>>]
           /\ up' = IF (IsComplete(next) /\ ~IsComplete(flow[d])) /\ shown[d].team # NoTeam
                    THEN Sent(d, LogFrame(d, next.log)) ELSE up
    BY <1>3 DEF Play
  <1>5. \/ up' = up
        \/ shown[d].team # NoTeam /\ up' = Sent(d, LogFrame(d, next.log))
    BY <1>4
  <1>6. /\ OfTablets(flow') /\ flow'[d] = next
        /\ OfTablets(game') /\ game'[d] = Projected(next, game[d])
        /\ \A c \in Tablets \ {d} : flow'[c] = flow[c] /\ game'[c] = game[c]
    BY <1>1, <1>4 DEF Shape, OfTablets
  <1>7. game'[d] \in GamesOf(typed[d])
    BY <1>1, <1>4, <1>6, ProjectedOK DEF TabletOK
  <1>8. /\ OfTablets(writes') /\ writes'[d] = writes[d] \o <<FlowWrite(next), GameWrite(game'[d])>>
        /\ \A c \in Tablets \ {d} : writes'[c] = writes[c]
    BY <1>1, <1>4 DEF Shape, OfTablets
  <1>9. writes'[d] \in Seq(WritesOf(typed[d]))
    <2>1. next \in Plays /\ writes[d] \in Seq(WritesOf(typed[d]))
      BY <1>1 DEF TabletOK
    <2> QED
      BY <1>7, <1>8, <2>1, WritesGrow
  <1>10. /\ OfTablets(up') /\ QueueOK(up'[d], d, typed[d])
         /\ \A c \in Tablets \ {d} : up'[c] = up[c]
         /\ ~open[d] => up' = up
    <2>1. shown[d].team # NoTeam => LogFrame(d, next.log) \in ReportsOf(d, typed[d])
      BY <1>1, <1>4, PlayedLog DEF LogFrame, ReportsOf, TabletOK, GamesOf
    <2>2. CASE up' = up
      BY <1>1, <2>2 DEF TabletOK, Shape
    <2>3. CASE up' # up
      <3>1. open[d]
        BY <1>5, <2>3 DEF Sent
      <3> QED
        BY <1>1, <1>5, <2>1, <2>3, <3>1, SentOK DEF TabletOK, Shape
    <2> QED
      BY <2>2, <2>3
  <1>11. running[d] /\ UNCHANGED <<running, shown, disk, open, down, late, server, now, ghosts>>
    BY DEF Play, OnScreen
  <1>12. TabletOK(d)'
    BY <1>1, <1>4, <1>6, <1>7, <1>9, <1>10, <1>11 DEF TabletOK, ghosts
  <1>13. Shape'
    BY <1>1, <1>6, <1>8, <1>10, <1>11 DEF Shape, ghosts
  <1> QED
    BY <1>1, <1>6, <1>8, <1>10, <1>11, <1>12, <1>13, OneTablet, ServerKept
       DEF TabletVars, ghosts

LEMMA SubmitStep ==
    ASSUME IInv, NEW d \in Tablets, SubmitTeam(d)
    PROVE  IInv'
  <1>1. TabletOK(d) /\ Shape /\ ServerOK
    BY DEF IInv
  <1>2. PICK t \in Teams :
           /\ flow' = [flow EXCEPT ![d] = Dispatch(flow[d], Continue)]
           /\ game' = [game EXCEPT ![d] =
                  Projected(Dispatch(flow[d], Continue), [game[d] EXCEPT !.team = t])]
           /\ writes' = [writes EXCEPT ![d] =
                  writes[d] \o <<GameWrite([game[d] EXCEPT !.team = t]),
                                 FlowWrite(Dispatch(flow[d], Continue)), GameWrite(game'[d])>>]
           /\ typed' = [typed EXCEPT ![d] = typed[d] \cup {t}]
    BY DEF SubmitTeam
  <1>3. flow[d] \in Plays
    BY <1>1 DEF TabletOK, SubmitTeam, OnScreen
  <1>4. PICK next \in Plays : next = Dispatch(flow[d], Continue)
    BY <1>3, ContinuePlays
  <1>5. typed' \in [Tablets -> SUBSET Teams] /\ typed'[d] = typed[d] \cup {t}
    BY <1>1, <1>2 DEF Shape
  <1>6. \A c \in Tablets \ {d} : typed'[c] = typed[c]
    BY <1>1, <1>2 DEF Shape
  <1>7. PICK named \in GamesOf(typed'[d]) : named = [game[d] EXCEPT !.team = t]
    BY <1>1, <1>5 DEF TabletOK, GamesOf
  <1>8. /\ OfTablets(flow') /\ flow'[d] = next
        /\ OfTablets(game') /\ game'[d] = Projected(next, named)
        /\ \A c \in Tablets \ {d} : flow'[c] = flow[c] /\ game'[c] = game[c]
    BY <1>1, <1>2, <1>4, <1>7 DEF Shape, OfTablets
  <1>9. game'[d] \in GamesOf(typed'[d])
    BY <1>7, <1>8, ProjectedOK
  <1>10. /\ OfTablets(writes')
         /\ writes'[d] = writes[d] \o <<GameWrite(named), FlowWrite(next), GameWrite(game'[d])>>
         /\ \A c \in Tablets \ {d} : writes'[c] = writes[c]
    BY <1>1, <1>2, <1>4, <1>7 DEF Shape, OfTablets
  <1>11. /\ writes[d] \in Seq(WritesOf(typed'[d])) /\ QueueOK(up[d], d, typed'[d])
         /\ down[d] \in Seq(RestoresOf(typed'[d])) /\ late[d] \in Seq(ReportsOf(d, typed'[d]))
         /\ shown[d] \in GamesOf(typed'[d]) /\ disk[d].game \in GamesOf(typed'[d])
    <2>1. typed[d] \subseteq typed'[d]
      BY <1>5
    <2>2. /\ GamesOf(typed[d]) \subseteq GamesOf(typed'[d])
          /\ Seq(WritesOf(typed[d])) \subseteq Seq(WritesOf(typed'[d]))
          /\ Seq(RestoresOf(typed[d])) \subseteq Seq(RestoresOf(typed'[d]))
          /\ Seq(ReportsOf(d, typed[d])) \subseteq Seq(ReportsOf(d, typed'[d]))
      BY <2>1, MoreTeams
    <2>3. QueueOK(up[d], d, typed[d]) => QueueOK(up[d], d, typed'[d])
      BY <2>1, MoreTeams
    <2> QED
      BY <1>1, <2>2, <2>3 DEF TabletOK
  <1>12. writes'[d] \in Seq(WritesOf(typed'[d]))
    BY <1>7, <1>9, <1>10, <1>11, WritesGrow
  <1>13. running[d] /\ UNCHANGED <<running, shown, disk, socket, server, now, told, torn, faults>>
    BY DEF SubmitTeam, OnScreen
  <1>14. TabletOK(d)'
    BY <1>1, <1>8, <1>9, <1>11, <1>12, <1>13 DEF TabletOK, socket
  <1>15. Shape'
    BY <1>1, <1>5, <1>8, <1>10, <1>13 DEF Shape, socket
  <1>16. ServerOK'
    <2>1. \A c \in Tablets : typed[c] \subseteq typed'[c]
      BY <1>5, <1>6
    <2>2. ASSUME NEW u \in Teams PROVE Seq(Pushes(u)) \subseteq Seq(Pushes(u)')
      <3>1. Pushes(u) \subseteq Pushes(u)'
        BY <2>1 DEF Pushes
      <3> QED
        BY <3>1, SeqMonotonic
    <2>3. \A u \in Teams : row[u] # NoRow => u \in typed'[row[u].device]
      BY <1>1, <2>1 DEF ServerOK, Rows
    <2>4. \A u \in Teams : log'[u] \in Seq(Pushes(u))'
      BY <1>1, <1>13, <2>2 DEF ServerOK, server
    <2> QED
      BY <1>1, <1>13, <2>3, <2>4 DEF ServerOK, server
  <1>17. \A c \in Tablets \ {d} : UNCHANGED TabletVars(c)
    BY <1>6, <1>8, <1>10, <1>13 DEF TabletVars, socket
  <1> QED
    BY <1>14, <1>15, <1>16, <1>17, OneTablet

LEMMA RenderStep ==
    ASSUME IInv, NEW d \in Tablets, Render(d)
    PROVE  IInv'
  <1>1. TabletOK(d) /\ Shape /\ ServerOK
    BY DEF IInv
  <1>2. /\ OfTablets(shown') /\ shown'[d] = game[d]
        /\ \A c \in Tablets \ {d} : shown'[c] = shown[c]
    BY <1>1 DEF Render, Shape, OfTablets
  <1>3. /\ OfTablets(up') /\ QueueOK(up'[d], d, typed[d])
        /\ \A c \in Tablets \ {d} : up'[c] = up[c]
        /\ ~open[d] => up' = up
    <2>1. CASE PushDue(shown[d], game[d])
      <3>1. StateFrame(d, game[d], now + 1) \in ReportsOf(d, typed[d])
        BY <1>1, <2>1, SyncAssumption
           DEF SyncAssumption, PushDue, StateFrame, ReportsOf, TabletOK, GamesOf, Shape
      <3>2. up' = Sent(d, StateFrame(d, game[d], now + 1))
        BY <2>1 DEF Render
      <3> QED
        BY <1>1, <3>1, <3>2, SentOK DEF Sent, TabletOK, Shape
    <2>2. CASE ~PushDue(shown[d], game[d])
      BY <1>1, <2>2 DEF Render, TabletOK, Shape
    <2> QED
      BY <2>1, <2>2
  <1>4. now' \in Nat /\ told' \in [Tablets -> BOOLEAN]
    BY <1>1 DEF Render, Shape
  <1>5. /\ running[d]
        /\ UNCHANGED <<running, flow, game, writes, disk, open, down, late, server, typed,
                       torn, faults>>
    BY DEF Render
  <1>6. TabletOK(d)'
    BY <1>1, <1>2, <1>3, <1>5 DEF TabletOK
  <1>7. Shape'
    BY <1>1, <1>2, <1>3, <1>4, <1>5 DEF Shape
  <1> QED
    BY <1>1, <1>2, <1>3, <1>5, <1>6, <1>7, OneTablet, ServerKept DEF TabletVars

LEMMA FlushStep ==
    ASSUME IInv, NEW d \in Tablets, Flush(d)
    PROVE  IInv'
  <1>1. TabletOK(d) /\ Shape /\ ServerOK
    BY DEF IInv
  <1>2. /\ Head(writes[d]) \in WritesOf(typed[d])
        /\ Tail(writes[d]) \in Seq(WritesOf(typed[d]))
    BY <1>1, HeadTailProperties DEF Flush, TabletOK
  <1>3. /\ OfTablets(writes') /\ writes'[d] = Tail(writes[d])
        /\ \A c \in Tablets \ {d} : writes'[c] = writes[c]
    BY <1>1 DEF Flush, Shape, OfTablets
  <1>4. /\ OfTablets(disk')
        /\ disk'[d] = IF Head(writes[d]).key = "game"
                      THEN [disk[d] EXCEPT !.game = Head(writes[d]).value]
                      ELSE [disk[d] EXCEPT !.flow = Head(writes[d]).value]
        /\ \A c \in Tablets \ {d} : disk'[c] = disk[c]
    BY <1>1 DEF Flush, Shape, OfTablets
  <1>5. disk'[d] \in [game : GamesOf(typed[d]), flow : Plays \cup {NoFlow}]
    BY <1>1, <1>2, <1>4 DEF TabletOK, WritesOf
  <1>6. running[d] /\ UNCHANGED <<running, flow, game, shown, socket, server, now, ghosts>>
    BY <1>1 DEF Flush, TabletOK
  <1>7. TabletOK(d)'
    BY <1>1, <1>2, <1>3, <1>5, <1>6 DEF TabletOK, socket, ghosts
  <1>8. Shape'
    BY <1>1, <1>3, <1>4, <1>6 DEF Shape, socket, ghosts
  <1> QED
    BY <1>1, <1>3, <1>4, <1>6, <1>7, <1>8, OneTablet, ServerKept DEF TabletVars, socket, ghosts

-----------------------------------------------------------------------------
(***************************************************************************)
(* The socket.                                                              *)
(***************************************************************************)
LEMMA ConnectStep ==
    ASSUME IInv, NEW d \in Tablets, Connect(d)
    PROVE  IInv'
  <1>1. TabletOK(d) /\ Shape /\ ServerOK
    BY DEF IInv
  <1>2. /\ OfTablets(up') /\ up'[d] = <<[type |-> "hello"]>>
        /\ \A c \in Tablets \ {d} : up'[c] = up[c]
    BY <1>1 DEF Connect, Shape, OfTablets
  <1>3. /\ open' \in [Tablets -> BOOLEAN] /\ open'[d] /\ running[d] /\ now' \in Nat
        /\ \A c \in Tablets \ {d} : open'[c] = open[c]
    BY <1>1 DEF Connect, Shape
  <1>4. UNCHANGED <<device, down, late, server, ghosts>>
    BY DEF Connect
  <1>5. TabletOK(d)'
    BY <1>1, <1>2, <1>3, <1>4, QueueEmpty DEF TabletOK, device, ghosts
  <1>6. Shape'
    BY <1>1, <1>2, <1>3, <1>4 DEF Shape, device, ghosts
  <1> QED
    BY <1>1, <1>2, <1>3, <1>4, <1>5, <1>6, OneTablet, ServerKept
       DEF TabletVars, device, ghosts

LEMMA LoseOK ==
    ASSUME Shape, NEW d \in Tablets, TabletOK(d), Lose(d)
    PROVE  /\ OfTablets(up') /\ OfTablets(down') /\ OfTablets(late')
           /\ open' \in [Tablets -> BOOLEAN] /\ told' \in [Tablets -> BOOLEAN] /\ ~open'[d]
           /\ up'[d] = <<>> /\ down'[d] = <<>>
           /\ late'[d] \in Seq(ReportsOf(d, typed[d]))
           /\ \A c \in Tablets \ {d} : /\ up'[c] = up[c] /\ down'[c] = down[c]
                                      /\ late'[c] = late[c] /\ open'[c] = open[c]
  <1>1. Unread(d) \in Seq(ReportsOf(d, typed[d]))
    <2>1. CASE up[d] = <<>>
      BY <2>1, QueueEmpty DEF Unread
    <2>2. CASE up[d] # <<>>
      BY <2>2, QueueNext DEF Unread, TabletOK
    <2> QED
      BY <2>1, <2>2
  <1>2. late' = [late EXCEPT ![d] = late[d] \o Unread(d)]
    BY DEF Lose
  <1>3. /\ OfTablets(late') /\ late'[d] = late[d] \o Unread(d)
        /\ \A c \in Tablets \ {d} : late'[c] = late[c]
    BY <1>2 DEF Shape, OfTablets
  <1>4. late'[d] \in Seq(ReportsOf(d, typed[d]))
    BY <1>1, <1>3, ConcatProperties DEF TabletOK
  <1>5. /\ OfTablets(up') /\ OfTablets(down') /\ up'[d] = <<>> /\ down'[d] = <<>>
        /\ \A c \in Tablets \ {d} : up'[c] = up[c] /\ down'[c] = down[c]
    BY DEF Lose, Shape, OfTablets
  <1>6. /\ open' \in [Tablets -> BOOLEAN] /\ told' \in [Tablets -> BOOLEAN] /\ ~open'[d]
        /\ \A c \in Tablets \ {d} : open'[c] = open[c]
    BY DEF Lose, Shape
  <1> QED
    BY <1>3, <1>4, <1>5, <1>6

LEMMA DropStep ==
    ASSUME IInv, NEW d \in Tablets, Drop(d) \/ ForgetLate(d)
    PROVE  IInv'
  <1>1. TabletOK(d) /\ Shape /\ ServerOK
    BY DEF IInv
  <1>2. CASE Drop(d)
    <2>1. /\ Lose(d) /\ faults' = faults + 1
          /\ UNCHANGED <<device, server, now, typed, torn>>
      BY <1>2 DEF Drop
    <2>2. TabletOK(d)'
      <3>1. /\ ~open'[d] /\ up'[d] = <<>> /\ down'[d] = <<>>
            /\ late'[d] \in Seq(ReportsOf(d, typed[d]))
        BY <1>1, <2>1, LoseOK
      <3>2. QueueOK(<<>>, d, typed[d]) /\ <<>> \in Seq(RestoresOf(typed[d]))
        BY QueueEmpty
      <3> QED
        BY <1>1, <2>1, <3>1, <3>2 DEF TabletOK, device
    <2>3. Shape'
      BY <1>1, <2>1, LoseOK DEF Shape, device
    <2> QED
      BY <1>1, <2>1, <2>2, <2>3, LoseOK, OneTablet, ServerKept DEF TabletVars, device
  <1>3. CASE ForgetLate(d)
    <2>1. /\ OfTablets(late') /\ late'[d] = <<>>
          /\ \A c \in Tablets \ {d} : late'[c] = late[c]
      BY <1>1, <1>3 DEF ForgetLate, Shape, OfTablets
    <2>2. UNCHANGED <<device, open, up, down, server, now, ghosts>>
      BY <1>3 DEF ForgetLate
    <2>3. TabletOK(d)'
      BY <1>1, <2>1, <2>2, QueueEmpty DEF TabletOK, device, ghosts
    <2>4. Shape'
      BY <1>1, <2>1, <2>2 DEF Shape, device, ghosts
    <2> QED
      BY <1>1, <2>1, <2>2, <2>3, <2>4, OneTablet, ServerKept DEF TabletVars, device, ghosts
  <1> QED
    BY <1>2, <1>3

LEMMA KillStep ==
    ASSUME IInv, NEW d \in Tablets, Kill(d)
    PROVE  IInv'
  <1>1. TabletOK(d) /\ Shape /\ ServerOK
    BY DEF IInv
  <1>2. /\ Lose(d) /\ faults' = faults + 1
        /\ UNCHANGED <<disk, server, now, typed>>
    BY DEF Kill
  <1>3. /\ OfTablets(flow') /\ OfTablets(game') /\ OfTablets(shown') /\ OfTablets(writes')
        /\ flow'[d] = NoFlow /\ game'[d] = DefaultGame /\ shown'[d] = DefaultGame
        /\ writes'[d] = <<>>
        /\ \A c \in Tablets \ {d} : /\ flow'[c] = flow[c] /\ game'[c] = game[c]
                                   /\ shown'[c] = shown[c] /\ writes'[c] = writes[c]
    BY <1>1 DEF Kill, Shape, OfTablets
  <1>4. /\ running' \in [Tablets -> BOOLEAN] /\ ~running'[d]
        /\ \A c \in Tablets \ {d} : running'[c] = running[c]
    BY <1>1 DEF Kill, Shape
  <1>5. torn' \in [Tablets -> BOOLEAN]
    BY <1>1 DEF Kill, Shape
  <1>6. TabletOK(d)'
    <2>1. /\ ~open'[d] /\ up'[d] = <<>> /\ down'[d] = <<>>
          /\ late'[d] \in Seq(ReportsOf(d, typed[d]))
      BY <1>1, <1>2, LoseOK
    <2>2. /\ QueueOK(<<>>, d, typed[d]) /\ <<>> \in Seq(RestoresOf(typed[d]))
          /\ <<>> \in Seq(WritesOf(typed[d])) /\ DefaultGame \in GamesOf(typed[d])
      BY QueueEmpty, DefaultGameOK
    <2> QED
      BY <1>1, <1>2, <1>3, <1>4, <2>1, <2>2 DEF TabletOK
  <1>7. Shape'
    BY <1>1, <1>2, <1>3, <1>4, <1>5, LoseOK DEF Shape
  <1> QED
    BY <1>1, <1>2, <1>3, <1>4, <1>6, <1>7, LoseOK, OneTablet, ServerKept DEF TabletVars

LEMMA ReceiveStep ==
    ASSUME IInv, NEW d \in Tablets, Receive(d)
    PROVE  IInv'
  <1>1. TabletOK(d) /\ Shape /\ ServerOK
    BY DEF IInv
  <1>2. /\ Head(down[d]) \in RestoresOf(typed[d])
        /\ Tail(down[d]) \in Seq(RestoresOf(typed[d]))
    BY <1>1, HeadTailProperties DEF Receive, TabletOK
  <1>3. /\ OfTablets(game') /\ game'[d] = Reconcile(shown[d], Head(down[d]))
        /\ OfTablets(down') /\ down'[d] = Tail(down[d])
        /\ \A c \in Tablets \ {d} : game'[c] = game[c] /\ down'[c] = down[c]
    BY <1>1 DEF Receive, Shape, OfTablets
  <1>4. game'[d] \in GamesOf(typed[d])
    BY <1>1, <1>2, <1>3 DEF TabletOK, Reconcile, GamesOf, RestoresOf
  <1>5. /\ OfTablets(writes') /\ writes'[d] = Append(writes[d], GameWrite(game'[d]))
        /\ \A c \in Tablets \ {d} : writes'[c] = writes[c]
    BY <1>1 DEF Receive, Shape, OfTablets
  <1>6. writes'[d] \in Seq(WritesOf(typed[d]))
    BY <1>1, <1>4, <1>5, WritesGrow, CreateFlowPlays DEF TabletOK
  <1>7. /\ running[d] /\ open[d]
        /\ UNCHANGED <<running, flow, shown, disk, open, up, late, server, now, ghosts>>
    BY <1>1 DEF Receive, TabletOK
  <1>8. TabletOK(d)'
    BY <1>1, <1>2, <1>3, <1>4, <1>6, <1>7 DEF TabletOK, ghosts
  <1>9. Shape'
    BY <1>1, <1>3, <1>5, <1>7 DEF Shape, ghosts
  <1> QED
    BY <1>1, <1>3, <1>5, <1>7, <1>8, <1>9, OneTablet, ServerKept DEF TabletVars, ghosts

-----------------------------------------------------------------------------
(***************************************************************************)
(* The server.                                                              *)
(***************************************************************************)
LEMMA HelloStep ==
    ASSUME IInv, NEW d \in Tablets, ServeHello(d)
    PROVE  IInv'
  <1>1. TabletOK(d) /\ Shape /\ ServerOK
    BY DEF IInv
  <1>2. /\ OfTablets(up') /\ up'[d] = Tail(up[d])
        /\ \A c \in Tablets \ {d} : up'[c] = up[c]
    BY <1>1 DEF ServeHello, Shape, OfTablets
  <1>3. QueueOK(up'[d], d, typed[d]) /\ open[d]
    BY <1>1, <1>2, QueueNext DEF ServeHello, TabletOK
  <1>4. /\ OfTablets(down') /\ down'[d] \in Seq(RestoresOf(typed[d]))
        /\ \A c \in Tablets \ {d} : down'[c] = down[c]
    <2>1. CASE UNCHANGED down
      BY <1>1, <2>1 DEF TabletOK, Shape
    <2>2. ASSUME NEW t \in Prior(d),
                 down' = [down EXCEPT ![d] = Append(down[d],
                            [team |-> t, step |-> row[t].step, score |-> row[t].score])]
          PROVE  /\ OfTablets(down') /\ down'[d] \in Seq(RestoresOf(typed[d]))
                 /\ \A c \in Tablets \ {d} : down'[c] = down[c]
      <3>1. [team |-> t, step |-> row[t].step, score |-> row[t].score] \in RestoresOf(typed[d])
        BY <1>1, <2>2 DEF Prior, ServerOK, Rows, RestoresOf
      <3>2. Append(down[d], [team |-> t, step |-> row[t].step, score |-> row[t].score])
               \in Seq(RestoresOf(typed[d]))
        BY <1>1, <3>1, AppendProperties DEF TabletOK
      <3> QED
        BY <1>1, <2>2, <3>2 DEF Shape, OfTablets
    <2>3. \/ UNCHANGED down
          \/ \E t \in Prior(d) :
                down' = [down EXCEPT ![d] = Append(down[d],
                           [team |-> t, step |-> row[t].step, score |-> row[t].score])]
      BY DEF ServeHello
    <2> QED
      BY <2>1, <2>2, <2>3
  <1>5. UNCHANGED <<device, open, late, server, now, ghosts>>
    BY DEF ServeHello
  <1>6. TabletOK(d)'
    BY <1>1, <1>3, <1>4, <1>5 DEF TabletOK, device, ghosts
  <1>7. Shape'
    BY <1>1, <1>2, <1>4, <1>5 DEF Shape, device, ghosts
  <1> QED
    BY <1>1, <1>2, <1>4, <1>5, <1>6, <1>7, OneTablet, ServerKept DEF TabletVars, device, ghosts

LEMMA StoreOK ==
    ASSUME ServerOK, NEW d \in Tablets, typed[d] \subseteq Teams, typed' = typed,
           NEW f \in ReportsOf(d, typed[d]), Store(f)
    PROVE  ServerOK'
  <1>1. f.team \in Teams /\ f.team \in typed[d] /\ f.device = d
    BY DEF ReportsOf
  <1>2. CASE UNCHANGED server
    BY <1>2, ServerKept
  <1>3. CASE f.type = "state" /\ Upsert(f) /\ UNCHANGED log
    <2> DEFINE r == [device |-> f.device, step |-> f.step, score |-> f.score,
                     time |-> f.time, sent |-> f.sent]
    <2>1. r \in Rows /\ r.device = d /\ r.score \in Scores
      BY <1>1, <1>3, ScoresNatural DEF ReportsOf, Rows
    <2>2. row' = row \/ row' = [row EXCEPT ![f.team] = r]
      BY <1>3 DEF Upsert
    <2> HIDE DEF r
    <2>3. row' \in [Teams -> Rows \cup {NoRow}]
      BY <1>1, <2>1, <2>2 DEF ServerOK
    <2>4. \A t \in Teams : row'[t] # NoRow =>
             t \in typed[row'[t].device] /\ row'[t].score \in Scores
      BY <1>1, <2>1, <2>2 DEF ServerOK
    <2>5. Scores' = Scores
      BY DEF Scores, AllPoints
    <2> QED
      BY <1>3, <2>3, <2>4, <2>5 DEF ServerOK, Pushes
  <1>4. ASSUME f.type = "log", UNCHANGED row,
               log' = [log EXCEPT ![f.team] =
                          Append(log[f.team], [device |-> f.device, events |-> f.events])]
        PROVE  ServerOK'
    <2>1. [device |-> f.device, events |-> f.events] \in Pushes(f.team)
      BY <1>1, <1>4 DEF ReportsOf, Pushes
    <2>2. Append(log[f.team], [device |-> f.device, events |-> f.events]) \in Seq(Pushes(f.team))
      BY <1>1, <2>1, AppendProperties DEF ServerOK
    <2>3. /\ log' = [t \in Teams |-> log'[t]]
          /\ \A t \in Teams : log'[t] \in Seq(Pushes(t))
      BY <1>1, <1>4, <2>2 DEF ServerOK
    <2>4. \A t \in Teams : Pushes(t)' = Pushes(t)
      BY DEF Pushes
    <2> QED
      BY <1>4, <2>3, <2>4 DEF ServerOK
  <1> QED
    BY <1>2, <1>3, <1>4 DEF Store

LEMMA ServeStep ==
    ASSUME IInv, NEW d \in Tablets, ServeFrame(d) \/ ServeLate(d)
    PROVE  IInv'
  <1>1. TabletOK(d) /\ Shape /\ ServerOK
    BY DEF IInv
  <1>2. typed[d] \subseteq Teams
    BY <1>1 DEF Shape
  <1>3. CASE ServeFrame(d)
    <2>1. UNCHANGED <<device, open, down, late, now, ghosts>> /\ Store(Head(up[d])) /\ up[d] # <<>>
      BY <1>3 DEF ServeFrame
    <2>2. /\ OfTablets(up') /\ up'[d] = Tail(up[d])
          /\ \A c \in Tablets \ {d} : up'[c] = up[c]
      BY <1>1, <1>3 DEF ServeFrame, Shape, OfTablets
    <2>3. Head(up[d]).type # "hello"
      BY <2>1 DEF Store
    <2>4. QueueOK(up'[d], d, typed[d]) /\ open[d] /\ Head(up[d]) \in ReportsOf(d, typed[d])
      <3>1. up[d] # <<>> /\ QueueOK(up[d], d, typed[d]) /\ open[d]
        BY <1>1, <1>3 DEF ServeFrame, TabletOK
      <3> QED
        BY <2>2, <2>3, <3>1, QueueNext
    <2>5. ServerOK'
      BY <1>1, <1>2, <2>1, <2>4, StoreOK DEF ghosts
    <2>6. TabletOK(d)'
      BY <1>1, <2>1, <2>4 DEF TabletOK, device, ghosts
    <2>7. Shape'
      BY <1>1, <2>1, <2>2 DEF Shape, device, ghosts
    <2> QED
      BY <2>1, <2>2, <2>5, <2>6, <2>7, OneTablet DEF TabletVars, device, ghosts
  <1>4. CASE ServeLate(d)
    <2>1. UNCHANGED <<device, open, up, down, now, ghosts>> /\ Store(Head(late[d])) /\ late[d] # <<>>
      BY <1>4 DEF ServeLate
    <2>2. /\ OfTablets(late') /\ late'[d] = Tail(late[d])
          /\ \A c \in Tablets \ {d} : late'[c] = late[c]
      BY <1>1, <1>4 DEF ServeLate, Shape, OfTablets
    <2>3. /\ late'[d] \in Seq(ReportsOf(d, typed[d]))
          /\ Head(late[d]) \in ReportsOf(d, typed[d])
      <3>1. late[d] # <<>> /\ late[d] \in Seq(ReportsOf(d, typed[d]))
        BY <1>1, <1>4 DEF ServeLate, TabletOK
      <3>2. /\ Tail(late[d]) \in Seq(ReportsOf(d, typed[d]))
            /\ Head(late[d]) \in ReportsOf(d, typed[d])
        BY <3>1, HeadTailProperties
      <3> QED
        BY <2>2, <3>2
    <2>4. ServerOK'
      BY <1>1, <1>2, <2>1, <2>3, StoreOK DEF ghosts
    <2>5. TabletOK(d)'
      BY <1>1, <2>1, <2>3 DEF TabletOK, device, ghosts
    <2>6. Shape'
      BY <1>1, <2>1, <2>2 DEF Shape, device, ghosts
    <2> QED
      BY <2>1, <2>2, <2>4, <2>5, <2>6, OneTablet DEF TabletVars, device, ghosts
  <1> QED
    BY <1>3, <1>4

LEMMA WipedOK ==
    ASSUME Wiped
    PROVE  ServerOK'
  <1>1. row' \in [Teams -> Rows \cup {NoRow}] /\ \A t \in Teams : row'[t] = NoRow
    BY DEF Wiped
  <1>2. log' = [t \in Teams |-> log'[t]] /\ \A t \in Teams : log'[t] = <<>>
    BY DEF Wiped
  <1>3. \A t \in Teams : <<>> \in Seq(Pushes(t)')
    BY QueueEmpty
  <1> QED
    BY <1>1, <1>2, <1>3 DEF ServerOK

LEMMA WipeStep ==
    ASSUME IInv, Reset \/ Restart
    PROVE  IInv'
  <1>1. Shape /\ ServerOK /\ ServerOK'
    BY WipedOK DEF IInv, Reset, Restart
  <1>2. CASE Reset
    <2>1. UNCHANGED <<device, socket, now, typed, torn>>
      BY <1>2 DEF Reset
    <2>2. Shape'
      BY <1>1, <1>2, <2>1 DEF Reset, Shape, device, socket
    <2>3. \A d \in Tablets : TabletOK(d)'
      BY <2>1, TabletKept DEF IInv, TabletVars, device, socket
    <2> QED
      BY <1>1, <2>2, <2>3 DEF IInv
  <1>3. CASE Restart
    <2>1. UNCHANGED <<device, now, typed, torn>>
      BY <1>3 DEF Restart
    <2>2. Shape'
      BY <1>1, <1>3, <2>1 DEF Restart, Shape, OfTablets, device
    <2>3. ASSUME NEW d \in Tablets PROVE TabletOK(d)'
      <3>1. ~open'[d] /\ up'[d] = <<>> /\ down'[d] = <<>> /\ late'[d] = <<>>
        BY <1>3 DEF Restart
      <3>2. /\ QueueOK(<<>>, d, typed[d]) /\ <<>> \in Seq(RestoresOf(typed[d]))
            /\ <<>> \in Seq(ReportsOf(d, typed[d]))
        BY QueueEmpty
      <3> QED
        BY <2>1, <3>1, <3>2 DEF IInv, TabletOK, device
    <2> QED
      BY <1>1, <2>2, <2>3 DEF IInv
  <1> QED
    BY <1>2, <1>3

LEMMA SyncStep == IInv /\ [Next]_vars => IInv'
  <1> SUFFICES ASSUME IInv, [Next]_vars
               PROVE  IInv'
    OBVIOUS
  <1>1. CASE UNCHANGED vars
    <2>1. UNCHANGED <<device, socket, server, now, ghosts>>
      BY <1>1 DEF vars
    <2>2. Shape'
      BY <2>1 DEF IInv, Shape, device, socket, ghosts
    <2>3. \A d \in Tablets : TabletOK(d)'
      BY <2>1, TabletKept DEF IInv, TabletVars, device, socket, ghosts
    <2> QED
      BY <2>1, <2>2, <2>3, ServerKept DEF IInv, ghosts
  <1> QED
    BY <1>1, BootStep, PlayStep, SubmitStep, RenderStep, FlushStep, ConnectStep, DropStep,
       KillStep, ReceiveStep, HelloStep, ServeStep, WipeStep
       DEF Next

LEMMA SyncInvariant == Spec => []IInv
  BY SyncInitial, SyncStep, PTL DEF Spec

LEMMA EachIn ==
    ASSUME NEW S, NEW q \in Seq(S) PROVE \A i \in DOMAIN q : q[i] \in S
  BY LenProperties, ElementOfSeq

\* Whatever is restored, delayed, wiped or restarted, a tablet plays for, and the server
\* files its progress and log under, a team entered on that tablet.
THEOREM TeamsAlwaysTyped == Spec => []TeamsTyped
  <1> SUFFICES ASSUME IInv PROVE TeamsTyped
    BY SyncInvariant, PTL
  <1>1. Shape /\ ServerOK /\ \A d \in Tablets : TabletOK(d)
    BY DEF IInv
  <1>2. \A t \in Teams : \A i \in DOMAIN log[t] : log[t][i] \in Pushes(t)
    BY <1>1, EachIn DEF ServerOK
  <1>3. TypeOK
    <2>1. \A d \in Tablets : GamesOf(typed[d]) \subseteq Games
      BY <1>1, ScoresNatural DEF Shape, GamesOf, Games
    <2>2. /\ flow \in [Tablets -> FlowStates \cup {NoFlow}]
          /\ game \in [Tablets -> Games] /\ shown \in [Tablets -> Games]
      BY <1>1, <2>1 DEF Shape, OfTablets, TabletOK, Plays, Flows
    <2>3. ASSUME NEW d \in Tablets
          PROVE  /\ disk[d].game \in Games /\ disk[d].flow \in FlowStates \cup {NoFlow}
                 /\ \A i \in DOMAIN writes[d] : writes[d][i].key \in {"game", "flow"}
      <3>1. \A i \in DOMAIN writes[d] : writes[d][i] \in WritesOf(typed[d])
        BY <1>1, EachIn DEF TabletOK
      <3> QED
        BY <1>1, <2>1, <3>1 DEF TabletOK, Plays, Flows, WritesOf
    <2>4. ASSUME NEW d \in Tablets
          PROVE  /\ \A i \in DOMAIN up[d] : up[d][i].type \in {"hello", "state", "log"}
                 /\ \A i \in DOMAIN late[d] : late[d][i].team \in Teams
      <3>1. /\ \A i \in DOMAIN up[d] : up[d][i] \in FramesOf(d, typed[d])
            /\ \A i \in DOMAIN late[d] : late[d][i] \in ReportsOf(d, typed[d])
        BY <1>1, EachIn DEF TabletOK, QueueOK
      <3>2. typed[d] \subseteq Teams
        BY <1>1 DEF Shape
      <3> QED
        BY <3>1, <3>2 DEF FramesOf, ReportsOf
    <2>5. ASSUME NEW d \in Tablets PROVE down[d] \in Seq(Restores)
      <3>1. RestoresOf(typed[d]) \subseteq Restores
        BY <1>1, ScoresNatural DEF Shape, RestoresOf, Restores
      <3> QED
        BY <1>1, <3>1, SeqMonotonic DEF TabletOK
    <2>6. \A t \in Teams : \A i \in DOMAIN log[t] : log[t][i].events \in Seq(Events)
      BY <1>2 DEF Pushes
    <2>7. \A d \in Tablets : /\ open[d] => running[d]
                             /\ ~open[d] => up[d] = <<>> /\ down[d] = <<>>
                             /\ ~running[d] => writes[d] = <<>>
      BY <1>1 DEF TabletOK
    <2> QED
      BY <1>1, <2>2, <2>3, <2>4, <2>5, <2>6, <2>7 DEF TypeOK, Shape, ServerOK
  <1>4. \A d \in Tablets :
           {game[d].team, shown[d].team, disk[d].game.team} \subseteq typed[d] \cup {NoTeam}
    BY <1>1 DEF TabletOK, GamesOf
  <1>5. \A t \in Teams : \A i \in DOMAIN log[t] : t \in typed[log[t][i].device]
    BY <1>2 DEF Pushes
  <1> QED
    BY <1>1, <1>3, <1>4, <1>5 DEF TeamsTyped, ServerOK

-----------------------------------------------------------------------------
(***************************************************************************)
(* The register.  Playing makes a report; a socket that opens, drops or is  *)
(* forgotten, a kill and an answered hello make none; a frame read from a   *)
(* socket, alive or dead, files the report it carries or loses it to a      *)
(* later one.                                                               *)
(***************************************************************************)
Afloat == {f \in UNION {Frames(d) : d \in Tablets} : f.type # "hello"}

Items(q) == {q[i] : i \in DOMAIN q}

LEMMA ItemsOfQueues ==
    ASSUME NEW S, NEW q \in Seq(S)
    PROVE  /\ \A e \in S : Items(Append(q, e)) = Items(q) \cup {e}
           /\ q # <<>> => Items(Tail(q)) \subseteq Items(q) /\ Head(q) \in Items(q)
           /\ \A r \in Seq(S) : Items(q \o r) = Items(q) \cup Items(r)
           /\ Items(<<>>) = {}
  <1>1. ASSUME NEW e \in S PROVE Items(Append(q, e)) = Items(q) \cup {e}
    BY AppendProperties DEF Items
  <1>2. ASSUME q # <<>>
        PROVE  Items(Tail(q)) \subseteq Items(q) /\ Head(q) \in Items(q)
    BY <1>2, HeadTailProperties DEF Items
  <1>3. ASSUME NEW r \in Seq(S) PROVE Items(q \o r) = Items(q) \cup Items(r)
    <2>1. /\ DOMAIN q = 1..Len(q) /\ DOMAIN r = 1..Len(r)
          /\ Len(q) \in Nat /\ Len(r) \in Nat
          /\ q \o r \in Seq(S) /\ Len(q \o r) = Len(q) + Len(r)
          /\ DOMAIN (q \o r) = 1..Len(q) + Len(r)
          /\ \A i \in 1..Len(q) + Len(r) :
                (q \o r)[i] = IF i <= Len(q) THEN q[i] ELSE r[i - Len(q)]
      BY LenProperties, ConcatProperties
    <2>2. Items(q \o r) \subseteq Items(q) \cup Items(r)
      BY <2>1 DEF Items
    <2>3. \A i \in 1..Len(r) : (q \o r)[Len(q) + i] = r[i] /\ Len(q) + i \in 1..Len(q) + Len(r)
      BY <2>1
    <2>4. \A i \in 1..Len(q) : (q \o r)[i] = q[i] /\ i \in 1..Len(q) + Len(r)
      BY <2>1
    <2>5. Items(q) \subseteq Items(q \o r)
      BY <2>1, <2>4 DEF Items
    <2>6. Items(r) \subseteq Items(q \o r)
      <3> SUFFICES ASSUME NEW i \in DOMAIN r PROVE r[i] \in Items(q \o r)
        BY DEF Items
      <3>1. i \in 1..Len(r)
        BY <2>1
      <3>2. Len(q) + i \in DOMAIN (q \o r) /\ (q \o r)[Len(q) + i] = r[i]
        BY <2>1, <2>3, <3>1
      <3> QED
        BY <3>2 DEF Items
    <2> QED
      BY <2>2, <2>5, <2>6
  <1>4. Items(<<>>) = {}
    BY DEF Items
  <1> QED
    BY <1>1, <1>2, <1>3, <1>4

\* What a step of one tablet does to the reports afloat.
LEMMA AfloatOfOne ==
    ASSUME NEW d \in Tablets, NEW M,
           \A c \in Tablets \ {d} : up'[c] = up[c] /\ late'[c] = late[c],
           \A f \in Items(up'[d]) \cup Items(late'[d]) :
              f.type # "hello" => f \in Items(up[d]) \cup Items(late[d]) \cup M
    PROVE  Afloat' \subseteq Afloat \cup M
  BY DEF Afloat, Frames, Items

\* The register as TabletSync keeps it.
RegisterKept == UNCHANGED <<Afloat, [t \in Teams |-> Filed(t)], [t \in Teams |-> Entered(t)]>>

LEMMA ServerUnchanged ==
    ASSUME UNCHANGED server
    PROVE  UNCHANGED <<[t \in Teams |-> Filed(t)], [t \in Teams |-> Entered(t)]>>
  BY DEF server, Filed, Entered

LEMMA QuietStep ==
    ASSUME UNCHANGED <<up, late, server>>
    PROVE  RegisterKept
  <1>1. Afloat' = Afloat
    BY DEF Afloat, Frames
  <1> QED
    BY <1>1, ServerUnchanged DEF RegisterKept

LEMMA FewerAfloat ==
    ASSUME Afloat' \subseteq Afloat, UNCHANGED server
    PROVE  Register!Lose
  BY ServerUnchanged DEF Register!Lose, Afloat

LEMMA SentIsMade ==
    ASSUME IInv, NEW d \in Tablets, NEW f \in ReportsOf(d, typed[d]), up' = Sent(d, f),
           UNCHANGED <<late, server>>
    PROVE  Register!Make \/ RegisterKept
  <1>1. TabletOK(d) /\ Shape
    BY DEF IInv
  <1>2. CASE ~open[d]
    BY <1>2, QuietStep DEF Sent
  <1>3. CASE open[d]
    <2>1. /\ up'[d] = Append(up[d], f)
          /\ \A c \in Tablets \ {d} : up'[c] = up[c] /\ late'[c] = late[c]
          /\ late'[d] = late[d]
      BY <1>1, <1>3 DEF Sent, Shape, OfTablets
    <2>2. Items(Append(up[d], f)) = Items(up[d]) \cup {f}
      BY <1>1, ItemsOfQueues DEF TabletOK, QueueOK, FramesOf
    <2>3. f.type # "hello" /\ f.team \in Teams
      BY <1>1 DEF ReportsOf, Shape
    <2>4. Afloat' \subseteq Afloat \cup {f}
      BY <2>1, <2>2, AfloatOfOne
    <2>5. Afloat \cup {f} \subseteq Afloat'
      BY <2>1, <2>2, <2>3 DEF Afloat, Frames, Items
    <2>6. f \in Afloat' /\ Afloat' = Afloat \cup {f}
      BY <2>4, <2>5
    <2> QED
      BY <2>3, <2>6, ServerUnchanged DEF Register!Make, Afloat
  <1> QED
    BY <1>2, <1>3

LEMMA PlayMakes ==
    ASSUME IInv, NEW d \in Tablets, Play(d) \/ Render(d)
    PROVE  Register!Make \/ RegisterKept
  <1>1. TabletOK(d) /\ Shape
    BY DEF IInv
  <1>2. CASE Play(d)
    <2>1. flow[d] \in Plays
      BY <1>1, <1>2 DEF TabletOK, Play, OnScreen
    <2>2. \A e \in PlayEvents(flow[d]) : Dispatch(flow[d], e) \in Plays
      BY <2>1, PlaysPlayed
    <2>3. PICK next \in Plays :
             \/ up' = up
             \/ shown[d].team # NoTeam /\ up' = Sent(d, LogFrame(d, next.log))
      BY <1>2, <2>2 DEF Play
    <2>4. UNCHANGED <<late, server>>
      BY <1>2 DEF Play
    <2>5. shown[d].team # NoTeam => LogFrame(d, next.log) \in ReportsOf(d, typed[d])
      BY <1>1, PlayedLog DEF LogFrame, ReportsOf, TabletOK, GamesOf
    <2>6. CASE up' = up
      BY <2>4, <2>6, QuietStep
    <2>7. CASE shown[d].team # NoTeam /\ up' = Sent(d, LogFrame(d, next.log))
      BY <2>4, <2>5, <2>7, SentIsMade
    <2> QED
      BY <2>3, <2>6, <2>7
  <1>3. CASE Render(d)
    <2>1. UNCHANGED <<late, server>>
      BY <1>3 DEF Render
    <2>2. CASE PushDue(shown[d], game[d])
      <3>1. StateFrame(d, game[d], now + 1) \in ReportsOf(d, typed[d])
        BY <1>1, <2>2, SyncAssumption
           DEF SyncAssumption, PushDue, StateFrame, ReportsOf, TabletOK, GamesOf, Shape
      <3>2. up' = Sent(d, StateFrame(d, game[d], now + 1))
        BY <1>3, <2>2 DEF Render
      <3> QED
        BY <2>1, <3>1, <3>2, SentIsMade
    <2>3. CASE ~PushDue(shown[d], game[d])
      BY <1>3, <2>1, <2>3, QuietStep DEF Render
    <2> QED
      BY <2>2, <2>3
  <1> QED
    BY <1>2, <1>3

LEMMA SocketLoses ==
    ASSUME IInv, NEW d \in Tablets,
           Connect(d) \/ Drop(d) \/ ForgetLate(d) \/ Kill(d) \/ ServeHello(d)
    PROVE  Register!Lose
  <1>1. TabletOK(d) /\ Shape
    BY DEF IInv
  <1>2. CASE Connect(d)
    <2>1. /\ up'[d] = <<[type |-> "hello"]>> /\ late'[d] = late[d] /\ UNCHANGED server
          /\ \A c \in Tablets \ {d} : up'[c] = up[c] /\ late'[c] = late[c]
      BY <1>1, <1>2 DEF Connect, Shape, OfTablets
    <2>2. \A f \in Items(up'[d]) : f.type = "hello"
      BY <2>1 DEF Items
    <2> QED
      BY <2>1, <2>2, AfloatOfOne, FewerAfloat
  <1>3. CASE Drop(d) \/ Kill(d)
    <2>1. Lose(d) /\ UNCHANGED server
      BY <1>3 DEF Drop, Kill
    <2>2. late' = [late EXCEPT ![d] = late[d] \o Unread(d)] /\ up' = [up EXCEPT ![d] = <<>>]
      BY <2>1 DEF Lose
    <2>3. /\ up'[d] = <<>> /\ late'[d] = late[d] \o Unread(d)
          /\ \A c \in Tablets \ {d} : up'[c] = up[c] /\ late'[c] = late[c]
      BY <1>1, <2>2 DEF Shape, OfTablets
    <2>4. Unread(d) \in Seq(ReportsOf(d, typed[d])) /\ Items(Unread(d)) \subseteq Items(up[d])
      <3>1. CASE up[d] = <<>>
        BY <3>1, QueueEmpty DEF Unread
      <3>2. CASE up[d] # <<>>
        <4>1. /\ Tail(up[d]) \in Seq(ReportsOf(d, typed[d]))
              /\ Head(up[d]).type # "hello" => up[d] \in Seq(ReportsOf(d, typed[d]))
          BY <1>1, <3>2, QueueNext DEF TabletOK
        <4>2. Items(Tail(up[d])) \subseteq Items(up[d])
          BY <1>1, <3>2, ItemsOfQueues DEF TabletOK, QueueOK
        <4> QED
          BY <3>2, <4>1, <4>2 DEF Unread
      <3> QED
        BY <3>1, <3>2
    <2>5. Items(late'[d]) = Items(late[d]) \cup Items(Unread(d)) /\ Items(up'[d]) = {}
      BY <1>1, <2>3, <2>4, ItemsOfQueues DEF TabletOK
    <2> QED
      BY <2>1, <2>3, <2>4, <2>5, AfloatOfOne, FewerAfloat
  <1>4. CASE ForgetLate(d)
    <2>1. /\ late'[d] = <<>> /\ up'[d] = up[d] /\ UNCHANGED server
          /\ \A c \in Tablets \ {d} : up'[c] = up[c] /\ late'[c] = late[c]
      BY <1>1, <1>4 DEF ForgetLate, Shape, OfTablets
    <2>2. Items(late'[d]) = {}
      BY <2>1 DEF Items
    <2> QED
      BY <2>1, <2>2, AfloatOfOne, FewerAfloat
  <1>5. CASE ServeHello(d)
    <2>1. /\ up'[d] = Tail(up[d]) /\ late'[d] = late[d] /\ up[d] # <<>> /\ UNCHANGED server
          /\ \A c \in Tablets \ {d} : up'[c] = up[c] /\ late'[c] = late[c]
      BY <1>1, <1>5 DEF ServeHello, Shape, OfTablets
    <2>2. Items(up'[d]) \subseteq Items(up[d])
      BY <1>1, <2>1, ItemsOfQueues DEF TabletOK, QueueOK
    <2> QED
      BY <2>1, <2>2, AfloatOfOne, FewerAfloat
  <1> QED
    BY <1>2, <1>3, <1>4, <1>5

\* One more push in the log is one more entry of the journal.
LEMMA EntriesGrow ==
    ASSUME NEW t, NEW S, NEW q \in Seq(S), NEW p \in S,
           NEW F, NEW E, NEW D, F = [type |-> "log", team |-> t, device |-> p.device, events |-> p.events],
           E = [i \in DOMAIN q |-> [type |-> "log", team |-> t, device |-> q[i].device,
                                    events |-> q[i].events]],
           D = [i \in DOMAIN Append(q, p) |->
                   [type |-> "log", team |-> t, device |-> Append(q, p)[i].device,
                    events |-> Append(q, p)[i].events]]
    PROVE  D = Append(E, F)
  <1> DEFINE A == {[type |-> "log", team |-> t, device |-> x.device, events |-> x.events] : x \in S}
  <1>1. /\ DOMAIN q = 1..Len(q) /\ Len(q) \in Nat
        /\ Append(q, p) \in Seq(S) /\ Len(Append(q, p)) = Len(q) + 1
        /\ DOMAIN Append(q, p) = 1..Len(q) + 1
        /\ \A i \in 1..Len(q) : Append(q, p)[i] = q[i] /\ q[i] \in S
        /\ Append(q, p)[Len(q) + 1] = p
    BY AppendProperties, LenProperties, ElementOfSeq
  <1>2. F \in A /\ \A i \in 1..Len(q) : E[i] \in A
    BY <1>1
  <1>3. \A i \in 1..Len(q) + 1 : D[i] = IF i <= Len(q) THEN E[i] ELSE F
    BY <1>1
  <1> HIDE DEF A
  <1>4. E \in Seq(A) /\ Len(E) = Len(q)
    <2>1. E = [i \in 1..Len(q) |-> E[i]]
      BY <1>1
    <2> QED
      BY <1>1, <1>2, <2>1
  <1>5. D \in Seq(A) /\ Len(D) = Len(q) + 1
    <2>1. D = [i \in 1..Len(q) + 1 |-> D[i]]
      BY <1>1
    <2>2. \A i \in 1..Len(q) + 1 : D[i] \in A
      BY <1>1, <1>2, <1>3
    <2> QED
      BY <1>1, <2>1, <2>2
  <1>6. /\ Append(E, F) \in Seq(A) /\ Len(Append(E, F)) = Len(q) + 1
        /\ \A i \in 1..Len(q) : Append(E, F)[i] = E[i]
        /\ Append(E, F)[Len(q) + 1] = F
    BY <1>2, <1>4, AppendProperties
  <1>7. \A i \in 1..Len(D) : D[i] = Append(E, F)[i]
    BY <1>1, <1>3, <1>5, <1>6
  <1> QED
    BY <1>5, <1>6, <1>7, SeqEqual

\* What a frame that was afloat does to the register.
LEMMA StoreFiles ==
    ASSUME IInv, NEW d \in Tablets, NEW f \in ReportsOf(d, typed[d]), f \in Afloat, Store(f),
           Afloat' \subseteq Afloat
    PROVE  Register!Next
  <1>1. ServerOK /\ f.team \in Teams
    BY DEF IInv, Shape, ReportsOf
  <1>2. CASE UNCHANGED server
    BY <1>2, FewerAfloat DEF Register!Next
  <1>3. CASE f.type = "state" /\ Upsert(f) /\ UNCHANGED log /\ ~UNCHANGED row
    <2> DEFINE r == [device |-> f.device, step |-> f.step, score |-> f.score,
                     time |-> f.time, sent |-> f.sent]
    <2>1. r \in Rows
      BY <1>3, ScoresNatural DEF ReportsOf, Rows
    <2>2. r # NoRow
      BY <2>1, SyncAssumption DEF SyncAssumption
    <2>3. /\ row' = [row EXCEPT ![f.team] = r]
          /\ row[f.team] = NoRow \/ f.time >= row[f.team].time
      BY <1>3 DEF Upsert
    <2>4. f = [type |-> "state", device |-> r.device, team |-> f.team, step |-> r.step,
               score |-> r.score, time |-> r.time, sent |-> r.sent]
      BY <1>3 DEF ReportsOf
    <2> HIDE DEF r
    <2>5. row'[f.team] = r /\ \A t \in Teams \ {f.team} : row'[t] = row[t]
      BY <1>1, <2>3 DEF ServerOK
    <2>6. [t \in Teams |-> Filed(t)]' = [[t \in Teams |-> Filed(t)] EXCEPT ![f.team] = f]
      BY <1>1, <2>2, <2>4, <2>5 DEF Filed
    <2>7. [t \in Teams |-> Entered(t)]' = [t \in Teams |-> Entered(t)]
      BY <1>3 DEF Entered
    <2>8. \/ [t \in Teams |-> Filed(t)][f.team] = NoRow
          \/ f.time >= [t \in Teams |-> Filed(t)][f.team].time
      BY <1>1, <2>3 DEF Filed
    <2>9. Register!File(f)
      BY <1>3, <2>6, <2>7, <2>8 DEF Register!File, Register!Supersedes, Afloat
    <2> QED
      BY <2>9 DEF Register!Next, Afloat
  <1>4. ASSUME f.type = "log", UNCHANGED row,
               log' = [log EXCEPT ![f.team] =
                          Append(log[f.team], [device |-> f.device, events |-> f.events])]
        PROVE  Register!Next
    <2>1. [t \in Teams |-> Filed(t)]' = [t \in Teams |-> Filed(t)]
      BY <1>4 DEF Filed
    <2>2. f = [type |-> "log", team |-> f.team, device |-> f.device, events |-> f.events]
      BY <1>4 DEF ReportsOf
    <2>3. Entered(f.team)' = Append(Entered(f.team), f)
      <3> DEFINE p == [device |-> f.device, events |-> f.events]
      <3>1. p \in Pushes(f.team) /\ log[f.team] \in Seq(Pushes(f.team))
        BY <1>1, <1>4 DEF ReportsOf, Pushes, ServerOK
      <3>2. log'[f.team] = Append(log[f.team], p)
        BY <1>1, <1>4 DEF ServerOK
      <3>3. f = [type |-> "log", team |-> f.team, device |-> p.device, events |-> p.events]
        BY <2>2
      <3> HIDE DEF p
      <3> QED
        BY <3>1, <3>2, <3>3, EntriesGrow DEF Entered
    <2>4. \A t \in Teams \ {f.team} : Entered(t)' = Entered(t)
      BY <1>1, <1>4 DEF Entered, ServerOK
    <2>5. [t \in Teams |-> Entered(t)]' =
             [[t \in Teams |-> Entered(t)] EXCEPT ![f.team] = Append(@, f)]
      BY <1>1, <2>3, <2>4
    <2>6. Register!Enter(f)
      BY <1>4, <2>1, <2>5 DEF Register!Enter, Afloat
    <2> QED
      BY <2>6 DEF Register!Next, Afloat
  <1> QED
    BY <1>2, <1>3, <1>4 DEF Store, server

LEMMA ServeFiles ==
    ASSUME IInv, NEW d \in Tablets, ServeFrame(d) \/ ServeLate(d)
    PROVE  Register!Next
  <1>1. TabletOK(d) /\ Shape
    BY DEF IInv
  <1>2. CASE ServeFrame(d)
    <2>1. up[d] # <<>> /\ QueueOK(up[d], d, typed[d])
      BY <1>1, <1>2 DEF ServeFrame, TabletOK
    <2>2. /\ up'[d] = Tail(up[d]) /\ late'[d] = late[d]
          /\ \A c \in Tablets \ {d} : up'[c] = up[c] /\ late'[c] = late[c]
      BY <1>1, <1>2 DEF ServeFrame, Shape, OfTablets
    <2>3. Store(Head(up[d])) /\ Head(up[d]).type # "hello"
      BY <1>2 DEF ServeFrame, Store
    <2>4. Head(up[d]) \in ReportsOf(d, typed[d])
      BY <2>1, <2>3, QueueNext
    <2>5. Items(Tail(up[d])) \subseteq Items(up[d]) /\ Head(up[d]) \in Items(up[d])
      BY <2>1, ItemsOfQueues DEF QueueOK
    <2>6. Head(up[d]) \in Afloat
      BY <2>3, <2>5 DEF Afloat, Frames, Items
    <2>7. Afloat' \subseteq Afloat
      BY <2>2, <2>5, AfloatOfOne
    <2> QED
      BY <2>3, <2>4, <2>6, <2>7, StoreFiles
  <1>3. CASE ServeLate(d)
    <2>1. late[d] # <<>> /\ late[d] \in Seq(ReportsOf(d, typed[d]))
      BY <1>1, <1>3 DEF ServeLate, TabletOK
    <2>2. /\ late'[d] = Tail(late[d]) /\ up'[d] = up[d]
          /\ \A c \in Tablets \ {d} : up'[c] = up[c] /\ late'[c] = late[c]
      BY <1>1, <1>3 DEF ServeLate, Shape, OfTablets
    <2>3. Store(Head(late[d])) /\ Head(late[d]).type # "hello"
      BY <1>3 DEF ServeLate, Store
    <2>4. Head(late[d]) \in ReportsOf(d, typed[d])
      BY <2>1, HeadTailProperties
    <2>5. Items(Tail(late[d])) \subseteq Items(late[d]) /\ Head(late[d]) \in Items(late[d])
      BY <2>1, ItemsOfQueues
    <2>6. Head(late[d]) \in Afloat
      BY <2>3, <2>5 DEF Afloat, Frames, Items
    <2>7. Afloat' \subseteq Afloat
      BY <2>2, <2>5, AfloatOfOne
    <2> QED
      BY <2>3, <2>4, <2>6, <2>7, StoreFiles
  <1> QED
    BY <1>2, <1>3

LEMMA WipeWipes ==
    ASSUME Reset \/ Restart
    PROVE  Register!Wipe
  <1>1. /\ [t \in Teams |-> Filed(t)]' = [t \in Teams |-> NoRow]
        /\ [t \in Teams |-> Entered(t)]' = [t \in Teams |-> <<>>]
    <2>1. \A t \in Teams : row'[t] = NoRow /\ log'[t] = <<>>
      BY DEF Reset, Restart, Wiped
    <2>2. \A t \in Teams : Filed(t)' = NoRow /\ Entered(t)' = <<>>
      BY <2>1 DEF Filed, Entered
    <2> QED
      BY <2>2
  <1>2. Afloat' \subseteq Afloat
    <2>1. CASE Reset
      BY <2>1 DEF Reset, socket, Afloat, Frames
    <2>2. CASE Restart
      <3>1. \A d \in Tablets : up'[d] = <<>> /\ late'[d] = <<>>
        BY <2>2 DEF Restart
      <3> QED
        BY <3>1 DEF Afloat, Frames
    <2> QED
      BY <2>1, <2>2
  <1> QED
    BY <1>1, <1>2 DEF Register!Wipe, Afloat

\* The tablets, their sockets and the server implement the register: a frame that comes
\* late never puts a team back, and the log of a team only grows, until all are wiped.
THEOREM RegisterImplemented == Spec => RegisterSpec
  <1>1. Init => Register!Init
    <2> SUFFICES ASSUME Init PROVE Register!Init
      OBVIOUS
    <2>1. Afloat = {}
      BY DEF Init, Afloat, Frames
    <2>2. /\ [t \in Teams |-> Filed(t)] = [t \in Teams |-> NoRow]
          /\ [t \in Teams |-> Entered(t)] = [t \in Teams |-> <<>>]
      BY DEF Init, Filed, Entered
    <2> QED
      BY <2>1, <2>2 DEF Register!Init, Afloat
  <1>2. IInv /\ [Next]_vars => [Register!Next]_(Register!registerVars)
    <2> SUFFICES ASSUME IInv, [Next]_vars
                 PROVE  Register!Next \/ RegisterKept
      BY DEF RegisterKept, Register!registerVars, Afloat
    <2>1. CASE UNCHANGED vars
      BY <2>1, QuietStep DEF vars, socket
    <2>2. ASSUME NEW d \in Tablets,
                 Launch(d) \/ Hydrate(d) \/ SubmitTeam(d) \/ Flush(d) \/ Receive(d)
          PROVE  RegisterKept
      <3>1. UNCHANGED <<up, late, server>>
        BY <2>2 DEF Launch, Hydrate, SubmitTeam, Flush, Receive, socket
      <3> QED
        BY <3>1, QuietStep
    <2>3. ASSUME NEW d \in Tablets, Play(d) \/ Render(d)
          PROVE  Register!Next \/ RegisterKept
      BY <2>3, PlayMakes DEF Register!Next
    <2>4. ASSUME NEW d \in Tablets,
                 Connect(d) \/ Drop(d) \/ ForgetLate(d) \/ Kill(d) \/ ServeHello(d)
          PROVE  Register!Next
      BY <2>4, SocketLoses DEF Register!Next
    <2>5. ASSUME NEW d \in Tablets, ServeFrame(d) \/ ServeLate(d)
          PROVE  Register!Next
      BY <2>5, ServeFiles
    <2>6. CASE Reset \/ Restart
      BY <2>6, WipeWipes DEF Register!Next
    <2> QED
      BY <2>1, <2>2, <2>3, <2>4, <2>5, <2>6 DEF Next
  <1> QED
    BY <1>1, <1>2, SyncInvariant, PTL DEF Spec, RegisterSpec, Register!Spec

-----------------------------------------------------------------------------
(***************************************************************************)
(* The row.  A tablet pushes whenever what it shows changes, and dates each *)
(* push later than all before.  So of the frames it has under way and the   *)
(* rows it filed, none is later than its newest push, which shows what the  *)
(* tablet does, and is still on the socket or is the row.                   *)
(***************************************************************************)
Carried(d) == Items(up[d]) \cup Items(late[d])

States(S) == {f \in S : f.type = "state"}

Dated ==
    /\ \A d \in Tablets : \A f \in States(Carried(d)) :
          f.sent <= now /\ f.time = f.sent + Skew[d]
    /\ \A t \in Teams : row[t] # NoRow =>
          row[t].sent <= now /\ row[t].time = row[t].sent + Skew[row[t].device]

Shows(d, t, report) ==
    t = shown[d].team /\ report.step = shown[d].step /\ report.score = shown[d].score

NewestPush(d, n) ==
    /\ \A f \in States(Carried(d)) : f.sent <= n /\ (f.sent = n => Shows(d, f.team, f))
    /\ \A t \in Teams : row[t] # NoRow /\ row[t].device = d =>
          row[t].sent <= n /\ (row[t].sent = n => Shows(d, t, row[t]))
    /\ \/ \E f \in States(Items(up[d])) : f.sent = n
       \/ /\ row[shown[d].team] # NoRow /\ row[shown[d].team].device = d
          /\ row[shown[d].team].sent = n

RowInv(d) ==
    /\ told[d] => open[d] /\ shown[d].team # NoTeam /\ game[d].team # NoTeam
    /\ told[d] /\ SoleTypist(d) => \E n \in Nat : NewestPush(d, n)

CurrentInv == IInv /\ Dated /\ \A d \in Tablets : RowInv(d)

LEMMA FramesTyped ==
    ASSUME IInv, NEW d \in Tablets, NEW f \in States(Carried(d))
    PROVE  f \in ReportsOf(d, typed[d]) /\ f.sent \in Nat /\ f.time \in Nat
  <1>1. /\ \A i \in DOMAIN up[d] : up[d][i] \in FramesOf(d, typed[d])
        /\ \A i \in DOMAIN late[d] : late[d][i] \in ReportsOf(d, typed[d])
    BY EachIn DEF IInv, TabletOK, QueueOK
  <1> QED
    BY <1>1 DEF States, Carried, Items, FramesOf, ReportsOf

\* A step that files nothing and sends no state.
LEMMA CarryStep ==
    ASSUME CurrentInv, IInv', NEW d \in Tablets, UNCHANGED row, now <= now',
           \A c \in Tablets \ {d} :
              UNCHANGED <<up[c], late[c], shown[c], game[c], told[c], open[c]>>,
           \A c \in Tablets : typed[c] \subseteq typed'[c],
           States(Carried(d))' \subseteq States(Carried(d)),
           told'[d] => /\ told[d] /\ open'[d] /\ game'[d].team # NoTeam
                       /\ shown'[d] = shown[d]
                       /\ States(Items(up[d])) \subseteq States(Items(up[d]))'
    PROVE  CurrentInv'
  <1>1. IInv /\ now \in Nat /\ now' \in Nat
    BY DEF CurrentInv, IInv, Shape
  <1>2. \A c \in Tablets : States(Carried(c))' \subseteq States(Carried(c))
    BY DEF Carried, States, Items
  <1>3. Dated'
    <2>1. ASSUME NEW c \in Tablets, NEW f \in States(Carried(c))'
          PROVE  f.sent <= now' /\ f.time = f.sent + Skew[c]
      <3>1. f \in States(Carried(c))
        BY <1>2, <2>1
      <3>2. f.sent \in Nat /\ f.sent <= now /\ f.time = f.sent + Skew[c]
        BY <1>1, <3>1, FramesTyped DEF CurrentInv, Dated
      <3> QED
        BY <1>1, <3>2
    <2>2. ASSUME NEW t \in Teams, row[t] # NoRow
          PROVE  row[t].sent <= now' /\ row[t].time = row[t].sent + Skew[row[t].device]
      <3>1. row[t].sent \in Nat
        BY <1>1, <2>2 DEF IInv, ServerOK, Rows
      <3> QED
        BY <1>1, <2>2, <3>1 DEF CurrentInv, Dated
    <2> QED
      BY <2>1, <2>2 DEF Dated
  <1>4. ASSUME NEW c \in Tablets PROVE RowInv(c)'
    <2>1. told'[c] => /\ told[c] /\ open'[c] /\ game'[c].team # NoTeam /\ shown'[c] = shown[c]
                      /\ shown[c].team # NoTeam
                      /\ States(Items(up[c])) \subseteq States(Items(up[c]))'
      <3>1. CASE c = d
        BY <3>1 DEF CurrentInv, RowInv
      <3>2. CASE c # d
        <4>1. UNCHANGED <<up[c], shown[c], game[c], told[c], open[c]>>
          BY <3>2
        <4>2. States(Items(up[c]))' = States(Items(up[c]))
          BY <4>1 DEF States, Items
        <4> QED
          BY <4>1, <4>2 DEF CurrentInv, RowInv
      <3> QED
        BY <3>1, <3>2
    <2>2. SoleTypist(c)' => SoleTypist(c)
      BY DEF SoleTypist
    <2>3. ASSUME told'[c], NEW n \in Nat, NewestPush(c, n) PROVE NewestPush(c, n)'
      <3>1. shown'[c] = shown[c] /\ row' = row
        BY <2>1, <2>3
      <3>2. \A f \in States(Carried(c))' :
               f.sent <= n /\ (f.sent = n => Shows(c, f.team, f)')
        BY <1>2, <2>3, <3>1 DEF NewestPush, Shows
      <3>3. \A t \in Teams : row'[t] # NoRow /\ row'[t].device = c =>
               row'[t].sent <= n /\ (row'[t].sent = n => Shows(c, t, row[t])')
        BY <2>3, <3>1 DEF NewestPush, Shows
      <3>4. \/ \E f \in States(Items(up[c]))' : f.sent = n
            \/ /\ row'[shown'[c].team] # NoRow /\ row'[shown'[c].team].device = c
               /\ row'[shown'[c].team].sent = n
        BY <2>1, <2>3, <3>1 DEF NewestPush
      <3> QED
        BY <3>2, <3>3, <3>4 DEF NewestPush
    <2> QED
      BY <2>1, <2>2, <2>3 DEF CurrentInv, RowInv
  <1> QED
    BY <1>3, <1>4 DEF CurrentInv

LEMMA QueueStates ==
    ASSUME IInv, NEW d \in Tablets
    PROVE  /\ \A f \in ReportsOf(d, typed[d]) :
                 Items(Append(up[d], f)) = Items(up[d]) \cup {f}
           /\ States(Items(Unread(d))) \subseteq States(Items(up[d]))
           /\ Items(late[d] \o Unread(d)) = Items(late[d]) \cup Items(Unread(d))
           /\ up[d] # <<>> => /\ Head(up[d]) \in Items(up[d])
                              /\ Items(up[d]) = {Head(up[d])} \cup Items(Tail(up[d]))
           /\ late[d] # <<>> => /\ Head(late[d]) \in Items(late[d])
                                /\ Items(Tail(late[d])) \subseteq Items(late[d])
  <1>1. /\ QueueOK(up[d], d, typed[d]) /\ late[d] \in Seq(ReportsOf(d, typed[d]))
        /\ up[d] \in Seq(FramesOf(d, typed[d]))
    BY DEF IInv, TabletOK, QueueOK
  <1>2. ReportsOf(d, typed[d]) \subseteq FramesOf(d, typed[d])
    BY DEF FramesOf
  <1>3. ASSUME NEW S, NEW q \in Seq(S), q # <<>>
        PROVE  Items(q) = {Head(q)} \cup Items(Tail(q))
    <2>1. /\ DOMAIN q = 1..Len(q) /\ Len(q) \in Nat \ {0} /\ Head(q) = q[1]
          /\ DOMAIN Tail(q) = 1..Len(q) - 1 /\ \A i \in 1..Len(q) - 1 : Tail(q)[i] = q[i + 1]
      BY <1>3, LenProperties, HeadTailProperties, EmptySeq
    <2>2. \A i \in 1..Len(q) : i = 1 \/ (i - 1 \in 1..Len(q) - 1 /\ q[i] = Tail(q)[i - 1])
      BY <2>1
    <2>3. ASSUME NEW i \in 1..Len(q) PROVE q[i] \in {Head(q)} \cup Items(Tail(q))
      <3>1. CASE i = 1
        BY <2>1, <3>1
      <3>2. CASE i - 1 \in 1..Len(q) - 1 /\ q[i] = Tail(q)[i - 1]
        BY <2>1, <3>2 DEF Items
      <3> QED
        BY <2>2, <3>1, <3>2
    <2>4. Items(q) \subseteq {Head(q)} \cup Items(Tail(q))
      BY <2>1, <2>3 DEF Items
    <2> QED
      BY <1>3, <2>4, ItemsOfQueues
  <1>4. Unread(d) \in Seq(ReportsOf(d, typed[d])) /\ Items(Unread(d)) \subseteq Items(up[d])
    <2>1. CASE up[d] = <<>>
      BY <2>1, QueueEmpty DEF Unread
    <2>2. CASE up[d] # <<>>
      <3>1. /\ Tail(up[d]) \in Seq(ReportsOf(d, typed[d]))
            /\ Head(up[d]).type # "hello" => up[d] \in Seq(ReportsOf(d, typed[d]))
        BY <1>1, <2>2, QueueNext
      <3>2. Items(Tail(up[d])) \subseteq Items(up[d])
        BY <1>1, <2>2, ItemsOfQueues
      <3> QED
        BY <2>2, <3>1, <3>2 DEF Unread
    <2> QED
      BY <2>1, <2>2
  <1> QED
    BY <1>1, <1>2, <1>3, <1>4, ItemsOfQueues DEF States

\* Steps of the tablet that send no state, and those of its socket.
LEMMA CarrySteps ==
    ASSUME CurrentInv, NEW d \in Tablets,
           \/ Launch(d) \/ Hydrate(d) \/ Play(d) \/ SubmitTeam(d) \/ Flush(d) \/ Receive(d)
           \/ Connect(d) \/ Drop(d) \/ Kill(d) \/ ForgetLate(d) \/ ServeHello(d)
    PROVE  CurrentInv'
  <1>1. IInv /\ Shape /\ TabletOK(d) /\ ServerOK /\ typed[d] \subseteq Teams
    BY DEF CurrentInv, IInv, Shape
  <1>2. IInv'
    BY <1>1, BootStep, PlayStep, SubmitStep, FlushStep, ConnectStep, DropStep, KillStep,
       ReceiveStep, HelloStep
  <1>3. NoTeam \notin Teams
    BY SyncAssumption DEF SyncAssumption
  <1>4. now \in Nat
    BY <1>1 DEF Shape
  <1>5. CASE Launch(d)
    <2>1. ~told[d]
      BY <1>1, <1>5 DEF Launch, CurrentInv, RowInv, TabletOK
    <2>2. /\ \A c \in Tablets \ {d} : game'[c] = game[c] /\ shown'[c] = shown[c]
          /\ UNCHANGED <<flow, writes, disk, socket, server, now, ghosts>>
      BY <1>1, <1>5 DEF Launch, Shape, OfTablets
    <2>3. Carried(d)' = Carried(d)
      BY <2>2 DEF Carried, socket, Items
    <2> QED
      BY <1>2, <1>4, <2>1, <2>2, <2>3, CarryStep DEF socket, server, ghosts, States
  <1>6. CASE Hydrate(d) \/ Flush(d)
    <2>1. UNCHANGED <<game, shown, up, late, open, row, now, typed, told>>
      BY <1>6 DEF Hydrate, Flush, socket, server, ghosts
    <2>2. Carried(d)' = Carried(d) /\ Items(up[d])' = Items(up[d])
      BY <2>1 DEF Carried, Items
    <2>3. told[d] => open[d] /\ game[d].team # NoTeam
      BY DEF CurrentInv, RowInv
    <2> QED
      BY <1>2, <1>4, <2>1, <2>2, <2>3, CarryStep DEF States
  <1>7. CASE SubmitTeam(d) \/ Receive(d)
    <2>1. UNCHANGED <<shown, up, late, open, row, now, told>>
      BY <1>7 DEF SubmitTeam, Receive, socket, server, ghosts
    <2>2. /\ \A c \in Tablets \ {d} : game'[c] = game[c]
          /\ game'[d].team # NoTeam
      <3>1. CASE SubmitTeam(d)
        <4>1. PICK t \in Teams :
                 game' = [game EXCEPT ![d] =
                     Projected(Dispatch(flow[d], Continue), [game[d] EXCEPT !.team = t])]
          BY <3>1 DEF SubmitTeam
        <4>2. Projected(Dispatch(flow[d], Continue), [game[d] EXCEPT !.team = t]).team = t
          BY <1>1 DEF Projected, TabletOK, GamesOf
        <4> QED
          BY <1>1, <1>3, <4>1, <4>2 DEF Shape, OfTablets
      <3>2. CASE Receive(d)
        <4>1. Head(down[d]) \in RestoresOf(typed[d])
          BY <1>1, <3>2, HeadTailProperties DEF Receive, TabletOK
        <4>2. Reconcile(shown[d], Head(down[d])).team = Head(down[d]).team
          BY <1>1, <4>1 DEF Reconcile, TabletOK, GamesOf
        <4>3. Head(down[d]).team \in Teams
          BY <1>1, <4>1 DEF RestoresOf
        <4>4. /\ game'[d] = Reconcile(shown[d], Head(down[d]))
              /\ \A c \in Tablets \ {d} : game'[c] = game[c]
          BY <1>1, <3>2 DEF Receive, Shape, OfTablets
        <4> QED
          BY <1>3, <4>2, <4>3, <4>4
      <3> QED
        BY <1>7, <3>1, <3>2
    <2>3. \A c \in Tablets : typed[c] \subseteq typed'[c]
      <3>1. CASE SubmitTeam(d)
        <4>1. PICK t \in Teams : typed' = [typed EXCEPT ![d] = @ \cup {t}]
          BY <3>1 DEF SubmitTeam
        <4> QED
          BY <1>1, <4>1 DEF Shape
      <3>2. CASE Receive(d)
        BY <3>2 DEF Receive, ghosts
      <3> QED
        BY <1>7, <3>1, <3>2
    <2>4. Carried(d)' = Carried(d) /\ Items(up[d])' = Items(up[d])
      BY <2>1 DEF Carried, Items
    <2>5. told[d] => open[d]
      BY DEF CurrentInv, RowInv
    <2> QED
      BY <1>2, <1>4, <2>1, <2>2, <2>3, <2>4, <2>5, CarryStep DEF States
  <1>8. CASE Play(d)
    <2>1. UNCHANGED <<shown, late, open, row, now, told, typed>>
      BY <1>8 DEF Play, server, ghosts
    <2>2. flow[d] \in Plays
      BY <1>1, <1>8 DEF TabletOK, Play, OnScreen
    <2>3. \A e \in PlayEvents(flow[d]) : Dispatch(flow[d], e) \in Plays
      BY <2>2, PlaysPlayed
    <2>4. PICK next \in Plays :
             /\ game' = [game EXCEPT ![d] = Projected(next, @)]
             /\ \/ up' = up
                \/ shown[d].team # NoTeam /\ up' = Sent(d, LogFrame(d, next.log))
      BY <1>8, <2>3 DEF Play
    <2>5. /\ \A c \in Tablets \ {d} : game'[c] = game[c]
          /\ game'[d].team = game[d].team
      <3>1. Projected(next, game[d]).team = game[d].team
        BY <1>1 DEF Projected, TabletOK, GamesOf
      <3> QED
        BY <1>1, <2>4, <3>1 DEF Shape, OfTablets
    <2>6. /\ \A c \in Tablets \ {d} : up'[c] = up[c]
          /\ States(Items(up'[d])) = States(Items(up[d]))
      <3> DEFINE f == LogFrame(d, next.log)
      <3>1. CASE up' = up
        BY <3>1
      <3>2. CASE shown[d].team # NoTeam /\ up' = Sent(d, f) /\ up' # up
        <4>1. f \in ReportsOf(d, typed[d]) /\ f.type = "log"
          BY <1>1, <3>2, PlayedLog DEF LogFrame, ReportsOf, TabletOK, GamesOf
        <4> HIDE DEF f
        <4>2. up' = [up EXCEPT ![d] = Append(up[d], f)]
          BY <3>2 DEF Sent
        <4>3. up'[d] = Append(up[d], f) /\ \A c \in Tablets \ {d} : up'[c] = up[c]
          BY <1>1, <4>2 DEF Shape, OfTablets
        <4>4. Items(up'[d]) = Items(up[d]) \cup {f}
          BY <1>1, <4>1, <4>3, QueueStates
        <4> QED
          BY <4>1, <4>3, <4>4 DEF States
      <3> QED
        BY <2>4, <3>1, <3>2
    <2>7. /\ States(Items(up[d]))' = States(Items(up[d]))
          /\ States(Carried(d))' \subseteq States(Carried(d))
      BY <2>1, <2>6 DEF Carried, States, Items
    <2>8. told[d] => open[d] /\ game[d].team # NoTeam
      BY DEF CurrentInv, RowInv
    <2> QED
      BY <1>2, <1>4, <2>1, <2>5, <2>6, <2>7, <2>8, CarryStep
  <1>9. CASE Connect(d)
    <2>1. ~told[d]
      BY <1>9 DEF Connect, CurrentInv, RowInv
    <2>2. UNCHANGED <<game, shown, late, row, typed, told>> /\ now' = now + 1
      BY <1>9 DEF Connect, device, server, ghosts
    <2>3. /\ \A c \in Tablets \ {d} : up'[c] = up[c] /\ open'[c] = open[c]
          /\ up'[d] = <<[type |-> "hello"]>>
      BY <1>1, <1>9 DEF Connect, Shape, OfTablets
    <2>4. States(Carried(d))' \subseteq States(Carried(d))
      BY <2>2, <2>3 DEF Carried, States, Items
    <2>5. now <= now'
      BY <1>4, <2>2
    <2> QED
      BY <1>2, <2>1, <2>2, <2>3, <2>4, <2>5, CarryStep
  <1>10. CASE Drop(d) \/ Kill(d)
    <2>1. Lose(d) /\ UNCHANGED <<row, now, typed>>
      BY <1>10 DEF Drop, Kill, server
    <2>2. /\ up' = [up EXCEPT ![d] = <<>>] /\ late' = [late EXCEPT ![d] = late[d] \o Unread(d)]
          /\ open' = [open EXCEPT ![d] = FALSE] /\ told' = [told EXCEPT ![d] = FALSE]
      BY <2>1 DEF Lose
    <2>3. /\ up'[d] = <<>> /\ late'[d] = late[d] \o Unread(d) /\ ~told'[d]
          /\ \A c \in Tablets \ {d} : UNCHANGED <<up[c], late[c], open[c], told[c]>>
      BY <1>1, <2>2 DEF Shape, OfTablets
    <2>4. \A c \in Tablets \ {d} : UNCHANGED <<game[c], shown[c]>>
      BY <1>1, <1>10 DEF Drop, Kill, device, Shape, OfTablets
    <2>5. States(Carried(d))' \subseteq States(Carried(d))
      <3>1. /\ Items(late'[d]) = Items(late[d]) \cup Items(Unread(d))
            /\ Items(up'[d]) = {}
        BY <1>1, <2>3, QueueStates, ItemsOfQueues, QueueEmpty
      <3>2. States(Items(Unread(d))) \subseteq States(Items(up[d]))
        BY <1>1, QueueStates
      <3> QED
        BY <3>1, <3>2 DEF Carried, States
    <2> QED
      BY <1>2, <1>4, <2>1, <2>3, <2>4, <2>5, CarryStep
  <1>11. CASE ForgetLate(d)
    <2>1. UNCHANGED <<game, shown, up, open, row, now, typed, told>>
      BY <1>11 DEF ForgetLate, device, server, ghosts
    <2>2. late'[d] = <<>> /\ \A c \in Tablets \ {d} : late'[c] = late[c]
      BY <1>1, <1>11 DEF ForgetLate, Shape, OfTablets
    <2>3. /\ States(Carried(d))' \subseteq States(Carried(d))
          /\ States(Items(up[d]))' = States(Items(up[d]))
      BY <2>1, <2>2 DEF Carried, States, Items
    <2>4. told[d] => open[d] /\ game[d].team # NoTeam
      BY DEF CurrentInv, RowInv
    <2> QED
      BY <1>2, <1>4, <2>1, <2>2, <2>3, <2>4, CarryStep
  <1>12. CASE ServeHello(d)
    <2>1. UNCHANGED <<game, shown, late, open, row, now, typed, told>>
      BY <1>12 DEF ServeHello, device, server, ghosts
    <2>2. /\ up'[d] = Tail(up[d]) /\ \A c \in Tablets \ {d} : up'[c] = up[c]
          /\ up[d] # <<>> /\ Head(up[d]).type = "hello"
      BY <1>1, <1>12 DEF ServeHello, Shape, OfTablets
    <2>3. Items(up[d]) = {Head(up[d])} \cup Items(up'[d])
      BY <1>1, <2>2, QueueStates
    <2>4. /\ States(Carried(d))' \subseteq States(Carried(d))
          /\ States(Items(up[d]))' = States(Items(up[d]))
      BY <2>1, <2>2, <2>3 DEF Carried, States, Items
    <2>5. told[d] => open[d] /\ game[d].team # NoTeam
      BY DEF CurrentInv, RowInv
    <2> QED
      BY <1>2, <1>4, <2>1, <2>2, <2>4, <2>5, CarryStep
  <1> QED
    BY <1>5, <1>6, <1>7, <1>8, <1>9, <1>10, <1>11, <1>12

LEMMA RenderCurrent ==
    ASSUME CurrentInv, NEW d \in Tablets, Render(d)
    PROVE  CurrentInv'
  <1> DEFINE f == StateFrame(d, game[d], now + 1)
  <1>1. IInv /\ Shape /\ TabletOK(d) /\ ServerOK /\ now \in Nat
    BY DEF CurrentInv, IInv, Shape
  <1>2. IInv' /\ UNCHANGED <<game, late, open, row, typed>>
    BY <1>1, RenderStep DEF Render, server
  <1>3. shown'[d] = game[d] /\ \A c \in Tablets \ {d} : shown'[c] = shown[c]
    BY <1>1 DEF Render, Shape, OfTablets
  <1>4. CASE ~PushDue(shown[d], game[d])
    <2>1. UNCHANGED <<now, up, told>> /\ game[d].team = NoTeam
      BY <1>4 DEF Render, PushDue
    <2>2. ~told[d]
      BY <2>1 DEF CurrentInv, RowInv
    <2>3. Carried(d)' = Carried(d)
      BY <1>2, <2>1 DEF Carried, Items
    <2> QED
      BY <1>1, <1>2, <1>3, <2>1, <2>2, <2>3, CarryStep DEF States
  <1>5. CASE PushDue(shown[d], game[d]) /\ ~open[d]
    <2>1. up' = up /\ now' = now + 1
      BY <1>5 DEF Render, Sent
    <2>2. ~told'[d] /\ \A c \in Tablets \ {d} : told'[c] = told[c]
      BY <1>1, <1>5 DEF Render, Shape
    <2>3. Carried(d)' = Carried(d) /\ now <= now'
      BY <1>1, <1>2, <2>1 DEF Carried, Items
    <2> QED
      BY <1>2, <1>3, <2>1, <2>2, <2>3, CarryStep DEF States
  <1>6. CASE PushDue(shown[d], game[d]) /\ open[d]
    <2>1. /\ f \in ReportsOf(d, typed[d]) /\ f.type = "state" /\ f.sent = now + 1
          /\ f.time = f.sent + Skew[d] /\ f.team = game[d].team /\ f.step = game[d].step
          /\ f.score = game[d].score /\ game[d].team # NoTeam
      BY <1>1, <1>6, SyncAssumption
         DEF SyncAssumption, PushDue, StateFrame, ReportsOf, TabletOK, GamesOf
    <2>2. up' = [up EXCEPT ![d] = Append(up[d], f)] /\ now' = now + 1
      BY <1>6 DEF Render, Sent
    <2>3. /\ \A c \in Tablets \ {d} : told'[c] = told[c]
          /\ told'[d] = open[d]
      BY <1>1, <1>6 DEF Render, Shape
    <2> HIDE DEF f
    <2>4. up'[d] = Append(up[d], f) /\ \A c \in Tablets \ {d} : up'[c] = up[c]
      BY <1>1, <2>2 DEF Shape, OfTablets
    <2>5. Items(up'[d]) = Items(up[d]) \cup {f}
      BY <1>1, <2>1, <2>4, QueueStates
    <2>6. \A c \in Tablets \ {d} : Carried(c)' = Carried(c)
      BY <1>2, <2>4 DEF Carried, Items
    <2>7. /\ States(Carried(d))' = States(Carried(d)) \cup {f}
          /\ f \in States(Items(up[d]))'
      BY <1>2, <2>1, <2>5 DEF Carried, States
    <2>8. \A c \in Tablets : \A g \in States(Carried(c)) :
             g.sent \in Nat /\ g.sent <= now /\ g.time = g.sent + Skew[c]
      BY <1>1, FramesTyped DEF CurrentInv, Dated
    <2>9. \A t \in Teams : row[t] # NoRow =>
             /\ row[t].sent \in Nat /\ row[t].sent <= now
             /\ row[t].time = row[t].sent + Skew[row[t].device]
      BY <1>1 DEF CurrentInv, Dated, ServerOK, Rows
    <2>10. Dated'
      <3>1. ASSUME NEW c \in Tablets, NEW g \in States(Carried(c))'
            PROVE  g.sent <= now' /\ g.time = g.sent + Skew[c]
        <4>1. CASE g \in States(Carried(c))
          BY <1>1, <2>2, <2>8, <4>1
        <4>2. CASE c = d /\ g = f
          BY <1>1, <2>1, <2>2, <4>2
        <4> QED
          BY <2>6, <2>7, <3>1, <4>1, <4>2 DEF States
      <3>2. ASSUME NEW t \in Teams, row[t] # NoRow
            PROVE  row[t].sent <= now' /\ row[t].time = row[t].sent + Skew[row[t].device]
        BY <1>1, <2>2, <2>9, <3>2
      <3> QED
        BY <1>2, <3>1, <3>2 DEF Dated
    <2>11. PICK n \in Nat : n = now + 1
      BY <1>1
    <2>12. NewestPush(d, n)'
      <3>1. ASSUME NEW g \in States(Carried(d))'
            PROVE  g.sent <= n /\ (g.sent = n => Shows(d, g.team, g)')
        <4>1. CASE g \in States(Carried(d))
          BY <1>1, <2>8, <2>11, <4>1
        <4>2. CASE g = f
          BY <1>2, <1>3, <2>1, <2>11, <4>2 DEF Shows
        <4> QED
          BY <2>7, <3>1, <4>1, <4>2
      <3>2. ASSUME NEW t \in Teams, row[t] # NoRow, row[t].device = d
            PROVE  row[t].sent <= n /\ row[t].sent # n
        BY <1>1, <2>9, <2>11, <3>2
      <3> QED
        BY <1>2, <2>1, <2>7, <2>11, <3>1, <3>2 DEF NewestPush
    <2>13. RowInv(d)'
      BY <1>2, <1>3, <1>6, <2>1, <2>12 DEF RowInv
    <2>14. ASSUME NEW c \in Tablets, c # d PROVE RowInv(c)'
      <3>1. /\ UNCHANGED <<up[c], late[c], shown[c], game[c], told[c], open[c], row, typed>>
            /\ Carried(c)' = Carried(c)
        BY <1>2, <1>3, <2>3, <2>4, <2>6, <2>14
      <3>2. RowInv(c)
        BY DEF CurrentInv
      <3> QED
        BY <3>1, <3>2 DEF RowInv, NewestPush, SoleTypist, Shows, States, Items
    <2> QED
      BY <1>2, <2>10, <2>13, <2>14 DEF CurrentInv
  <1> QED
    BY <1>4, <1>5, <1>6

\* What a frame read does to the row of its team.
LEMMA StoredRow ==
    ASSUME IInv, NEW d \in Tablets, NEW f \in ReportsOf(d, typed[d]), Store(f)
    PROVE  \/ /\ row' = row
              /\ f.type = "state" => row[f.team] # NoRow /\ ~(f.time >= row[f.team].time)
           \/ /\ f.type = "state" /\ (row[f.team] = NoRow \/ f.time >= row[f.team].time)
              /\ row'[f.team] # NoRow /\ row'[f.team].device = d
              /\ row'[f.team].sent = f.sent /\ row'[f.team].time = f.time
              /\ row'[f.team].step = f.step /\ row'[f.team].score = f.score
              /\ \A t \in Teams \ {f.team} : row'[t] = row[t]
  <1>1. ServerOK /\ f.team \in Teams /\ f.team # NoTeam /\ f.device = d /\ f.type # "hello"
    BY SyncAssumption DEF IInv, Shape, ReportsOf, SyncAssumption
  <1>2. CASE f.type # "state"
    BY <1>1, <1>2 DEF Store, server
  <1>3. CASE f.type = "state"
    <2> DEFINE r == [device |-> f.device, step |-> f.step, score |-> f.score,
                     time |-> f.time, sent |-> f.sent]
    <2>1. r \in Rows
      BY <1>3, ScoresNatural DEF ReportsOf, Rows
    <2>2. r # NoRow
      BY <2>1, SyncAssumption DEF SyncAssumption
    <2>3. /\ r.device = d /\ r.sent = f.sent /\ r.time = f.time /\ r.step = f.step
          /\ r.score = f.score
      BY <1>1
    <2>4. IF row[f.team] = NoRow \/ f.time >= row[f.team].time
          THEN row' = [row EXCEPT ![f.team] = r] ELSE row' = row
      BY <1>1, <1>3 DEF Store, Upsert
    <2> HIDE DEF r
    <2> QED
      BY <1>1, <1>3, <2>2, <2>3, <2>4 DEF ServerOK
  <1> QED
    BY <1>2, <1>3

LEMMA StoreCurrent ==
    ASSUME CurrentInv, IInv', NEW d \in Tablets, NEW f \in ReportsOf(d, typed[d]),
           f \in Carried(d), Store(f), UNCHANGED <<shown, game, told, open, now, typed>>,
           \A c \in Tablets \ {d} : UNCHANGED <<up[c], late[c]>>,
           States(Carried(d))' \subseteq States(Carried(d)),
           States(Items(up[d])) \subseteq States(Items(up[d]))' \cup {f}
    PROVE  CurrentInv'
  <1>1. /\ IInv /\ now \in Nat /\ Skew[d] \in Nat /\ f.team \in Teams /\ f.team \in typed[d]
        /\ typed[d] \subseteq Teams /\ ServerOK
    BY SyncAssumption DEF CurrentInv, IInv, Shape, ReportsOf, SyncAssumption
  <1>2. f.type = "state" => /\ f \in States(Carried(d)) /\ f.sent \in Nat /\ f.sent <= now
                            /\ f.time = f.sent + Skew[d]
    BY <1>1, FramesTyped DEF CurrentInv, Dated, States
  <1>3. \A c \in Tablets : States(Carried(c))' \subseteq States(Carried(c))
    BY DEF Carried, States, Items
  <1>4. \/ /\ row' = row
           /\ f.type = "state" => row[f.team] # NoRow /\ ~(f.time >= row[f.team].time)
        \/ /\ f.type = "state" /\ (row[f.team] = NoRow \/ f.time >= row[f.team].time)
           /\ row'[f.team] # NoRow /\ row'[f.team].device = d
           /\ row'[f.team].sent = f.sent /\ row'[f.team].time = f.time
           /\ row'[f.team].step = f.step /\ row'[f.team].score = f.score
           /\ \A t \in Teams \ {f.team} : row'[t] = row[t]
    BY <1>1, StoredRow
  <1>5. Dated'
    <2>1. \A c \in Tablets : \A g \in States(Carried(c))' :
             g.sent <= now /\ g.time = g.sent + Skew[c]
      BY <1>3 DEF CurrentInv, Dated
    <2>2. \A t \in Teams : row'[t] # NoRow =>
             row'[t].sent <= now /\ row'[t].time = row'[t].sent + Skew[row'[t].device]
      BY <1>2, <1>4 DEF CurrentInv, Dated
    <2> QED
      BY <2>1, <2>2 DEF Dated
  <1>6. ASSUME NEW c \in Tablets, told[c], SoleTypist(c) PROVE \E n \in Nat : NewestPush(c, n)'
    <2>1. PICK n \in Nat : NewestPush(c, n)
      BY <1>6 DEF CurrentInv, RowInv
    <2>2. shown[c].team \in typed[c] /\ shown[c].team \in Teams
      BY <1>1, <1>6 DEF CurrentInv, RowInv, IInv, Shape, TabletOK, GamesOf
    <2>3. \A g \in States(Carried(c))' : g.sent <= n /\ (g.sent = n => Shows(c, g.team, g))
      BY <1>3, <2>1 DEF NewestPush
    <2>4. \A t \in Teams : row'[t] # NoRow /\ row'[t].device = c =>
             row'[t].sent <= n /\ (row'[t].sent = n => Shows(c, t, row'[t]))
      <3> SUFFICES ASSUME NEW t \in Teams, row'[t] # NoRow, row'[t].device = c
                   PROVE  row'[t].sent <= n /\ (row'[t].sent = n => Shows(c, t, row'[t]))
        OBVIOUS
      <3>1. CASE row'[t] = row[t]
        BY <2>1, <3>1 DEF NewestPush
      <3>2. CASE t = f.team /\ c = d /\ f.type = "state" /\ row'[t] # row[t]
        <4>1. f.sent <= n /\ (f.sent = n => Shows(c, f.team, f))
          BY <1>2, <2>1, <3>2 DEF NewestPush
        <4>2. row'[t].sent = f.sent /\ row'[t].step = f.step /\ row'[t].score = f.score
          BY <1>4, <3>2
        <4> QED
          BY <3>2, <4>1, <4>2 DEF Shows
      <3> QED
        BY <1>4, <3>1, <3>2
    <2>5. \/ \E g \in States(Items(up[c]))' : g.sent = n
          \/ /\ row'[shown[c].team] # NoRow /\ row'[shown[c].team].device = c
             /\ row'[shown[c].team].sent = n
      <3>1. CASE c # d
        <4>1. f.team # shown[c].team
          BY <1>1, <1>6, <2>2, <3>1 DEF SoleTypist
        <4>2. row'[shown[c].team] = row[shown[c].team]
          BY <1>4, <2>2, <4>1
        <4>3. States(Items(up[c]))' = States(Items(up[c]))
          BY <3>1 DEF States, Items
        <4> QED
          BY <2>1, <4>2, <4>3 DEF NewestPush
      <3>2. CASE c = d
        <4>1. \A t \in typed[d] : row[t] # NoRow => row[t].device = d
          BY <1>1, <1>6, <3>2 DEF SoleTypist, ServerOK, Rows
        <4>2. CASE f.type = "state" /\ f.sent = n
          <5>1. f.team = shown[d].team
            BY <1>2, <2>1, <3>2, <4>2 DEF NewestPush, Shows
          <5>2. row[f.team] # NoRow =>
                   /\ row[f.team].sent <= n /\ row[f.team].sent \in Nat
                   /\ row[f.team].time = row[f.team].sent + Skew[d]
            BY <1>1, <2>1, <3>2, <4>1 DEF NewestPush, CurrentInv, Dated, ServerOK, Rows
          <5>3. row[f.team] = NoRow \/ f.time >= row[f.team].time
            BY <1>1, <1>2, <4>2, <5>2
          <5> QED
            BY <1>4, <3>2, <4>2, <5>1, <5>3
        <4>3. CASE ~(f.type = "state" /\ f.sent = n)
          <5>1. CASE \E g \in States(Items(up[d])) : g.sent = n
            BY <3>2, <4>3, <5>1 DEF States
          <5>2. CASE /\ row[shown[d].team] # NoRow /\ row[shown[d].team].device = d
                     /\ row[shown[d].team].sent = n
            <6>1. row[shown[d].team].time = n + Skew[d]
              BY <2>2, <3>2, <5>2 DEF CurrentInv, Dated
            <6>2. f.type = "state" => ~(f.time >= n + Skew[d])
              <7>1. f.type = "state" => f.sent <= n /\ f.sent # n
                BY <1>2, <2>1, <3>2, <4>3 DEF NewestPush
              <7> QED
                BY <1>1, <1>2, <7>1
            <6>3. row'[shown[d].team] = row[shown[d].team]
              BY <1>4, <2>2, <3>2, <5>2, <6>1, <6>2
            <6> QED
              BY <3>2, <5>2, <6>3
          <5> QED
            BY <2>1, <3>2, <5>1, <5>2 DEF NewestPush
        <4> QED
          BY <4>2, <4>3
      <3> QED
        BY <3>1, <3>2
    <2> QED
      BY <2>3, <2>4, <2>5 DEF NewestPush, Shows
  <1>7. \A c \in Tablets : RowInv(c)'
    BY <1>6 DEF CurrentInv, RowInv, SoleTypist
  <1> QED
    BY <1>5, <1>7 DEF CurrentInv

LEMMA ServeCurrent ==
    ASSUME CurrentInv, NEW d \in Tablets, ServeFrame(d) \/ ServeLate(d)
    PROVE  CurrentInv'
  <1>1. IInv /\ Shape /\ TabletOK(d) /\ IInv'
    BY ServeStep DEF CurrentInv, IInv
  <1>2. UNCHANGED <<shown, game, told, open, now, typed>>
    BY DEF ServeFrame, ServeLate, device, ghosts
  <1>3. CASE ServeFrame(d)
    <2>1. /\ up'[d] = Tail(up[d]) /\ late'[d] = late[d] /\ up[d] # <<>>
          /\ \A c \in Tablets \ {d} : up'[c] = up[c] /\ late'[c] = late[c]
          /\ Store(Head(up[d])) /\ Head(up[d]).type # "hello"
      BY <1>1, <1>3 DEF ServeFrame, Store, Shape, OfTablets
    <2>2. Head(up[d]) \in ReportsOf(d, typed[d])
      BY <1>1, <2>1, QueueNext DEF TabletOK
    <2>3. Items(up[d]) = {Head(up[d])} \cup Items(up'[d])
      BY <1>1, <2>1, QueueStates
    <2>4. /\ States(Carried(d))' \subseteq States(Carried(d)) /\ Head(up[d]) \in Carried(d)
          /\ States(Items(up[d])) \subseteq States(Items(up[d]))' \cup {Head(up[d])}
      BY <2>1, <2>3 DEF Carried, States, Items
    <2> QED
      BY <1>1, <1>2, <2>1, <2>2, <2>4, StoreCurrent
  <1>4. CASE ServeLate(d)
    <2>1. /\ late'[d] = Tail(late[d]) /\ up'[d] = up[d] /\ late[d] # <<>>
          /\ \A c \in Tablets \ {d} : up'[c] = up[c] /\ late'[c] = late[c]
          /\ Store(Head(late[d]))
      BY <1>1, <1>4 DEF ServeLate, Shape, OfTablets
    <2>2. Head(late[d]) \in ReportsOf(d, typed[d])
      BY <1>1, <2>1, HeadTailProperties DEF TabletOK
    <2>3. Items(late'[d]) \subseteq Items(late[d]) /\ Head(late[d]) \in Items(late[d])
      BY <1>1, <2>1, QueueStates
    <2>4. /\ States(Carried(d))' \subseteq States(Carried(d)) /\ Head(late[d]) \in Carried(d)
          /\ States(Items(up[d])) \subseteq States(Items(up[d]))'
      BY <2>1, <2>3 DEF Carried, States, Items
    <2> QED
      BY <1>1, <1>2, <2>1, <2>2, <2>4, StoreCurrent
  <1> QED
    BY <1>3, <1>4

LEMMA WipeCurrent ==
    ASSUME CurrentInv, Reset \/ Restart
    PROVE  CurrentInv'
  <1>1. IInv' /\ now' = now
    BY WipeStep DEF CurrentInv, Reset, Restart
  <1>2. \A t \in Teams : row'[t] = NoRow
    BY DEF Reset, Restart, Wiped
  <1>3. \A d \in Tablets : ~told'[d]
    BY DEF Reset, Restart
  <1>4. \A d \in Tablets : States(Carried(d))' \subseteq States(Carried(d))
    <2>1. CASE Reset
      BY <2>1 DEF Reset, socket, Carried, States, Items
    <2>2. CASE Restart
      <3>1. \A d \in Tablets : up'[d] = <<>> /\ late'[d] = <<>>
        BY <2>2 DEF Restart
      <3> QED
        BY <3>1 DEF Carried, States, Items
    <2> QED
      BY <2>1, <2>2
  <1>5. Dated'
    BY <1>1, <1>2, <1>4 DEF CurrentInv, Dated
  <1>6. \A d \in Tablets : RowInv(d)'
    BY <1>3 DEF RowInv
  <1> QED
    BY <1>1, <1>5, <1>6 DEF CurrentInv

\* An online tablet that pushed since it connected, with nothing on its way, is in the
\* database as it was last rendered, whatever late frames, other tablets and clocks do.
THEOREM RowAlwaysCurrent == Spec => []RowCurrent
  <1>1. Init => CurrentInv
    <2> SUFFICES ASSUME Init PROVE CurrentInv
      OBVIOUS
    <2>1. /\ \A d \in Tablets : ~told[d] /\ up[d] = <<>> /\ late[d] = <<>>
          /\ \A t \in Teams : row[t] = NoRow
      BY DEF Init
    <2>2. \A d \in Tablets : Carried(d) = {}
      BY <2>1 DEF Carried, Items
    <2> QED
      BY <2>1, <2>2, SyncInitial DEF CurrentInv, Dated, RowInv, States
  <1>2. CurrentInv /\ [Next]_vars => CurrentInv'
    <2> SUFFICES ASSUME CurrentInv, [Next]_vars
                 PROVE  CurrentInv'
      OBVIOUS
    <2>1. CASE UNCHANGED vars
      <3>1. UNCHANGED <<device, socket, server, now, ghosts>>
        BY <2>1 DEF vars
      <3>2. IInv'
        BY SyncStep DEF CurrentInv
      <3> QED
        BY <3>1, <3>2 DEF CurrentInv, Dated, RowInv, NewestPush, SoleTypist, Shows, Carried,
                          States, Items, device, socket, server, ghosts
    <2> QED
      BY <2>1, CarrySteps, RenderCurrent, ServeCurrent, WipeCurrent DEF Next
  <1>3. CurrentInv => RowCurrent
    <2> SUFFICES ASSUME CurrentInv, NEW d \in Tablets, open[d], told[d], up[d] = <<>>,
                        SoleTypist(d)
                 PROVE  LET r == row[shown[d].team]
                        IN  /\ r # NoRow /\ r.device = d
                            /\ r.step = shown[d].step /\ r.score = shown[d].score
      BY DEF RowCurrent
    <2>1. PICK n \in Nat : NewestPush(d, n)
      BY DEF CurrentInv, RowInv
    <2>2. shown[d].team \in Teams
      BY DEF CurrentInv, RowInv, IInv, Shape, TabletOK, GamesOf
    <2>3. States(Items(up[d])) = {}
      BY DEF States, Items
    <2> QED
      BY <2>1, <2>2, <2>3 DEF NewestPush, Shows
  <1> QED
    BY <1>1, <1>2, <1>3, PTL DEF Spec

-----------------------------------------------------------------------------
\* Neither a tablet nor the server ever has a score above what the parcours is worth:
\* a restored score is not paid again by the énigmes played after it.
THEOREM ScoreNeverPaidTwice == Spec => []ScoreNotPaidTwice
  <1>1. ASSUME IInv PROVE ScoreNotPaidTwice
    <2>1. \A d \in Tablets : game[d].score \in Scores
      BY <1>1 DEF IInv, TabletOK, GamesOf
    <2>2. \A t \in Teams : row[t] # NoRow => row[t].score \in Scores
      BY <1>1 DEF IInv, ServerOK
    <2> QED
      BY <2>1, <2>2, ScoresNatural DEF ScoreNotPaidTwice
  <1> QED
    BY <1>1, SyncInvariant, PTL

-----------------------------------------------------------------------------
(***************************************************************************)
(* The log of a tablet.  What AsyncStorage will hold once the pending       *)
(* writes are done is the flow in memory, unless a kill lost writes; and    *)
(* once a log was pushed that is a finished game, which never ends again:   *)
(* not in memory, and not after a relaunch.                                 *)
(***************************************************************************)
\* The value v is what the writes w leave of a flow blob.
KeptIn(w, blob, v) ==
    \/ (\A i \in DOMAIN w : w[i].key # "flow") /\ v = blob
    \/ \E i \in DOMAIN w :
          /\ w[i].key = "flow" /\ w[i].value = v
          /\ \A j \in DOMAIN w : j > i => w[j].key # "flow"

Kept(d, v) == KeptIn(writes[d], disk[d].flow, v)

\* The log frames of a queue, and the pushes of a tablet in the database.
LogsIn(q) == {i \in DOMAIN q : q[i].type = "log"}

PlacesIn(logs, d) ==
    {p \in Teams \X Nat : p[2] \in DOMAIN logs[p[1]] /\ logs[p[1]][p[2]].device = d}

Lone(A) == \A x, y \in A : x = y

LoneOf(A, B, C) ==
    /\ Lone(A) /\ Lone(B) /\ Lone(C)
    /\ A = {} \/ B = {}
    /\ A = {} \/ C = {}
    /\ B = {} \/ C = {}

Some(A, B, C) == A # {} \/ B # {} \/ C # {}

Asleep(d) ==
    /\ ~running[d] => flow[d] = NoFlow
    /\ flow[d] = NoFlow => \A i \in DOMAIN writes[d] : writes[d][i].key # "flow"

FlowKept(d) ==
    flow[d] # NoFlow => Kept(d, flow[d]) \/ (flow[d] = CreateFlow /\ Kept(d, NoFlow))

FinishedKept(d) == \E v \in Plays : IsComplete(v) /\ Kept(d, v)

OneLog(d) ==
    /\ LoneOf(LogsIn(up[d]), LogsIn(late[d]), PlacesIn(log, d))
    /\ Some(LogsIn(up[d]), LogsIn(late[d]), PlacesIn(log, d)) => FinishedKept(d)

OnceOK(d) == Asleep(d) /\ (~torn[d] => FlowKept(d) /\ OneLog(d))

OnceInv == IInv /\ \A d \in Tablets : OnceOK(d)

\* The last items of a queue that two, or three, have joined.
LEMMA JoinedAt ==
    ASSUME NEW D, NEW q \in Seq(D), NEW r \in Seq(D)
    PROVE  /\ DOMAIN (q \o r) = 1..Len(q) + Len(r)
           /\ \A k \in 1..Len(r) : (q \o r)[Len(q) + k] = r[k]
<1>1. Len(q) \in Nat /\ Len(r) \in Nat
  BY LenProperties
<1> DEFINE x == q \o r
<1>2. /\ DOMAIN x = 1..Len(q) + Len(r)
      /\ \A i \in 1..Len(q) + Len(r) : x[i] = IF i <= Len(q) THEN q[i] ELSE r[i - Len(q)]
  BY <1>1, ConcatProperties
<1> HIDE DEF x
<1>3. ASSUME NEW k \in 1..Len(r) PROVE x[Len(q) + k] = r[k]
  <2>1. Len(q) + k \in 1..Len(q) + Len(r) /\ ~(Len(q) + k <= Len(q)) /\ Len(q) + k - Len(q) = k
    BY <1>1
  <2> QED
    BY <1>2, <2>1
<1>4. DOMAIN x = 1..Len(q) + Len(r) /\ \A k \in 1..Len(r) : x[Len(q) + k] = r[k]
  BY <1>2, <1>3
<1> QED
  BY <1>4 DEF x

\* Flow writes and blobs.
LEMMA KeptOnce ==
    ASSUME NEW T, NEW w \in Seq(WritesOf(T)), NEW blob, NEW u, KeptIn(w, blob, u),
           NEW v, KeptIn(w, blob, v)
    PROVE  u = v
<1>1. DOMAIN w = 1..Len(w) /\ Len(w) \in Nat
  BY LenProperties
<1>2. ASSUME NEW i \in DOMAIN w, NEW k \in DOMAIN w, w[i].key = "flow", w[k].key = "flow",
             \A j \in DOMAIN w : j > i => w[j].key # "flow",
             \A j \in DOMAIN w : j > k => w[j].key # "flow"
      PROVE  i = k
  BY <1>1, <1>2
<1> QED
  BY <1>2 DEF KeptIn

LEMMA KeptWrites ==
    ASSUME NEW T, NEW w \in Seq(WritesOf(T)), NEW blob, NEW g \in GamesOf(T)
    PROVE  /\ \A v : KeptIn(w, blob, v) => KeptIn(Append(w, GameWrite(g)), blob, v)
           /\ \A s \in Plays : KeptIn(w \o <<FlowWrite(s), GameWrite(g)>>, blob, s)
           /\ \A s \in Plays, h \in GamesOf(T) :
                 KeptIn(w \o <<GameWrite(h), FlowWrite(s), GameWrite(g)>>, blob, s)
<1>1. DOMAIN w = 1..Len(w) /\ Len(w) \in Nat
  BY LenProperties
<1>2. /\ \A s : FlowWrite(s).key = "flow" /\ FlowWrite(s).value = s
      /\ \A h : GameWrite(h).key = "game"
  BY DEF FlowWrite, GameWrite
<1>3. /\ \A s \in Plays : FlowWrite(s) \in WritesOf(T)
      /\ \A h \in GamesOf(T) : GameWrite(h) \in WritesOf(T)
  BY DEF FlowWrite, GameWrite, WritesOf
<1>4. ASSUME NEW v, KeptIn(w, blob, v) PROVE KeptIn(Append(w, GameWrite(g)), blob, v)
  <2> DEFINE x == Append(w, GameWrite(g))
  <2>1. /\ DOMAIN x = 1..Len(w) + 1 /\ x[Len(w) + 1].key = "game"
        /\ \A i \in 1..Len(w) : x[i] = w[i]
    BY <1>1, <1>2, <1>3, AppendProperties
  <2> HIDE DEF x
  <2>2. \A j \in DOMAIN x : j \in DOMAIN w \/ j = Len(w) + 1
    BY <1>1, <2>1
  <2>3. \A j \in DOMAIN w : j \in DOMAIN x /\ x[j] = w[j]
    BY <1>1, <2>1
  <2>4. KeptIn(x, blob, v)
    BY <1>4, <2>1, <2>2, <2>3 DEF KeptIn
  <2> QED
    BY <2>4 DEF x
<1>5. ASSUME NEW s \in Plays PROVE KeptIn(w \o <<FlowWrite(s), GameWrite(g)>>, blob, s)
  <2> DEFINE y == <<FlowWrite(s), GameWrite(g)>>
             x == w \o y
  <2>0. y \in Seq(WritesOf(T))
    BY <1>3
  <2>1. Len(y) = 2 /\ y[1] = FlowWrite(s) /\ y[2] = GameWrite(g)
    BY <1>3
  <2> HIDE DEF y
  <2>2. /\ DOMAIN x = 1..Len(w) + 2
        /\ x[Len(w) + 1] = FlowWrite(s) /\ x[Len(w) + 2] = GameWrite(g)
    <3>1. /\ DOMAIN (w \o y) = 1..Len(w) + Len(y)
          /\ \A k \in 1..Len(y) : (w \o y)[Len(w) + k] = y[k]
      BY <2>0, JoinedAt
    <3> QED
      BY <1>1, <2>1, <3>1
  <2> HIDE DEF x
  <2>3. \A j \in DOMAIN x : j > Len(w) + 1 => j = Len(w) + 2
    BY <1>1, <2>2
  <2>4. KeptIn(x, blob, s)
    BY <1>1, <1>2, <2>2, <2>3 DEF KeptIn
  <2> QED
    BY <2>4 DEF x, y
<1>6. ASSUME NEW s \in Plays, NEW h \in GamesOf(T)
      PROVE  KeptIn(w \o <<GameWrite(h), FlowWrite(s), GameWrite(g)>>, blob, s)
  <2> DEFINE y == <<GameWrite(h), FlowWrite(s), GameWrite(g)>>
             x == w \o y
  <2>0. y \in Seq(WritesOf(T))
    BY <1>3
  <2>1. Len(y) = 3 /\ y[2] = FlowWrite(s) /\ y[3] = GameWrite(g)
    BY <1>3
  <2> HIDE DEF y
  <2>2. /\ DOMAIN x = 1..Len(w) + 3
        /\ x[Len(w) + 2] = FlowWrite(s) /\ x[Len(w) + 3] = GameWrite(g)
    <3>1. /\ DOMAIN (w \o y) = 1..Len(w) + Len(y)
          /\ \A k \in 1..Len(y) : (w \o y)[Len(w) + k] = y[k]
      BY <2>0, JoinedAt
    <3> QED
      BY <1>1, <2>1, <3>1
  <2> HIDE DEF x
  <2>3. \A j \in DOMAIN x : j > Len(w) + 2 => j = Len(w) + 3
    BY <1>1, <2>2
  <2>4. KeptIn(x, blob, s)
    BY <1>1, <1>2, <2>2, <2>3 DEF KeptIn
  <2> QED
    BY <2>4 DEF x, y
<1> QED
  BY <1>4, <1>5, <1>6

\* Writing the first pending value to the disk leaves the same.
LEMMA KeptFlush ==
    ASSUME NEW T, NEW w \in Seq(WritesOf(T)), w # <<>>, NEW blob, NEW v, KeptIn(w, blob, v)
    PROVE  KeptIn(Tail(w), IF Head(w).key = "game" THEN blob ELSE Head(w).value, v)
<1>1. DOMAIN w = 1..Len(w) /\ Len(w) \in Nat \ {0}
  BY LenProperties, EmptySeq
<1>2. /\ DOMAIN Tail(w) = 1..Len(w) - 1 /\ Head(w) = w[1]
      /\ \A i \in 1..Len(w) - 1 : Tail(w)[i] = w[i + 1]
  BY <1>1, HeadTailProperties
<1>3. \A i \in DOMAIN Tail(w) : i + 1 \in DOMAIN w /\ Tail(w)[i] = w[i + 1]
  BY <1>1, <1>2
<1>4. \A i \in DOMAIN w : i # 1 => i - 1 \in DOMAIN Tail(w) /\ Tail(w)[i - 1] = w[i]
  BY <1>1, <1>2, <1>3
<1>5. 1 \in DOMAIN w /\ w[1].key \in {"game", "flow"}
  <2>1. w[1] \in WritesOf(T)
    BY <1>1
  <2> QED
    BY <1>1, <2>1 DEF WritesOf
<1>6. CASE \A i \in DOMAIN w : w[i].key # "flow"
  BY <1>2, <1>3, <1>5, <1>6 DEF KeptIn
<1>7. ASSUME NEW i \in DOMAIN w, w[i].key = "flow", w[i].value = v,
             \A j \in DOMAIN w : j > i => w[j].key # "flow"
      PROVE  KeptIn(Tail(w), IF Head(w).key = "game" THEN blob ELSE Head(w).value, v)
  <2>1. CASE i = 1
    <3>1. \A j \in DOMAIN Tail(w) : Tail(w)[j].key # "flow"
      BY <1>1, <1>2, <1>3, <1>7, <2>1
    <3> QED
      BY <1>2, <1>7, <2>1, <3>1 DEF KeptIn
  <2>2. CASE i # 1
    <3>1. /\ i - 1 \in DOMAIN Tail(w) /\ Tail(w)[i - 1].key = "flow"
          /\ Tail(w)[i - 1].value = v
      BY <1>4, <1>7, <2>2
    <3>2. \A j \in DOMAIN Tail(w) : j > i - 1 => Tail(w)[j].key # "flow"
      BY <1>1, <1>2, <1>3, <1>7
    <3> QED
      BY <3>1, <3>2 DEF KeptIn
  <2> QED
    BY <2>1, <2>2
<1> QED
  BY <1>6, <1>7 DEF KeptIn

-----------------------------------------------------------------------------
\* Log frames of a queue that grows or is read.
LEMMA LogsAppended ==
    ASSUME NEW D, NEW q \in Seq(D), NEW f \in D
    PROVE  /\ f.type # "log" => LogsIn(Append(q, f)) = LogsIn(q)
           /\ f.type = "log" => LogsIn(Append(q, f)) = LogsIn(q) \cup {Len(q) + 1}
<1>1. DOMAIN q = 1..Len(q) /\ Len(q) \in Nat
  BY LenProperties
<1> DEFINE x == Append(q, f)
<1>2. /\ DOMAIN x = 1..Len(q) + 1 /\ x[Len(q) + 1] = f
      /\ \A i \in 1..Len(q) : x[i] = q[i]
  BY <1>1, AppendProperties
<1> HIDE DEF x
<1>3. \A j \in DOMAIN x : j \in DOMAIN q \/ j = Len(q) + 1
  BY <1>1, <1>2
<1>4. Len(q) + 1 \in DOMAIN x /\ \A j \in DOMAIN q : j \in DOMAIN x /\ x[j] = q[j]
  BY <1>1, <1>2
<1>5. /\ f.type # "log" => LogsIn(x) = LogsIn(q)
      /\ f.type = "log" => LogsIn(x) = LogsIn(q) \cup {Len(q) + 1}
  BY <1>2, <1>3, <1>4 DEF LogsIn
<1> QED
  BY <1>5 DEF x

LEMMA LogsRead ==
    ASSUME NEW D, NEW q \in Seq(D), q # <<>>
    PROVE  /\ LogsIn(q) = {} => LogsIn(Tail(q)) = {}
           /\ Lone(LogsIn(q)) => Lone(LogsIn(Tail(q)))
           /\ Head(q).type = "log" => LogsIn(q) # {}
           /\ Head(q).type = "log" /\ Lone(LogsIn(q)) => LogsIn(Tail(q)) = {}
<1>1. DOMAIN q = 1..Len(q) /\ Len(q) \in Nat \ {0}
  BY LenProperties, EmptySeq
<1>2. /\ DOMAIN Tail(q) = 1..Len(q) - 1 /\ Head(q) = q[1]
      /\ \A i \in 1..Len(q) - 1 : Tail(q)[i] = q[i + 1]
  BY <1>1, HeadTailProperties
<1>3. \A i \in LogsIn(Tail(q)) : i \in Nat \ {0} /\ i + 1 \in LogsIn(q)
  BY <1>1, <1>2 DEF LogsIn
<1>4. Head(q).type = "log" => 1 \in LogsIn(q)
  BY <1>1, <1>2 DEF LogsIn
<1>5. ASSUME Lone(LogsIn(q)), NEW i \in LogsIn(Tail(q)), NEW j \in LogsIn(Tail(q)) PROVE i = j
  <2>1. i + 1 = j + 1
    BY <1>3, <1>5 DEF Lone
  <2> QED
    BY <1>3, <2>1
<1>6. ASSUME Lone(LogsIn(q)), 1 \in LogsIn(q), NEW i \in LogsIn(Tail(q)) PROVE FALSE
  <2>1. i + 1 = 1
    BY <1>3, <1>6 DEF Lone
  <2> QED
    BY <1>3, <2>1
<1> QED
  BY <1>3, <1>4, <1>5, <1>6 DEF Lone

LEMMA LogsJoined ==
    ASSUME NEW D, NEW q \in Seq(D), NEW r \in Seq(D)
    PROVE  /\ LogsIn(r) = {} => LogsIn(q \o r) = LogsIn(q)
           /\ LogsIn(q) = {} /\ Lone(LogsIn(r)) => Lone(LogsIn(q \o r))
           /\ LogsIn(q) = {} /\ LogsIn(r) = {} => LogsIn(q \o r) = {}
<1>1. /\ DOMAIN q = 1..Len(q) /\ Len(q) \in Nat /\ DOMAIN r = 1..Len(r) /\ Len(r) \in Nat
  BY LenProperties
<1> DEFINE x == q \o r
<1>2. /\ DOMAIN x = 1..Len(q) + Len(r)
      /\ \A i \in 1..Len(q) + Len(r) : x[i] = IF i <= Len(q) THEN q[i] ELSE r[i - Len(q)]
  BY <1>1, ConcatProperties
<1> HIDE DEF x
<1>3. \A i \in DOMAIN x : \/ i \in DOMAIN q /\ x[i] = q[i]
                          \/ i - Len(q) \in DOMAIN r /\ x[i] = r[i - Len(q)]
  BY <1>1, <1>2
<1>4. \A i \in DOMAIN q : i \in DOMAIN x /\ x[i] = q[i]
  BY <1>1, <1>2
<1>5. \A i \in LogsIn(x) : i \in Nat /\ (i \in LogsIn(q) \/ i - Len(q) \in LogsIn(r))
  BY <1>2, <1>1, <1>3 DEF LogsIn
<1>6. LogsIn(q) \subseteq LogsIn(x)
  BY <1>4 DEF LogsIn
<1>7. ASSUME LogsIn(q) = {}, Lone(LogsIn(r)), NEW i \in LogsIn(x), NEW j \in LogsIn(x)
      PROVE  i = j
  <2>1. i - Len(q) = j - Len(q) /\ i \in Nat /\ j \in Nat
    BY <1>5, <1>7 DEF Lone
  <2> QED
    BY <1>1, <2>1
<1>8. /\ LogsIn(r) = {} => LogsIn(x) = LogsIn(q)
      /\ LogsIn(q) = {} /\ Lone(LogsIn(r)) => Lone(LogsIn(x))
      /\ LogsIn(q) = {} /\ LogsIn(r) = {} => LogsIn(x) = {}
  BY <1>5, <1>6, <1>7 DEF Lone
<1> QED
  BY <1>8 DEF x

LEMMA NoLogs == /\ LogsIn(<<>>) = {} /\ LogsIn(<<[type |-> "hello"]>>) = {}
  BY DEF LogsIn

\* A frame stored adds a push of its own tablet to the log, if it is a log frame.
LEMMA StoredPlaces ==
    ASSUME ServerOK, NEW d \in Tablets, typed[d] \subseteq Teams,
           NEW f \in ReportsOf(d, typed[d]), Store(f)
    PROVE  /\ \A c \in Tablets \ {d} : PlacesIn(log', c) = PlacesIn(log, c)
           /\ f.type # "log" => PlacesIn(log', d) = PlacesIn(log, d)
           /\ f.type = "log" =>
                 PlacesIn(log', d) = PlacesIn(log, d) \cup {<<f.team, Len(log[f.team]) + 1>>}
<1>1. /\ f.team \in Teams /\ f.team # NoTeam /\ f.device = d
  BY SyncAssumption DEF SyncAssumption, ReportsOf
<1>2. CASE f.type # "log"
  <2>1. log' = log
    BY <1>1, <1>2 DEF Store
  <2> QED
    BY <1>2, <2>1
<1>3. CASE f.type = "log"
  <2> DEFINE e == [device |-> f.device, events |-> f.events]
             l == log[f.team]
             m == Append(l, e)
  <2>1. log' = [log EXCEPT ![f.team] = m]
    BY <1>1, <1>3 DEF Store
  <2>2. log = [t \in Teams |-> log[t]] /\ l \in Seq(Pushes(f.team))
    BY <1>1 DEF ServerOK
  <2>3. log'[f.team] = m /\ \A t \in Teams \ {f.team} : log'[t] = log[t]
    BY <1>1, <2>1, <2>2
  <2>4. e.device = d /\ DOMAIN l = 1..Len(l) /\ Len(l) \in Nat
    BY <1>1, <2>2, LenProperties
  <2>5. /\ DOMAIN m = 1..Len(l) + 1 /\ m[Len(l) + 1] = e
        /\ \A i \in 1..Len(l) : m[i] = l[i]
    BY <2>2, <2>4
  <2> HIDE DEF e, m, l
  <2>6. /\ \A j \in DOMAIN m : j \in DOMAIN l \/ j = Len(l) + 1
        /\ Len(l) + 1 \in DOMAIN m /\ \A j \in DOMAIN l : j \in DOMAIN m /\ m[j] = l[j]
    BY <2>4, <2>5
  <2>7. ASSUME NEW c, NEW p \in Teams \X Nat
        PROVE  p \in PlacesIn(log', c) <=>
                  p \in PlacesIn(log, c) \/ (c = d /\ p = <<f.team, Len(l) + 1>>)
    <3>1. p = <<p[1], p[2]>> /\ p[1] \in Teams
      OBVIOUS
    <3>2. CASE p[1] # f.team
      <4>1. log'[p[1]] = log[p[1]]
        BY <2>3, <3>1, <3>2
      <4> QED
        BY <3>1, <3>2, <4>1 DEF PlacesIn
    <3>3. CASE p[1] = f.team
      <4>1. log'[p[1]] = m /\ log[p[1]] = l
        BY <2>3, <3>3 DEF l
      <4>2. p = <<f.team, Len(l) + 1>> <=> p[2] = Len(l) + 1
        BY <3>1, <3>3
      <4>3. Len(l) + 1 \notin DOMAIN l
        BY <2>4
      <4>4. p[2] \in DOMAIN m /\ m[p[2]].device = c <=>
               (p[2] \in DOMAIN l /\ l[p[2]].device = c) \/ (c = d /\ p[2] = Len(l) + 1)
        BY <2>4, <2>5, <2>6, <4>3
      <4> QED
        BY <4>1, <4>2, <4>4 DEF PlacesIn
    <3> QED
      BY <3>2, <3>3
  <2>8. <<f.team, Len(l) + 1>> \in Teams \X Nat
    BY <1>1, <2>4
  <2>9. \A c : PlacesIn(log', c) \subseteq Teams \X Nat /\ PlacesIn(log, c) \subseteq Teams \X Nat
    BY DEF PlacesIn
  <2>10. \A c \in Tablets \ {d} : PlacesIn(log', c) = PlacesIn(log, c)
    BY <2>7, <2>9
  <2>11. PlacesIn(log', d) = PlacesIn(log, d) \cup {<<f.team, Len(l) + 1>>}
    BY <2>7, <2>8, <2>9
  <2> QED
    BY <1>3, <2>10, <2>11 DEF l
<1> QED
  BY <1>2, <1>3

-----------------------------------------------------------------------------
\* The part of a tablet its logs depend on.
OnceVars(d) == <<running[d], flow[d], writes[d], disk[d], torn[d]>>

\* Pushes that are read, forgotten or moved on.
LEMMA OnceMoved ==
    ASSUME NEW d \in Tablets, OnceOK(d), UNCHANGED OnceVars(d),
           ~torn[d] => LoneOf(LogsIn(up'[d]), LogsIn(late'[d]), PlacesIn(log', d)),
           ~torn[d] /\ Some(LogsIn(up'[d]), LogsIn(late'[d]), PlacesIn(log', d))
              => Some(LogsIn(up[d]), LogsIn(late[d]), PlacesIn(log, d))
    PROVE  OnceOK(d)'
<1>1. /\ running'[d] = running[d] /\ flow'[d] = flow[d] /\ writes'[d] = writes[d]
      /\ disk'[d] = disk[d] /\ torn'[d] = torn[d]
  BY DEF OnceVars
<1>2. Asleep(d)'
  BY <1>1 DEF OnceOK, Asleep
<1>3. \A v : Kept(d, v)' <=> Kept(d, v)
  BY <1>1 DEF Kept
<1>4. ASSUME ~torn[d] PROVE FlowKept(d)' /\ OneLog(d)'
  <2>1. FlowKept(d)'
    BY <1>1, <1>3, <1>4 DEF OnceOK, FlowKept
  <2>2. FinishedKept(d) => FinishedKept(d)'
    BY <1>3 DEF FinishedKept
  <2>3. OneLog(d)'
    BY <1>4, <2>2 DEF OnceOK, OneLog
  <2> QED
    BY <2>1, <2>3
<1> QED
  BY <1>1, <1>2, <1>4 DEF OnceOK

LEMMA OnceAway ==
    ASSUME NEW d \in Tablets, OnceOK(d), UNCHANGED <<OnceVars(d), up[d], late[d]>>,
           PlacesIn(log', d) \subseteq PlacesIn(log, d)
    PROVE  OnceOK(d)'
<1>1. UNCHANGED OnceVars(d) /\ up'[d] = up[d] /\ late'[d] = late[d]
  OBVIOUS
<1>2. /\ ~torn[d] => LoneOf(LogsIn(up'[d]), LogsIn(late'[d]), PlacesIn(log', d))
      /\ Some(LogsIn(up'[d]), LogsIn(late'[d]), PlacesIn(log', d))
            => Some(LogsIn(up[d]), LogsIn(late[d]), PlacesIn(log, d))
  <2>1. ~torn[d] => LoneOf(LogsIn(up[d]), LogsIn(late[d]), PlacesIn(log, d))
    BY DEF OnceOK, OneLog
  <2> QED
    BY <1>1, <2>1 DEF LoneOf, Lone, Some
<1> QED
  BY <1>1, <1>2, OnceMoved

LEMMA OneOnce ==
    ASSUME OnceInv, IInv', NEW d \in Tablets, OnceOK(d)',
           \A c \in Tablets \ {d} : /\ UNCHANGED <<OnceVars(c), up[c], late[c]>>
                                    /\ PlacesIn(log', c) \subseteq PlacesIn(log, c)
    PROVE  OnceInv'
<1>1. \A c \in Tablets \ {d} : OnceOK(c)'
  BY OnceAway DEF OnceInv
<1> QED
  BY <1>1 DEF OnceInv

\* While a push is on its way or in the database, the flow is over.
LEMMA PushedIsOver ==
    ASSUME OnceInv, NEW d \in Tablets, ~torn[d], flow[d] # NoFlow,
           Some(LogsIn(up[d]), LogsIn(late[d]), PlacesIn(log, d))
    PROVE  IsComplete(flow[d])
<1>1. TabletOK(d) /\ FlowKept(d) /\ OneLog(d)
  BY DEF OnceInv, IInv, OnceOK
<1>2. PICK v \in Plays : IsComplete(v) /\ Kept(d, v)
  BY <1>1 DEF OneLog, FinishedKept
<1>3. writes[d] \in Seq(WritesOf(typed[d]))
  BY <1>1 DEF TabletOK
<1>4. CASE Kept(d, flow[d])
  <2>1. v = flow[d]
    BY <1>2, <1>3, <1>4, KeptOnce DEF Kept
  <2> QED
    BY <1>2, <2>1
<1>5. CASE Kept(d, NoFlow)
  <2>1. v = NoFlow
    BY <1>2, <1>3, <1>5, KeptOnce DEF Kept
  <2> QED
    BY <2>1, SyncAssumption DEF SyncAssumption, Plays, Flows
<1> QED
  BY <1>1, <1>4, <1>5 DEF FlowKept

\* The final screen is terminal.
LEMMA OverStays ==
    ASSUME NEW s \in Plays, IsComplete(s), NEW e \in PlayEvents(s)
    PROVE  Dispatch(s, e) = s
<1>1. s \in Flows /\ OnPhase(s) /\ s.section = "epilogue"
  BY PlaysFields DEF IsComplete
<1>2. ~InEnigme(s) /\ s.phase = "single"
  BY <1>1 DEF OnPhase, PhaseOK, InEnigme
<1>3. e \in Taps /\ Allowed(s, e)
  BY <1>2, TapsOfScreens DEF PlayEvents, Taps, Allowed
<1>4. Moves(s, Dispatch(s, e))
  BY <1>1, <1>3, DispatchMoves
<1> QED
  BY <1>1, <1>2, <1>4 DEF Moves, Strolls, Answers, Leaves

LEMMA NoFlowPlays == NoFlow \notin Plays
  BY SyncAssumption DEF SyncAssumption, Plays, Flows

\* A move of the flow in memory, written down.
LEMMA OncePlayed ==
    ASSUME OnceInv, NEW d \in Tablets, NEW next \in Plays, running'[d], flow'[d] = next,
           KeptIn(writes'[d], disk'[d].flow, next),
           torn'[d] = torn[d], late'[d] = late[d], log' = log,
           \/ /\ LogsIn(up'[d]) = LogsIn(up[d])
              /\ IsComplete(flow[d]) /\ flow[d] # NoFlow => IsComplete(next)
           \/ /\ ~IsComplete(flow[d]) /\ IsComplete(next)
              /\ LogsIn(up[d]) = {} => Lone(LogsIn(up'[d])),
           flow[d] # NoFlow
    PROVE  OnceOK(d)'
<1>1. Asleep(d)' /\ Kept(d, next)' /\ FlowKept(d)'
  BY NoFlowPlays DEF Asleep, Kept, FlowKept
<1>2. IsComplete(next) => FinishedKept(d)'
  BY <1>1 DEF FinishedKept
<1>3. ASSUME ~torn[d] PROVE OneLog(d)'
  <2>1. LoneOf(LogsIn(up[d]), LogsIn(late[d]), PlacesIn(log, d))
    BY <1>3 DEF OnceInv, OnceOK, OneLog
  <2>2. Some(LogsIn(up[d]), LogsIn(late[d]), PlacesIn(log, d)) => IsComplete(flow[d])
    BY <1>3, PushedIsOver
  <2>3. /\ LoneOf(LogsIn(up'[d]), LogsIn(late[d]), PlacesIn(log, d))
        /\ Some(LogsIn(up'[d]), LogsIn(late[d]), PlacesIn(log, d)) => IsComplete(next)
    BY <2>1, <2>2 DEF LoneOf, Some
  <2> QED
    BY <1>2, <2>3 DEF OneLog
<1> QED
  BY <1>1, <1>3 DEF OnceOK

-----------------------------------------------------------------------------
LEMMA OnceStarts == Init => OnceInv
<1> SUFFICES ASSUME Init PROVE OnceInv
  OBVIOUS
<1>1. IInv
  BY SyncInitial
<1>2. ASSUME NEW d \in Tablets PROVE OnceOK(d)
  <2>1. /\ flow[d] = NoFlow /\ writes[d] = <<>> /\ up[d] = <<>> /\ late[d] = <<>>
        /\ log = [t \in Teams |-> <<>>]
    BY DEF Init
  <2>2. PlacesIn(log, d) = {}
    BY <2>1 DEF PlacesIn
  <2>3. LogsIn(up[d]) = {} /\ LogsIn(late[d]) = {}
    BY <2>1, NoLogs
  <2>4. Asleep(d)
    BY <2>1 DEF Asleep
  <2>5. FlowKept(d)
    BY <2>1 DEF FlowKept
  <2>6. OneLog(d)
    BY <2>2, <2>3 DEF OneLog, LoneOf, Lone, Some
  <2> QED
    BY <2>4, <2>5, <2>6 DEF OnceOK
<1> QED
  BY <1>1, <1>2 DEF OnceInv

LEMMA BootOnce ==
    ASSUME OnceInv, IInv', NEW d \in Tablets, Launch(d) \/ Hydrate(d)
    PROVE  OnceInv'
<1>1. TabletOK(d) /\ Shape /\ OnceOK(d)
  BY DEF OnceInv, IInv
<1>2. CASE Launch(d)
  <2>1. /\ running' \in [Tablets -> BOOLEAN] /\ running'[d]
        /\ \A c \in Tablets \ {d} : running'[c] = running[c]
        /\ UNCHANGED <<flow, writes, disk, socket, server, now, ghosts>>
    BY <1>1, <1>2 DEF Launch, Shape
  <2>2. Asleep(d)'
    BY <1>1, <2>1 DEF OnceOK, Asleep
  <2>3. ~torn[d] => FlowKept(d)' /\ OneLog(d)'
    BY <1>1, <2>1 DEF OnceOK, FlowKept, OneLog, FinishedKept, Kept, socket, server
  <2>4. OnceOK(d)'
    BY <2>1, <2>2, <2>3 DEF OnceOK, ghosts
  <2> QED
    BY <2>1, <2>4, OneOnce DEF OnceVars, socket, server, ghosts
<1>3. CASE Hydrate(d)
  <2>1. /\ flow'[d] = Hydrated(disk[d].flow) /\ running[d] /\ flow[d] = NoFlow
        /\ \A c \in Tablets \ {d} : flow'[c] = flow[c]
        /\ UNCHANGED <<running, writes, disk, socket, server, now, ghosts>>
    BY <1>1, <1>3 DEF Hydrate, Shape, OfTablets
  <2>2. Kept(d, disk[d].flow)
    BY <1>1, <2>1 DEF OnceOK, Asleep, Kept, KeptIn
  <2>3. flow'[d] # NoFlow
    <3>1. flow'[d] \in Plays
      BY <1>1, <2>1, CreateFlowPlays DEF Hydrated, TabletOK
    <3> QED
      BY <3>1, NoFlowPlays
  <2>4. Asleep(d)'
    BY <2>1, <2>3 DEF Asleep
  <2>5. FlowKept(d)'
    BY <2>1, <2>2 DEF FlowKept, Kept, Hydrated
  <2>6. ~torn[d] => OneLog(d)'
    BY <1>1, <2>1 DEF OnceOK, OneLog, FinishedKept, Kept, socket, server
  <2>7. OnceOK(d)'
    BY <2>1, <2>4, <2>5, <2>6 DEF OnceOK, ghosts
  <2> QED
    BY <2>1, <2>7, OneOnce DEF OnceVars, socket, server, ghosts
<1> QED
  BY <1>2, <1>3

LEMMA PlayOnce ==
    ASSUME OnceInv, IInv', NEW d \in Tablets, Play(d)
    PROVE  OnceInv'
<1>1. TabletOK(d) /\ Shape /\ TabletOK(d)'
  BY DEF OnceInv, IInv
<1>2. flow[d] \in Plays /\ flow[d] # NoFlow /\ running[d]
  BY <1>1 DEF TabletOK, Play, OnScreen
<1>3. PICK e \in PlayEvents(flow[d]) :
         /\ Dispatch(flow[d], e) # flow[d]
         /\ flow' = [flow EXCEPT ![d] = Dispatch(flow[d], e)]
         /\ writes' = [writes EXCEPT ![d] =
                writes[d] \o <<FlowWrite(Dispatch(flow[d], e)), GameWrite(game'[d])>>]
         /\ up' = IF (IsComplete(Dispatch(flow[d], e)) /\ ~IsComplete(flow[d]))
                      /\ shown[d].team # NoTeam
                  THEN Sent(d, LogFrame(d, Dispatch(flow[d], e).log)) ELSE up
  BY DEF Play
<1>4. PICK next \in Plays : next = Dispatch(flow[d], e)
  BY <1>2, PlaysPlayed
<1>5. /\ flow'[d] = next /\ writes'[d] = writes[d] \o <<FlowWrite(next), GameWrite(game'[d])>>
      /\ \A c \in Tablets \ {d} : flow'[c] = flow[c] /\ writes'[c] = writes[c]
  BY <1>1, <1>3, <1>4 DEF Shape, OfTablets
<1>6. UNCHANGED <<running, shown, disk, open, down, late, server, now, ghosts>>
  BY DEF Play
<1>7. ~IsComplete(flow[d])
  BY <1>2, <1>3, OverStays
<1>8. KeptIn(writes'[d], disk'[d].flow, next)
  <2>1. writes[d] \in Seq(WritesOf(typed[d])) /\ game'[d] \in GamesOf(typed[d])
    BY <1>1, <1>6 DEF TabletOK, ghosts
  <2> QED
    BY <1>4, <1>5, <2>1, KeptWrites
<1>9. /\ \A c \in Tablets \ {d} : up'[c] = up[c]
      /\ \/ up'[d] = up[d]
         \/ IsComplete(next) /\ (LogsIn(up[d]) = {} => Lone(LogsIn(up'[d])))
  <2>1. CASE up' = up
    BY <2>1
  <2>2. CASE up' # up
    <3> DEFINE f == LogFrame(d, next.log)
    <3>1. up' = Sent(d, f) /\ IsComplete(next) /\ shown[d].team # NoTeam
      BY <1>3, <1>4, <2>2
    <3>2. open[d]
      BY <2>2, <3>1 DEF Sent
    <3>3. f.type = "log" /\ f \in FramesOf(d, typed[d])
      BY <1>1, <1>4, <3>1, PlayedLog DEF LogFrame, FramesOf, ReportsOf, TabletOK, GamesOf
    <3> HIDE DEF f
    <3>4. up' = [up EXCEPT ![d] = Append(up[d], f)]
      BY <3>1, <3>2 DEF Sent
    <3>5. up'[d] = Append(up[d], f) /\ \A c \in Tablets \ {d} : up'[c] = up[c]
      BY <1>1, <3>4 DEF Shape, OfTablets
    <3>6. up[d] \in Seq(FramesOf(d, typed[d]))
      BY <1>1 DEF TabletOK, QueueOK
    <3>7. LogsIn(up'[d]) = LogsIn(up[d]) \cup {Len(up[d]) + 1}
      BY <3>3, <3>5, <3>6, LogsAppended
    <3> QED
      BY <3>1, <3>5, <3>7 DEF Lone
  <2> QED
    BY <2>1, <2>2
<1>10. torn'[d] = torn[d] /\ late'[d] = late[d] /\ log' = log /\ running'[d]
  BY <1>2, <1>6 DEF server, ghosts
<1>11. OnceOK(d)'
  <2>1. CASE up'[d] = up[d]
    <3>1. LogsIn(up'[d]) = LogsIn(up[d])
      BY <2>1
    <3> QED
      BY <1>2, <1>4, <1>5, <1>7, <1>8, <1>10, <3>1, OncePlayed
  <2>2. CASE IsComplete(next) /\ (LogsIn(up[d]) = {} => Lone(LogsIn(up'[d])))
    BY <1>2, <1>4, <1>5, <1>7, <1>8, <1>10, <2>2, OncePlayed
  <2> QED
    BY <1>9, <2>1, <2>2
<1> QED
  BY <1>5, <1>6, <1>9, <1>11, OneOnce DEF OnceVars, server, ghosts

LEMMA SubmitOnce ==
    ASSUME OnceInv, IInv', NEW d \in Tablets, SubmitTeam(d)
    PROVE  OnceInv'
<1>1. TabletOK(d) /\ Shape /\ TabletOK(d)'
  BY DEF OnceInv, IInv
<1>2. /\ flow[d] \in Plays /\ flow[d] # NoFlow /\ running[d] /\ ~IsComplete(flow[d])
  BY <1>1 DEF TabletOK, SubmitTeam, OnScreen, OnConnexion, IsComplete
<1>3. PICK t \in Teams :
         /\ flow' = [flow EXCEPT ![d] = Dispatch(flow[d], Continue)]
         /\ writes' = [writes EXCEPT ![d] =
                writes[d] \o <<GameWrite([game[d] EXCEPT !.team = t]),
                               FlowWrite(Dispatch(flow[d], Continue)), GameWrite(game'[d])>>]
         /\ typed' = [typed EXCEPT ![d] = typed[d] \cup {t}]
  BY DEF SubmitTeam
<1>4. PICK next \in Plays : next = Dispatch(flow[d], Continue)
  BY <1>2, ContinuePlays
<1>5. typed'[d] = typed[d] \cup {t}
  BY <1>1, <1>3 DEF Shape
<1>6. PICK named \in GamesOf(typed'[d]) : named = [game[d] EXCEPT !.team = t]
  BY <1>1, <1>5 DEF TabletOK, GamesOf
<1>7. /\ flow'[d] = next
      /\ writes'[d] = writes[d] \o <<GameWrite(named), FlowWrite(next), GameWrite(game'[d])>>
      /\ \A c \in Tablets \ {d} : flow'[c] = flow[c] /\ writes'[c] = writes[c]
  BY <1>1, <1>3, <1>4, <1>6 DEF Shape, OfTablets
<1>8. UNCHANGED <<running, shown, disk, socket, server, now, told, torn, faults>>
  BY DEF SubmitTeam
<1>9. KeptIn(writes'[d], disk'[d].flow, next)
  <2>1. writes[d] \in Seq(WritesOf(typed'[d]))
    <3>1. typed[d] \subseteq typed'[d]
      BY <1>5
    <3> QED
      BY <1>1, <3>1, MoreTeams DEF TabletOK
  <2>2. game'[d] \in GamesOf(typed'[d])
    BY <1>1 DEF TabletOK
  <2>3. KeptIn(writes[d] \o <<GameWrite(named), FlowWrite(next), GameWrite(game'[d])>>,
               disk'[d].flow, next)
    BY <2>1, <2>2, KeptWrites
  <2> QED
    BY <1>7, <2>3
<1>10. OnceOK(d)'
  <2>1. /\ torn'[d] = torn[d] /\ late'[d] = late[d] /\ log' = log /\ running'[d]
        /\ up' = up
    BY <1>2, <1>8 DEF socket, server
  <2>2. LogsIn(up'[d]) = LogsIn(up[d])
    BY <2>1
  <2> QED
    BY <1>2, <1>4, <1>7, <1>9, <2>1, <2>2, OncePlayed
<1> QED
  BY <1>7, <1>8, <1>10, OneOnce DEF OnceVars, socket, server

LEMMA RenderOnce ==
    ASSUME OnceInv, IInv', NEW d \in Tablets, Render(d)
    PROVE  OnceInv'
<1>1. TabletOK(d) /\ Shape /\ OnceOK(d)
  BY DEF OnceInv, IInv
<1>2. UNCHANGED <<running, flow, game, writes, disk, open, down, late, server, typed,
                  torn, faults>>
  BY DEF Render
<1>3. /\ LogsIn(up'[d]) = LogsIn(up[d])
      /\ \A c \in Tablets \ {d} : up'[c] = up[c]
  <2> DEFINE f == StateFrame(d, game[d], now + 1)
  <2>1. CASE up' = up
    BY <2>1
  <2>2. CASE up' # up
    <3>1. up' = Sent(d, f) /\ PushDue(shown[d], game[d])
      BY <2>2 DEF Render
    <3>2. open[d]
      BY <2>2, <3>1 DEF Sent
    <3>3. f.type = "state" /\ f \in FramesOf(d, typed[d])
      BY <1>1, <3>1, SyncAssumption
         DEF SyncAssumption, PushDue, StateFrame, FramesOf, ReportsOf, TabletOK, GamesOf, Shape
    <3> HIDE DEF f
    <3>4. up' = [up EXCEPT ![d] = Append(up[d], f)]
      BY <3>1, <3>2 DEF Sent
    <3>5. up'[d] = Append(up[d], f) /\ \A c \in Tablets \ {d} : up'[c] = up[c]
      BY <1>1, <3>4 DEF Shape, OfTablets
    <3>6. up[d] \in Seq(FramesOf(d, typed[d]))
      BY <1>1 DEF TabletOK, QueueOK
    <3> QED
      BY <3>3, <3>5, <3>6, LogsAppended
  <2> QED
    BY <2>1, <2>2
<1>4. OnceOK(d)'
  <2>1. UNCHANGED OnceVars(d) /\ late'[d] = late[d] /\ log' = log
    BY <1>2 DEF OnceVars, server
  <2>2. ~torn[d] => LoneOf(LogsIn(up[d]), LogsIn(late[d]), PlacesIn(log, d))
    BY <1>1 DEF OnceOK, OneLog
  <2> QED
    BY <1>1, <1>3, <2>1, <2>2, OnceMoved
<1> QED
  BY <1>2, <1>3, <1>4, OneOnce DEF OnceVars, server

LEMMA FlushOnce ==
    ASSUME OnceInv, IInv', NEW d \in Tablets, Flush(d)
    PROVE  OnceInv'
<1>1. TabletOK(d) /\ Shape /\ OnceOK(d)
  BY DEF OnceInv, IInv
<1>2. /\ writes'[d] = Tail(writes[d])
      /\ \A c \in Tablets \ {d} : writes'[c] = writes[c]
      /\ disk'[d] = IF Head(writes[d]).key = "game"
                    THEN [disk[d] EXCEPT !.game = Head(writes[d]).value]
                    ELSE [disk[d] EXCEPT !.flow = Head(writes[d]).value]
      /\ \A c \in Tablets \ {d} : disk'[c] = disk[c]
  BY <1>1 DEF Flush, Shape, OfTablets
<1>3. writes[d] # <<>> /\ UNCHANGED <<running, flow, game, shown, socket, server, now, ghosts>>
  BY DEF Flush
<1>4. disk'[d].flow = IF Head(writes[d]).key = "game" THEN disk[d].flow ELSE Head(writes[d]).value
  BY <1>1, <1>2 DEF TabletOK
<1>5. ASSUME NEW v, Kept(d, v) PROVE Kept(d, v)'
  <2>1. writes[d] \in Seq(WritesOf(typed[d])) /\ KeptIn(writes[d], disk[d].flow, v)
    BY <1>1, <1>5 DEF TabletOK, Kept
  <2>2. KeptIn(writes'[d], disk'[d].flow, v)
    BY <1>2, <1>3, <1>4, <2>1, KeptFlush
  <2> QED
    BY <2>2 DEF Kept
<1>6. Asleep(d)'
  <2>1. \A i \in DOMAIN Tail(writes[d]) : i + 1 \in DOMAIN writes[d]
                                          /\ Tail(writes[d])[i] = writes[d][i + 1]
    BY <1>1, <1>3, HeadTailProperties, LenProperties DEF TabletOK
  <2>2. running'[d] = running[d] /\ flow'[d] = flow[d]
    BY <1>3
  <2> QED
    BY <1>1, <1>2, <2>1, <2>2 DEF OnceOK, Asleep
<1>7. ASSUME ~torn[d] PROVE FlowKept(d)' /\ OneLog(d)'
  <2>1. FlowKept(d)'
    BY <1>1, <1>3, <1>5, <1>7 DEF OnceOK, FlowKept
  <2>2. FinishedKept(d) => FinishedKept(d)'
    BY <1>5 DEF FinishedKept
  <2> QED
    BY <1>1, <1>3, <1>7, <2>1, <2>2 DEF OnceOK, OneLog, socket, server
<1>8. OnceOK(d)'
  BY <1>3, <1>6, <1>7 DEF OnceOK, ghosts
<1> QED
  BY <1>2, <1>3, <1>8, OneOnce DEF OnceVars, socket, server, ghosts

LEMMA ReceiveOnce ==
    ASSUME OnceInv, IInv', NEW d \in Tablets, Receive(d)
    PROVE  OnceInv'
<1>1. TabletOK(d) /\ Shape /\ OnceOK(d) /\ TabletOK(d)'
  BY DEF OnceInv, IInv
<1>2. /\ writes'[d] = Append(writes[d], GameWrite(game'[d]))
      /\ \A c \in Tablets \ {d} : writes'[c] = writes[c]
  BY <1>1 DEF Receive, Shape, OfTablets
<1>3. UNCHANGED <<running, flow, shown, disk, open, up, late, server, now, ghosts>> /\ running[d]
  BY <1>1 DEF Receive, TabletOK
<1>4. /\ writes[d] \in Seq(WritesOf(typed[d])) /\ game'[d] \in GamesOf(typed[d])
  BY <1>1, <1>3 DEF TabletOK, ghosts
<1>5. ASSUME NEW v, Kept(d, v) PROVE Kept(d, v)'
  <2>1. KeptIn(writes'[d], disk[d].flow, v)
    BY <1>2, <1>4, <1>5, KeptWrites DEF Kept
  <2> QED
    BY <1>3, <2>1 DEF Kept
<1>6. Asleep(d)'
  <2>1. GameWrite(game'[d]) \in WritesOf(typed[d]) /\ GameWrite(game'[d]).key = "game"
    BY <1>4 DEF GameWrite, WritesOf
  <2>2. \A i \in DOMAIN writes'[d] :
           \/ i \in DOMAIN writes[d] /\ writes'[d][i] = writes[d][i]
           \/ writes'[d][i].key = "game"
    <3>1. DOMAIN writes[d] = 1..Len(writes[d]) /\ Len(writes[d]) \in Nat
      BY <1>4, LenProperties
    <3>2. /\ DOMAIN writes'[d] = 1..Len(writes[d]) + 1
          /\ writes'[d][Len(writes[d]) + 1] = GameWrite(game'[d])
          /\ \A i \in 1..Len(writes[d]) : writes'[d][i] = writes[d][i]
      BY <1>2, <1>4, <2>1, <3>1, AppendProperties
    <3> QED
      BY <2>1, <3>1, <3>2
  <2>3. running'[d] = running[d] /\ flow'[d] = flow[d]
    BY <1>3
  <2> QED
    BY <1>1, <1>3, <2>2, <2>3 DEF OnceOK, Asleep
<1>7. ASSUME ~torn[d] PROVE FlowKept(d)' /\ OneLog(d)'
  <2>1. FlowKept(d)'
    BY <1>1, <1>3, <1>5, <1>7 DEF OnceOK, FlowKept
  <2>2. FinishedKept(d) => FinishedKept(d)'
    BY <1>5 DEF FinishedKept
  <2> QED
    BY <1>1, <1>3, <1>7, <2>1, <2>2 DEF OnceOK, OneLog, server
<1>8. OnceOK(d)'
  BY <1>3, <1>6, <1>7 DEF OnceOK, ghosts
<1> QED
  BY <1>2, <1>3, <1>8, OneOnce DEF OnceVars, server, ghosts

LEMMA ConnectOnce ==
    ASSUME OnceInv, IInv', NEW d \in Tablets, Connect(d)
    PROVE  OnceInv'
<1>1. TabletOK(d) /\ Shape /\ OnceOK(d)
  BY DEF OnceInv, IInv
<1>2. /\ up'[d] = <<[type |-> "hello"]>> /\ \A c \in Tablets \ {d} : up'[c] = up[c]
      /\ UNCHANGED <<device, late, server, ghosts>>
  BY <1>1 DEF Connect, Shape, OfTablets
<1>3. LogsIn(up'[d]) = {}
  BY <1>2, NoLogs
<1>4. OnceOK(d)'
  <2>1. UNCHANGED OnceVars(d) /\ late'[d] = late[d] /\ log' = log
    BY <1>2 DEF OnceVars, device, server, ghosts
  <2>2. /\ ~torn[d] => LoneOf(LogsIn(up'[d]), LogsIn(late'[d]), PlacesIn(log', d))
        /\ Some(LogsIn(up'[d]), LogsIn(late'[d]), PlacesIn(log', d))
              => Some(LogsIn(up[d]), LogsIn(late[d]), PlacesIn(log, d))
    BY <1>1, <1>3, <2>1 DEF OnceOK, OneLog, LoneOf, Lone, Some
  <2> QED
    BY <1>1, <2>1, <2>2, OnceMoved
<1> QED
  BY <1>2, <1>4, OneOnce DEF OnceVars, device, server, ghosts

\* A socket that is gone: what it carried upwards may still be read, once.
LEMMA LostOnce ==
    ASSUME IInv, NEW d \in Tablets, OnceOK(d), Lose(d)
    PROVE  /\ ~torn[d] => LoneOf(LogsIn(up'[d]), LogsIn(late'[d]), PlacesIn(log, d))
           /\ Some(LogsIn(up'[d]), LogsIn(late'[d]), PlacesIn(log, d))
                 => Some(LogsIn(up[d]), LogsIn(late[d]), PlacesIn(log, d))
           /\ \A c \in Tablets \ {d} : up'[c] = up[c] /\ late'[c] = late[c]
<1>1. TabletOK(d) /\ Shape
  BY DEF IInv
<1>2. /\ up'[d] = <<>> /\ late'[d] = late[d] \o Unread(d)
      /\ \A c \in Tablets \ {d} : up'[c] = up[c] /\ late'[c] = late[c]
  BY <1>1 DEF Lose, Shape, OfTablets
<1>3. /\ LogsIn(up[d]) = {} => LogsIn(Unread(d)) = {}
      /\ Lone(LogsIn(up[d])) => Lone(LogsIn(Unread(d)))
  <2>1. up[d] \in Seq(FramesOf(d, typed[d]))
    BY <1>1 DEF TabletOK, QueueOK
  <2> QED
    BY <2>1, LogsRead DEF Unread
<1>4. LogsIn(up'[d]) = {}
  BY <1>2, NoLogs
<1>5. /\ LogsIn(Unread(d)) = {} => LogsIn(late'[d]) = LogsIn(late[d])
      /\ LogsIn(late[d]) = {} /\ Lone(LogsIn(Unread(d))) => Lone(LogsIn(late'[d]))
      /\ LogsIn(late[d]) = {} /\ LogsIn(Unread(d)) = {} => LogsIn(late'[d]) = {}
  <2>1. Unread(d) \in Seq(ReportsOf(d, typed[d]))
    <3>1. CASE up[d] = <<>>
      BY <3>1, QueueEmpty DEF Unread
    <3>2. CASE up[d] # <<>>
      BY <1>1, <3>2, QueueNext DEF Unread, TabletOK
    <3> QED
      BY <3>1, <3>2
  <2>2. late[d] \in Seq(ReportsOf(d, typed[d]))
    BY <1>1 DEF TabletOK
  <2> QED
    BY <1>2, <2>1, <2>2, LogsJoined
<1>6. ~torn[d] => LoneOf(LogsIn(up[d]), LogsIn(late[d]), PlacesIn(log, d))
  BY DEF OnceOK, OneLog
<1> DEFINE U == LogsIn(up[d])
           R == LogsIn(Unread(d))
           L == LogsIn(late[d])
           M == LogsIn(late'[d])
           E == PlacesIn(log, d)
<1>7. /\ U = {} => R = {}
      /\ Lone(U) => Lone(R)
      /\ R = {} => M = L
      /\ L = {} /\ Lone(R) => Lone(M)
      /\ L = {} /\ R = {} => M = {}
      /\ ~torn[d] => LoneOf(U, L, E)
  BY <1>3, <1>5, <1>6
<1> HIDE DEF U, R, L, M, E
<1>8. /\ ~torn[d] => LoneOf({}, M, E)
      /\ Some({}, M, E) => Some(U, L, E)
  BY <1>7 DEF LoneOf, Lone, Some
<1> QED
  BY <1>2, <1>4, <1>8 DEF U, L, M, E

LEMMA DropOnce ==
    ASSUME OnceInv, IInv', NEW d \in Tablets, Drop(d) \/ ForgetLate(d)
    PROVE  OnceInv'
<1>1. TabletOK(d) /\ Shape /\ OnceOK(d) /\ IInv
  BY DEF OnceInv, IInv
<1>2. CASE Drop(d)
  <2>1. Lose(d) /\ UNCHANGED <<device, server, now, typed, torn>>
    BY <1>2 DEF Drop
  <2>2. UNCHANGED OnceVars(d) /\ log' = log
    BY <2>1 DEF OnceVars, device, server
  <2>3. OnceOK(d)'
    BY <1>1, <2>1, <2>2, LostOnce, OnceMoved
  <2> QED
    BY <1>1, <2>1, <2>3, LostOnce, OneOnce DEF OnceVars, device, server
<1>3. CASE ForgetLate(d)
  <2>1. /\ late'[d] = <<>> /\ \A c \in Tablets \ {d} : late'[c] = late[c]
        /\ UNCHANGED <<device, open, up, down, server, now, ghosts>>
    BY <1>1, <1>3 DEF ForgetLate, Shape, OfTablets
  <2>2. UNCHANGED OnceVars(d) /\ log' = log /\ up'[d] = up[d] /\ LogsIn(late'[d]) = {}
    BY <2>1, NoLogs DEF OnceVars, device, server, ghosts
  <2>3. /\ ~torn[d] => LoneOf(LogsIn(up'[d]), LogsIn(late'[d]), PlacesIn(log', d))
        /\ Some(LogsIn(up'[d]), LogsIn(late'[d]), PlacesIn(log', d))
              => Some(LogsIn(up[d]), LogsIn(late[d]), PlacesIn(log, d))
    BY <1>1, <2>2 DEF OnceOK, OneLog, LoneOf, Lone, Some
  <2>4. OnceOK(d)'
    BY <1>1, <2>2, <2>3, OnceMoved
  <2> QED
    BY <2>1, <2>4, OneOnce DEF OnceVars, device, server, ghosts
<1> QED
  BY <1>2, <1>3

LEMMA KillOnce ==
    ASSUME OnceInv, IInv', NEW d \in Tablets, Kill(d)
    PROVE  OnceInv'
<1>1. TabletOK(d) /\ Shape /\ OnceOK(d) /\ IInv
  BY DEF OnceInv, IInv
<1>2. Lose(d) /\ UNCHANGED <<disk, server, now, typed>>
  BY DEF Kill
<1>3. /\ flow'[d] = NoFlow /\ writes'[d] = <<>> /\ torn'[d] = (torn[d] \/ writes[d] # <<>>)
      /\ \A c \in Tablets \ {d} : flow'[c] = flow[c] /\ writes'[c] = writes[c]
                                 /\ torn'[c] = torn[c] /\ running'[c] = running[c]
  BY <1>1 DEF Kill, Shape, OfTablets
<1>4. Asleep(d)' /\ FlowKept(d)'
  BY <1>3 DEF Asleep, FlowKept
<1>5. ASSUME ~torn'[d] PROVE OneLog(d)'
  <2>1. ~torn[d] /\ writes'[d] = writes[d] /\ disk' = disk /\ log' = log
    BY <1>2, <1>3, <1>5 DEF server
  <2>2. FinishedKept(d) => FinishedKept(d)'
    BY <2>1 DEF FinishedKept, Kept
  <2>3. /\ LoneOf(LogsIn(up'[d]), LogsIn(late'[d]), PlacesIn(log', d))
        /\ Some(LogsIn(up'[d]), LogsIn(late'[d]), PlacesIn(log', d))
              => Some(LogsIn(up[d]), LogsIn(late[d]), PlacesIn(log, d))
    BY <1>1, <1>2, <2>1, LostOnce
  <2>4. OneLog(d)
    BY <1>1, <2>1 DEF OnceOK
  <2> QED
    BY <2>2, <2>3, <2>4 DEF OneLog
<1>6. OnceOK(d)'
  BY <1>4, <1>5 DEF OnceOK
<1> QED
  BY <1>1, <1>2, <1>3, <1>6, LostOnce, OneOnce DEF OnceVars, server

LEMMA HelloOnce ==
    ASSUME OnceInv, IInv', NEW d \in Tablets, ServeHello(d)
    PROVE  OnceInv'
<1>1. TabletOK(d) /\ Shape /\ OnceOK(d)
  BY DEF OnceInv, IInv
<1>2. /\ up[d] # <<>> /\ up'[d] = Tail(up[d]) /\ \A c \in Tablets \ {d} : up'[c] = up[c]
      /\ UNCHANGED <<device, open, late, server, now, ghosts>>
  BY <1>1 DEF ServeHello, Shape, OfTablets
<1>3. up[d] \in Seq(FramesOf(d, typed[d]))
  BY <1>1 DEF TabletOK, QueueOK
<1>4. /\ LogsIn(up[d]) = {} => LogsIn(up'[d]) = {}
      /\ Lone(LogsIn(up[d])) => Lone(LogsIn(up'[d]))
  BY <1>2, <1>3, LogsRead
<1>5. OnceOK(d)'
  <2>1. UNCHANGED OnceVars(d) /\ late'[d] = late[d] /\ log' = log
    BY <1>2 DEF OnceVars, device, server, ghosts
  <2>2. /\ ~torn[d] => LoneOf(LogsIn(up'[d]), LogsIn(late'[d]), PlacesIn(log', d))
        /\ Some(LogsIn(up'[d]), LogsIn(late'[d]), PlacesIn(log', d))
              => Some(LogsIn(up[d]), LogsIn(late[d]), PlacesIn(log, d))
    BY <1>1, <1>4, <2>1 DEF OnceOK, OneLog, LoneOf, Some
  <2> QED
    BY <1>1, <2>1, <2>2, OnceMoved
<1> QED
  BY <1>2, <1>5, OneOnce DEF OnceVars, device, server, ghosts

LEMMA ServeOnce ==
    ASSUME OnceInv, IInv', NEW d \in Tablets, ServeFrame(d) \/ ServeLate(d)
    PROVE  OnceInv'
<1>1. TabletOK(d) /\ Shape /\ OnceOK(d) /\ ServerOK /\ typed[d] \subseteq Teams
  BY DEF OnceInv, IInv, Shape
<1>2. CASE ServeFrame(d)
  <2>1. /\ up[d] # <<>> /\ up'[d] = Tail(up[d]) /\ \A c \in Tablets \ {d} : up'[c] = up[c]
        /\ Store(Head(up[d])) /\ UNCHANGED <<device, open, down, late, now, ghosts>>
    BY <1>1, <1>2 DEF ServeFrame, Shape, OfTablets
  <2>2. up[d] \in Seq(FramesOf(d, typed[d]))
    BY <1>1 DEF TabletOK, QueueOK
  <2>3. PICK f \in ReportsOf(d, typed[d]) : f = Head(up[d])
    <3>1. Head(up[d]).type # "hello"
      BY <2>1 DEF Store
    <3> QED
      BY <1>1, <2>1, <3>1, QueueNext DEF TabletOK
  <2>4. /\ \A c \in Tablets \ {d} : PlacesIn(log', c) = PlacesIn(log, c)
        /\ f.type # "log" => PlacesIn(log', d) = PlacesIn(log, d)
        /\ f.type = "log" =>
              PlacesIn(log', d) = PlacesIn(log, d) \cup {<<f.team, Len(log[f.team]) + 1>>}
    BY <1>1, <2>1, <2>3, StoredPlaces
  <2>5. /\ LogsIn(up[d]) = {} => LogsIn(up'[d]) = {}
        /\ Lone(LogsIn(up[d])) => Lone(LogsIn(up'[d]))
        /\ f.type = "log" => LogsIn(up[d]) # {}
        /\ f.type = "log" /\ Lone(LogsIn(up[d])) => LogsIn(up'[d]) = {}
    BY <2>1, <2>2, <2>3, LogsRead
  <2>6. OnceOK(d)'
    <3>1. UNCHANGED OnceVars(d) /\ late'[d] = late[d]
      BY <2>1 DEF OnceVars, device, ghosts
    <3>2. /\ ~torn[d] => LoneOf(LogsIn(up'[d]), LogsIn(late[d]), PlacesIn(log', d))
          /\ Some(LogsIn(up'[d]), LogsIn(late[d]), PlacesIn(log', d))
                => Some(LogsIn(up[d]), LogsIn(late[d]), PlacesIn(log, d))
      <4>1. ~torn[d] => LoneOf(LogsIn(up[d]), LogsIn(late[d]), PlacesIn(log, d))
        BY <1>1 DEF OnceOK, OneLog
      <4>2. CASE f.type # "log"
        BY <2>4, <2>5, <4>1, <4>2 DEF LoneOf, Some
      <4>3. CASE f.type = "log"
        BY <2>4, <2>5, <4>1, <4>3 DEF LoneOf, Lone, Some
      <4> QED
        BY <4>2, <4>3
    <3> QED
      BY <1>1, <3>1, <3>2, OnceMoved
  <2> QED
    BY <2>1, <2>4, <2>6, OneOnce DEF OnceVars, device, ghosts
<1>3. CASE ServeLate(d)
  <2>1. /\ late[d] # <<>> /\ late'[d] = Tail(late[d])
        /\ \A c \in Tablets \ {d} : late'[c] = late[c]
        /\ Store(Head(late[d])) /\ UNCHANGED <<device, open, up, down, now, ghosts>>
    BY <1>1, <1>3 DEF ServeLate, Shape, OfTablets
  <2>2. late[d] \in Seq(ReportsOf(d, typed[d]))
    BY <1>1 DEF TabletOK
  <2>3. PICK f \in ReportsOf(d, typed[d]) : f = Head(late[d])
    BY <2>1, <2>2, HeadTailProperties
  <2>4. /\ \A c \in Tablets \ {d} : PlacesIn(log', c) = PlacesIn(log, c)
        /\ f.type # "log" => PlacesIn(log', d) = PlacesIn(log, d)
        /\ f.type = "log" =>
              PlacesIn(log', d) = PlacesIn(log, d) \cup {<<f.team, Len(log[f.team]) + 1>>}
    BY <1>1, <2>1, <2>3, StoredPlaces
  <2>5. /\ LogsIn(late[d]) = {} => LogsIn(late'[d]) = {}
        /\ Lone(LogsIn(late[d])) => Lone(LogsIn(late'[d]))
        /\ f.type = "log" => LogsIn(late[d]) # {}
        /\ f.type = "log" /\ Lone(LogsIn(late[d])) => LogsIn(late'[d]) = {}
    BY <2>1, <2>2, <2>3, LogsRead
  <2>6. OnceOK(d)'
    <3>1. UNCHANGED OnceVars(d) /\ up'[d] = up[d]
      BY <2>1 DEF OnceVars, device, ghosts
    <3>2. /\ ~torn[d] => LoneOf(LogsIn(up[d]), LogsIn(late'[d]), PlacesIn(log', d))
          /\ Some(LogsIn(up[d]), LogsIn(late'[d]), PlacesIn(log', d))
                => Some(LogsIn(up[d]), LogsIn(late[d]), PlacesIn(log, d))
      <4>1. ~torn[d] => LoneOf(LogsIn(up[d]), LogsIn(late[d]), PlacesIn(log, d))
        BY <1>1 DEF OnceOK, OneLog
      <4>2. CASE f.type # "log"
        BY <2>4, <2>5, <4>1, <4>2 DEF LoneOf, Some
      <4>3. CASE f.type = "log"
        BY <2>4, <2>5, <4>1, <4>3 DEF LoneOf, Lone, Some
      <4> QED
        BY <4>2, <4>3
    <3> QED
      BY <1>1, <3>1, <3>2, OnceMoved
  <2> QED
    BY <2>1, <2>4, <2>6, OneOnce DEF OnceVars, device, ghosts
<1> QED
  BY <1>2, <1>3

LEMMA WipeOnce ==
    ASSUME OnceInv, IInv', Reset \/ Restart
    PROVE  OnceInv'
<1>1. log' = [t \in Teams |-> <<>>]
  BY DEF Reset, Restart, Wiped
<1>2. UNCHANGED <<device, torn>>
  BY DEF Reset, Restart
<1>3. ASSUME NEW d \in Tablets PROVE OnceOK(d)'
  <2>1. OnceOK(d) /\ UNCHANGED OnceVars(d)
    BY <1>2 DEF OnceInv, OnceVars, device
  <2>2. PlacesIn(log', d) = {}
    BY <1>1 DEF PlacesIn
  <2>3. LogsIn(up'[d]) \subseteq LogsIn(up[d]) /\ LogsIn(late'[d]) \subseteq LogsIn(late[d])
    <3>1. CASE Reset
      BY <3>1 DEF Reset, socket
    <3>2. CASE Restart
      <4>1. up'[d] = <<>> /\ late'[d] = <<>>
        BY <3>2 DEF Restart
      <4> QED
        BY <4>1, NoLogs
    <3> QED
      BY <3>1, <3>2
  <2>4. /\ ~torn[d] => LoneOf(LogsIn(up'[d]), LogsIn(late'[d]), PlacesIn(log', d))
        /\ Some(LogsIn(up'[d]), LogsIn(late'[d]), PlacesIn(log', d))
              => Some(LogsIn(up[d]), LogsIn(late[d]), PlacesIn(log, d))
    BY <2>1, <2>2, <2>3 DEF OnceOK, OneLog, LoneOf, Lone, Some
  <2> QED
    BY <2>1, <2>4, OnceMoved
<1> QED
  BY <1>3 DEF OnceInv

LEMMA OnceStep == OnceInv /\ [Next]_vars => OnceInv'
<1> SUFFICES ASSUME OnceInv, [Next]_vars PROVE OnceInv'
  OBVIOUS
<1>1. IInv'
  BY SyncStep DEF OnceInv
<1>2. CASE UNCHANGED vars
  <2>1. UNCHANGED <<device, up, late, log, torn>>
    BY <1>2 DEF vars, socket, server, ghosts
  <2>2. \A d \in Tablets : OnceOK(d)'
    BY <2>1, OnceAway DEF OnceInv, OnceVars, device
  <2> QED
    BY <1>1, <2>2 DEF OnceInv
<1> QED
  BY <1>1, <1>2, BootOnce, PlayOnce, SubmitOnce, RenderOnce, FlushOnce, ConnectOnce, DropOnce,
     KillOnce, ReceiveOnce, HelloOnce, ServeOnce, WipeOnce
     DEF Next

\* A tablet that lost no write to a kill pushes its log at most once: one place at most,
\* on a socket or in the database, holds a push of it.
THEOREM LogOncePushed == Spec => []LogPushedOnce
<1>1. Init => OnceInv
  BY OnceStarts
<1>2. OnceInv /\ [Next]_vars => OnceInv'
  BY OnceStep
<1>3. OnceInv => LogPushedOnce
  <2> SUFFICES ASSUME OnceInv, NEW d \in Tablets, ~torn[d],
                      NEW p \in LogPushes(d), NEW q \in LogPushes(d)
               PROVE  p = q
    BY DEF LogPushedOnce
  <2> DEFINE U == LogsIn(up[d])
             L == LogsIn(late[d])
             E == PlacesIn(log, d)
             In(x) == \/ \E i \in U : x = <<"up", d, i>>
                      \/ \E i \in L : x = <<"late", d, i>>
                      \/ \E e \in E : x = <<"log", e[1], e[2]>>
  <2>1. LoneOf(U, L, E)
    BY DEF OnceInv, OnceOK, OneLog
  <2>2. ASSUME NEW x \in LogPushes(d) PROVE In(x)
    <3>1. \/ \E i \in U : x = <<"up", d, i>>
          \/ \E i \in L : x = <<"late", d, i>>
          \/ \E t \in Teams : \E i \in DOMAIN log[t] : log[t][i].device = d /\ x = <<"log", t, i>>
      BY DEF LogPushes, LogsIn
    <3>2. ASSUME NEW t \in Teams, NEW i \in DOMAIN log[t], log[t][i].device = d,
                 x = <<"log", t, i>>
          PROVE  In(x)
      <4>1. log[t] \in Seq(Pushes(t))
        BY DEF OnceInv, IInv, ServerOK
      <4>2. i \in Nat
        BY <4>1, LenProperties
      <4>3. <<t, i>> \in E
        BY <3>2, <4>2 DEF PlacesIn
      <4> QED
        BY <3>2, <4>3
    <3> QED
      BY <3>1, <3>2
  <2>3. In(p) /\ In(q)
    BY <2>2
  <2> HIDE DEF U, L, E
  <2> QED
    BY <2>1, <2>3 DEF LoneOf, Lone
<1> QED
  BY <1>1, <1>2, <1>3, PTL DEF Spec

-----------------------------------------------------------------------------
(***************************************************************************)
(* Folds.  FoldLeft is an operator of an operator, which no lemma can be    *)
(* about; Fold is the same of a function of an accumulator and an element,  *)
(* and each fold of the reports is shown to be one.                         *)
(***************************************************************************)
\* A set of sequences that has the empty one, and each with one more element, has all.
LEMMA AllSequences ==
    ASSUME NEW E, NEW Q, <<>> \in Q,
           \A q \in Seq(E) : q \in Q => \A e \in E : Append(q, e) \in Q
    PROVE  Seq(E) \subseteq Q
<1> DEFINE Bad == {n \in Nat : \E q \in Seq(E) : Len(q) = n /\ q \notin Q}
<1>1. ASSUME Bad # {} PROVE FALSE
  <2>0. Bad \subseteq Nat
    OBVIOUS
  <2> HIDE DEF Bad
  <2>1. PICK n \in Bad : \A m \in Bad : ~(<<m, n>> \in OpToRel(<, Nat))
    BY <1>1, <2>0, NatLessThanWellFounded, WFMin, Zenon
  <2> USE DEF Bad
  <2>2. PICK q \in Seq(E) : Len(q) = n /\ q \notin Q
    BY <2>1
  <2>3. q # <<>>
    BY <2>2
  <2>4. PICK p \in Seq(E), e \in E : q = Append(p, e)
    BY <2>3, SequenceEmptyOrAppend
  <2>5. Len(q) = Len(p) + 1 /\ Len(p) \in Nat
    BY <2>4, AppendProperties, LenProperties
  <2>6. Len(p) \in Bad
    BY <2>2, <2>4, <2>5
  <2>7. <<Len(p), n>> \in OpToRel(<, Nat)
    BY <2>2, <2>5 DEF OpToRel
  <2> QED
    BY <2>1, <2>6, <2>7
<1>2. \A q \in Seq(E) : q \in Q
  <2>1. TAKE q \in Seq(E)
  <2>2. Len(q) \in Nat /\ Len(q) \notin Bad
    BY <1>1, LenProperties
  <2> QED
    BY <2>2
<1> QED
  BY <1>2

\* A finite set of places in a sequence.
Indices(T) == IsFiniteSet(T) /\ T \subseteq Int

\* A set of parts of a finite set of places has a smallest one.
LEMMA SmallestPart ==
    ASSUME NEW T, Indices(T), NEW C, C \subseteq SUBSET T, C # {}
    PROVE  \E s \in C : \A t \in C : t \subseteq s => t = s
<1>1. IsFiniteSet(T)
  BY DEF Indices
<1> QED
  BY <1>1, SmallestMember

LEMMA IndicesPart ==
    ASSUME NEW T, Indices(T), NEW t \in SUBSET T PROVE Indices(t)
<1>1. IsFiniteSet(T) /\ t \subseteq T
  BY DEF Indices
<1>2. IsFiniteSet(t)
  BY <1>1, FS_Subset
<1> QED
  BY <1>2 DEF Indices

\* Max picks the last place.
LEMMA MaxMember ==
    ASSUME NEW T, Indices(T), T # {}
    PROVE  Max(T) \in T /\ \A y \in T : Max(T) >= y
<1> DEFINE Tops(s) == {x \in s : \A y \in s : x >= y}
           C == {s \in SUBSET T : s # {} /\ Tops(s) = {}}
<1>1. ASSUME C # {} PROVE FALSE
  <2>1. PICK s \in C : \A t \in C : t \subseteq s => t = s
    <3> HIDE DEF C, Tops
    <3>1. C \subseteq SUBSET T
      BY DEF C
    <3> QED
      BY <1>1, <3>1, SmallestPart
  <2>2. PICK x : x \in s
    BY <2>1
  <2>3. x \in Int /\ s \subseteq Int
    BY <2>1, <2>2 DEF Indices
  <2>4. CASE s \ {x} = {}
    <3>1. x \in Tops(s)
      BY <2>2, <2>3, <2>4
    <3> QED
      BY <2>1, <3>1
  <2>5. CASE s \ {x} # {}
    <3>1. s \ {x} \notin C
      BY <2>1, <2>2
    <3>2. PICK m \in s \ {x} : \A y \in s \ {x} : m >= y
      BY <2>1, <2>5, <3>1
    <3>3. IF m >= x THEN m \in Tops(s) ELSE x \in Tops(s)
      BY <2>2, <2>3, <3>2
    <3> QED
      BY <2>1, <3>3
  <2> QED
    BY <2>4, <2>5
<1>2. T \notin C
  BY <1>1
<1>3. \E x \in T : \A y \in T : x >= y
  BY <1>2
<1> QED
  BY <1>3 DEF Max

\* Two functions computed alike from the part without its last index are the same.
OnParts(f, D) == f = [s \in SUBSET D |-> f[s]]

Alike(f, g, s) == f[s \ {Max(s)}] = g[s \ {Max(s)}] => f[s] = g[s]

LEMMA SameIteration ==
    ASSUME NEW D, Indices(D),
           NEW f, OnParts(f, D), NEW g, OnParts(g, D), f[{}] = g[{}],
           \A s \in (SUBSET D) \ {{}} : Alike(f, g, s)
    PROVE  f = g
<1> DEFINE C == {s \in SUBSET D : f[s] # g[s]}
<1>1. ASSUME C # {} PROVE FALSE
  <2>1. PICK s \in C : \A t \in C : t \subseteq s => t = s
    <3> HIDE DEF C
    <3>1. C \subseteq SUBSET D
      BY DEF C
    <3> QED
      BY <1>1, <3>1, SmallestPart
  <2>2. s \in SUBSET D /\ f[s] # g[s] /\ s # {}
    BY <2>1
  <2>3. Max(s) \in s
    BY <2>2, IndicesPart, MaxMember
  <2>4. s \ {Max(s)} \notin C
    BY <2>1, <2>3
  <2>5. f[s \ {Max(s)}] = g[s \ {Max(s)}]
    BY <2>2, <2>4
  <2>6. Alike(f, g, s)
    <3>1. s \in (SUBSET D) \ {{}}
      BY <2>2
    <3> HIDE DEF C
    <3> QED
      BY <3>1
  <2> QED
    BY <2>2, <2>5, <2>6 DEF Alike
<1>2. \A s \in SUBSET D : f[s] = g[s]
  BY <1>1
<1> QED
  BY <1>2 DEF OnParts

\* The function a fold is read from, and its value.
Iterates(F, b, q, T, h) ==
    h = [s \in SUBSET T |-> IF s = {} THEN b ELSE F[<<h[s \ {Max(s)}], q[Max(s)]>>]]

FoldOn(F, b, q, T) == (CHOOSE h : Iterates(F, b, q, T, h))[T]

Fold(F, b, q) == FoldOn(F, b, q, DOMAIN q)

\* There is one such function,
LEMMA IteratesOnce ==
    ASSUME NEW F, NEW b, NEW q, NEW T, Indices(T),
           NEW f, Iterates(F, b, q, T, f), NEW g, Iterates(F, b, q, T, g)
    PROVE  f = g
<1>1. OnParts(f, T) /\ OnParts(g, T)
  BY DEF Iterates, OnParts
<1>2. \A s \in SUBSET T :
         /\ f[s] = IF s = {} THEN b ELSE F[<<f[s \ {Max(s)}], q[Max(s)]>>]
         /\ g[s] = IF s = {} THEN b ELSE F[<<g[s \ {Max(s)}], q[Max(s)]>>]
  BY DEF Iterates
<1>3. {} \in SUBSET T
  OBVIOUS
<1>4. f[{}] = g[{}]
  BY <1>2, <1>3
<1>5. \A s \in (SUBSET T) \ {{}} : Alike(f, g, s)
  BY <1>2 DEF Alike
<1> HIDE DEF Iterates
<1> QED
  BY <1>1, <1>4, <1>5, SameIteration

\* so the fold is its value,
LEMMA FoldOnIs ==
    ASSUME NEW F, NEW b, NEW q, NEW T, Indices(T),
           NEW h, Iterates(F, b, q, T, h)
    PROVE  FoldOn(F, b, q, T) = h[T]
<1>1. Iterates(F, b, q, T, CHOOSE g : Iterates(F, b, q, T, g))
  BY Zenon
<1>2. (CHOOSE g : Iterates(F, b, q, T, g)) = h
  BY <1>1, IteratesOnce, Zenon
<1> QED
  BY <1>2 DEF FoldOn

\* The function restricted to the part, on which another sequence may agree.
Cut(h, t) == [u \in SUBSET t |-> h[u]]

\* on a part as on the whole.
LEMMA IteratesPart ==
    ASSUME NEW F, NEW b, NEW q, NEW T, Indices(T),
           NEW h, Iterates(F, b, q, T, h), NEW t \in SUBSET T,
           NEW p, \A i \in t : p[i] = q[i]
    PROVE  Iterates(F, b, p, t, Cut(h, t))
<1> DEFINE g == [u \in SUBSET t |-> h[u]]
<1>1. \A u \in SUBSET T : h[u] = IF u = {} THEN b ELSE F[<<h[u \ {Max(u)}], q[Max(u)]>>]
  BY DEF Iterates
<1>2. \A u \in SUBSET t : u # {} => Max(u) \in u
  BY IndicesPart, MaxMember
<1>3. \A u \in SUBSET t : g[u] = IF u = {} THEN b ELSE F[<<g[u \ {Max(u)}], p[Max(u)]>>]
  BY <1>1, <1>2
<1>4. g = [u \in SUBSET t |-> IF u = {} THEN b ELSE F[<<g[u \ {Max(u)}], p[Max(u)]>>]]
  BY <1>3
<1> QED
  BY <1>4 DEF Iterates, Cut

\* And there is one, as each part has one once its smaller parts do.
LEMMA IterationExists ==
    ASSUME NEW F, NEW b, NEW q, NEW T, Indices(T)
    PROVE  \E h : Iterates(F, b, q, T, h)
<1> DEFINE Exists(s) == \E h : Iterates(F, b, q, s, h)
           C == {s \in SUBSET T : ~Exists(s)}
<1>1. ASSUME C # {} PROVE FALSE
  <2>1. PICK s \in C : \A t \in C : t \subseteq s => t = s
    <3> HIDE DEF C, Exists
    <3>1. C \subseteq SUBSET T
      BY DEF C
    <3> QED
      BY <1>1, <3>1, SmallestPart
  <2>2. \A t \in SUBSET s : t # s => Exists(t)
    BY <2>1
  <2>3. s \in SUBSET T /\ ~Exists(s)
    BY <2>1
  <2> HIDE DEF C
  <2>4. \A t \in SUBSET s : Indices(t)
    BY <2>3, IndicesPart
  <2>5. \A t \in SUBSET s : t # {} => Max(t) \in t
    BY <2>4, MaxMember
  <2> DEFINE V(t) == FoldOn(F, b, q, t)
             h == [t \in SUBSET s |-> IF t = {} THEN b ELSE F[<<V(t \ {Max(t)}), q[Max(t)]>>]]
  <2>6. ASSUME NEW t \in SUBSET s, t # s
        PROVE  V(t) = IF t = {} THEN b ELSE F[<<V(t \ {Max(t)}), q[Max(t)]>>]
    <3>1. PICK g : Iterates(F, b, q, t, g)
      BY <2>2, <2>6
    <3>2. V(t) = g[t]
      BY <2>4, <3>1, FoldOnIs
    <3>3. t \in SUBSET t
      OBVIOUS
    <3>4. g[t] = IF t = {} THEN b ELSE F[<<g[t \ {Max(t)}], q[Max(t)]>>]
      BY <3>1, <3>3 DEF Iterates
    <3>5. ASSUME t # {} PROVE V(t \ {Max(t)}) = g[t \ {Max(t)}]
      <4> DEFINE u == t \ {Max(t)}
      <4>1. u \in SUBSET t /\ u \in SUBSET s
        OBVIOUS
      <4> HIDE DEF u
      <4>2. Iterates(F, b, q, u, Cut(g, u))
        BY <2>4, <3>1, <4>1, IteratesPart
      <4>3. V(u) = Cut(g, u)[u]
        BY <2>4, <4>1, <4>2, FoldOnIs
      <4> QED
        BY <4>3 DEF u, Cut
    <3> QED
      BY <3>2, <3>4, <3>5
  <2> HIDE DEF V
  <2>7. ASSUME NEW t \in SUBSET s, t # {} PROVE h[t \ {Max(t)}] = V(t \ {Max(t)})
    <3> DEFINE u == t \ {Max(t)}
    <3>1. u \in SUBSET s /\ u # s
      BY <2>5, <2>7
    <3>2. h[u] = IF u = {} THEN b ELSE F[<<V(u \ {Max(u)}), q[Max(u)]>>]
      BY <3>1
    <3> HIDE DEF u, h
    <3>3. h[u] = V(u)
      BY <2>6, <3>1, <3>2
    <3> QED
      BY <3>3 DEF u
  <2>8. h = [t \in SUBSET s |-> IF t = {} THEN b ELSE F[<<h[t \ {Max(t)}], q[Max(t)]>>]]
    BY <2>7
  <2>9. Iterates(F, b, q, s, h)
    BY <2>8 DEF Iterates
  <2> QED
    BY <2>3, <2>9
<1>2. T \notin C
  BY <1>1
<1> QED
  BY <1>2

LEMMA PlacesOf ==
    ASSUME NEW E, NEW q \in Seq(E)
    PROVE  /\ Indices(DOMAIN q) /\ Len(q) \in Nat /\ DOMAIN q = 1..Len(q)
           /\ \A i \in DOMAIN q : q[i] \in E
<1>1. Len(q) \in Nat /\ DOMAIN q = 1..Len(q) /\ \A i \in 1..Len(q) : q[i] \in E
  BY LenProperties, ElementOfSeq
<1>2. IsFiniteSet(1..Len(q))
  BY <1>1, FS_Interval
<1> QED
  BY <1>1, <1>2 DEF Indices

\* What every step of a fold keeps holds of all its values.
Stays(F, b, E, I) == b \in I /\ \A v \in I, e \in E : F[<<v, e>>] \in I

LEMMA IterationInto ==
    ASSUME NEW F, NEW b, NEW E, NEW q \in Seq(E), NEW h, Iterates(F, b, q, DOMAIN q, h),
           NEW I, Stays(F, b, E, I)
    PROVE  \A s \in SUBSET DOMAIN q : h[s] \in I
<1> DEFINE C == {s \in SUBSET DOMAIN q : h[s] \notin I}
<1>0. Indices(DOMAIN q)
  BY PlacesOf
<1>1. ASSUME C # {} PROVE FALSE
  <2>1. PICK s \in C : \A t \in C : t \subseteq s => t = s
    <3> HIDE DEF C
    <3>1. C \subseteq SUBSET DOMAIN q
      BY DEF C
    <3> QED
      BY <1>0, <1>1, <3>1, SmallestPart
  <2>2. s \in SUBSET DOMAIN q /\ h[s] \notin I
    BY <2>1
  <2>3. h[s] = IF s = {} THEN b ELSE F[<<h[s \ {Max(s)}], q[Max(s)]>>]
    BY <2>2 DEF Iterates
  <2>4. s # {}
    BY <2>2, <2>3 DEF Stays
  <2>5. Max(s) \in s
    BY <1>0, <2>2, <2>4, IndicesPart, MaxMember
  <2>6. s \ {Max(s)} \notin C
    BY <2>1, <2>5
  <2>7. h[s \ {Max(s)}] \in I
    BY <2>2, <2>6
  <2>8. q[Max(s)] \in E
    BY <2>2, <2>5, PlacesOf
  <2> QED
    BY <2>2, <2>3, <2>4, <2>7, <2>8 DEF Stays
<1> QED
  BY <1>1

\* What the folds are read with.
LEMMA FoldSteps ==
    ASSUME NEW F, NEW b, NEW E, NEW q \in Seq(E), NEW I, Stays(F, b, E, I)
    PROVE  /\ \E h : Iterates(F, b, q, DOMAIN q, h) /\ \A s \in SUBSET DOMAIN q : h[s] \in I
           /\ \A s \in (SUBSET DOMAIN q) \ {{}} : q[Max(s)] \in E
<1>1. Indices(DOMAIN q)
  BY PlacesOf
<1>2. PICK h : Iterates(F, b, q, DOMAIN q, h)
  BY <1>1, IterationExists
<1>3. \A s \in SUBSET DOMAIN q : h[s] \in I
  BY <1>2, IterationInto
<1>4. \A s \in (SUBSET DOMAIN q) \ {{}} : q[Max(s)] \in E
  BY <1>1, PlacesOf, IndicesPart, MaxMember
<1> QED
  BY <1>2, <1>3, <1>4

\* What its steps keep holds of a fold.
LEMMA FoldInto ==
    ASSUME NEW F, NEW b, NEW E, NEW q \in Seq(E), NEW I, Stays(F, b, E, I)
    PROVE  Fold(F, b, q) \in I
<1>1. Indices(DOMAIN q)
  BY PlacesOf
<1>2. PICK h : Iterates(F, b, q, DOMAIN q, h)
  BY <1>1, IterationExists
<1>3. h[DOMAIN q] \in I
  <2>1. \A s \in SUBSET DOMAIN q : h[s] \in I
    BY <1>2, IterationInto
  <2> QED
    BY <2>1
<1> QED
  BY <1>1, <1>2, <1>3, FoldOnIs DEF Fold

\* A fold of nothing, and of one element more.
LEMMA FoldEmpty ==
    ASSUME NEW F, NEW b PROVE Fold(F, b, <<>>) = b
<1>1. <<>> \in Seq({}) /\ DOMAIN <<>> = {}
  OBVIOUS
<1>2. Indices(DOMAIN <<>>)
  BY <1>1, PlacesOf
<1>3. PICK h : Iterates(F, b, <<>>, DOMAIN <<>>, h)
  BY <1>2, IterationExists
<1>4. Fold(F, b, <<>>) = h[DOMAIN <<>>]
  BY <1>2, <1>3, FoldOnIs DEF Fold
<1>5. DOMAIN <<>> \in SUBSET DOMAIN <<>>
  OBVIOUS
<1> QED
  BY <1>1, <1>3, <1>4, <1>5 DEF Iterates

LEMMA FoldAppend ==
    ASSUME NEW F, NEW b, NEW E, NEW q \in Seq(E), NEW e \in E
    PROVE  Fold(F, b, Append(q, e)) = F[<<Fold(F, b, q), e>>]
<1> DEFINE p == Append(q, e)
           D == DOMAIN p
<1>1. /\ p \in Seq(E) /\ Len(p) = Len(q) + 1 /\ p[Len(p)] = e
      /\ \A i \in 1..Len(q) : p[i] = q[i]
  BY AppendProperties
<1> HIDE DEF p
<1>2. /\ Indices(D) /\ Indices(DOMAIN q) /\ Len(q) \in Nat
      /\ D = 1..Len(p) /\ DOMAIN q = 1..Len(q)
  BY <1>1, PlacesOf
<1>3. PICK h : Iterates(F, b, p, D, h)
  BY <1>2, IterationExists
<1>4. Fold(F, b, p) = h[D]
  BY <1>2, <1>3, FoldOnIs DEF Fold
<1>5. Max(D) = Len(p)
  <2>1. Len(p) \in D /\ D # {} /\ \A i \in D : i <= Len(p) /\ i \in Int
    BY <1>1, <1>2
  <2>2. Max(D) \in D /\ Max(D) >= Len(p)
    BY <1>2, <2>1, MaxMember
  <2>3. Max(D) <= Len(p) /\ Max(D) \in Int /\ Len(p) \in Int
    BY <2>1, <2>2
  <2> HIDE DEF D
  <2> QED
    BY <2>2, <2>3
<1>6. D \ {Max(D)} = DOMAIN q /\ D # {}
  BY <1>1, <1>2, <1>5
<1>7. h[D] = F[<<h[DOMAIN q], e>>]
  <2>1. D \in SUBSET D
    OBVIOUS
  <2>2. h[D] = IF D = {} THEN b ELSE F[<<h[D \ {Max(D)}], p[Max(D)]>>]
    BY <1>3, <2>1 DEF Iterates
  <2> QED
    BY <1>1, <1>5, <1>6, <2>2
<1>8. Fold(F, b, q) = h[DOMAIN q]
  <2>1. DOMAIN q \in SUBSET D
    BY <1>1, <1>2
  <2>2. \A i \in DOMAIN q : q[i] = p[i]
    BY <1>1, <1>2
  <2>3. Iterates(F, b, q, DOMAIN q, Cut(h, DOMAIN q))
    BY <1>2, <1>3, <2>1, <2>2, IteratesPart
  <2>4. Fold(F, b, q) = Cut(h, DOMAIN q)[DOMAIN q]
    BY <1>2, <2>3, FoldOnIs DEF Fold
  <2>5. DOMAIN q \in SUBSET DOMAIN q
    OBVIOUS
  <2> QED
    BY <2>4, <2>5 DEF Cut
<1> QED
  BY <1>4, <1>7, <1>8 DEF p

\* A fold of two elements, and of three.
LEMMA FoldTwo ==
    ASSUME NEW F, NEW z, NEW E, NEW a \in E, NEW b \in E
    PROVE  Fold(F, z, <<a, b>>) = F[<<F[<<z, a>>], b>>]
<1> DEFINE n == <<>>
           p == <<a>>
<1>1. n \in Seq(E) /\ p \in Seq(E) /\ p = Append(n, a) /\ <<a, b>> = Append(p, b)
  OBVIOUS
<1>2. Fold(F, z, n) = z
  BY FoldEmpty
<1> HIDE DEF n, p
<1>3. Fold(F, z, Append(n, a)) = F[<<z, a>>]
  BY <1>1, <1>2, FoldAppend
<1>4. Fold(F, z, Append(p, b)) = F[<<Fold(F, z, p), b>>]
  <2>1. p \in Seq(E)
    BY <1>1
  <2> QED
    BY <2>1, FoldAppend
<1> QED
  BY <1>1, <1>3, <1>4

LEMMA FoldThree ==
    ASSUME NEW F, NEW z, NEW E, NEW a \in E, NEW b \in E, NEW c \in E
    PROVE  Fold(F, z, <<a, b, c>>) = F[<<F[<<F[<<z, a>>], b>>], c>>]
<1> DEFINE p == <<a, b>>
<1>1. p \in Seq(E) /\ <<a, b, c>> = Append(p, c)
  OBVIOUS
<1>2. Fold(F, z, p) = F[<<F[<<z, a>>], b>>]
  BY FoldTwo
<1> HIDE DEF p
<1>3. Fold(F, z, Append(p, c)) = F[<<Fold(F, z, p), c>>]
  BY <1>1, FoldAppend
<1> QED
  BY <1>1, <1>2, <1>3

\* A function that computes like the fold, where its values are those of the fold,
\* ends in the value of the fold.
Reads(g, F, b, q, I) ==
    /\ OnParts(g, DOMAIN q) /\ g[{}] = b
    /\ \A s \in (SUBSET DOMAIN q) \ {{}} : g[s \ {Max(s)}] \in I =>
          g[s] = F[<<g[s \ {Max(s)}], q[Max(s)]>>]

LEMMA FoldRead ==
    ASSUME NEW F, NEW b, NEW E, NEW q \in Seq(E), NEW I, Stays(F, b, E, I),
           NEW g, Reads(g, F, b, q, I)
    PROVE  g[DOMAIN q] = Fold(F, b, q)
<1>1. Indices(DOMAIN q)
  BY PlacesOf
<1>2. PICK h : Iterates(F, b, q, DOMAIN q, h)
  BY <1>1, IterationExists
<1>3. \A s \in SUBSET DOMAIN q : h[s] \in I
  BY <1>2, IterationInto
<1>4. OnParts(g, DOMAIN q) /\ OnParts(h, DOMAIN q)
  BY <1>2 DEF OnParts, Iterates, Reads
<1>5. {} \in SUBSET DOMAIN q
  OBVIOUS
<1>6. g[{}] = h[{}]
  BY <1>2, <1>5 DEF Iterates, Reads
<1>7. \A s \in (SUBSET DOMAIN q) \ {{}} : Alike(g, h, s)
  <2>1. TAKE s \in (SUBSET DOMAIN q) \ {{}}
  <2>2. h[s] = F[<<h[s \ {Max(s)}], q[Max(s)]>>]
    BY <1>2 DEF Iterates
  <2>3. h[s \ {Max(s)}] \in I
    BY <1>3
  <2> QED
    BY <2>2, <2>3 DEF Alike, Reads
<1>8. g = h
  BY <1>1, <1>4, <1>6, <1>7, SameIteration
<1> QED
  BY <1>1, <1>2, <1>8, FoldOnIs DEF Fold

\* Sequences with one element more, and counting by a one-to-one match.
LEMMA ConcatAppend ==
    ASSUME NEW E, NEW p \in Seq(E), NEW q \in Seq(E), NEW e \in E
    PROVE  p \o Append(q, e) = Append(p \o q, e)
<1>1. <<e>> \in Seq(E) /\ p \o q \in Seq(E)
  BY ConcatProperties
<1>2. Append(q, e) = q \o <<e>> /\ Append(p \o q, e) = (p \o q) \o <<e>>
  BY <1>1, AppendIsConcat
<1> QED
  BY <1>1, <1>2, ConcatAssociative

LEMMA OneMore ==
    ASSUME NEW E, NEW q \in Seq(E), NEW e
    PROVE  /\ Len(q) \in Nat /\ DOMAIN q = 1..Len(q)
           /\ Len(Append(q, e)) = Len(q) + 1
           /\ DOMAIN Append(q, e) = DOMAIN q \cup {Len(q) + 1} /\ Len(q) + 1 \notin DOMAIN q
           /\ \A i \in DOMAIN q : Append(q, e)[i] = q[i]
           /\ Append(q, e)[Len(q) + 1] = e
<1>1. Len(q) \in Nat /\ DOMAIN q = 1..Len(q)
  BY LenProperties
<1>2. q \in Seq(E \cup {e}) /\ e \in E \cup {e}
  BY SeqMonotonic
<1>3. /\ Len(Append(q, e)) = Len(q) + 1 /\ Append(q, e) \in Seq(E \cup {e})
      /\ \A i \in 1..Len(q) : Append(q, e)[i] = q[i]
      /\ Append(q, e)[Len(q) + 1] = e
  BY <1>2, AppendProperties
<1>4. DOMAIN Append(q, e) = 1..(Len(q) + 1)
  BY <1>3, LenProperties
<1>5. 1..(Len(q) + 1) = (1..Len(q)) \cup {Len(q) + 1} /\ Len(q) + 1 \notin 1..Len(q)
  BY <1>1
<1> QED
  BY <1>1, <1>3, <1>4, <1>5

LEMMA SameCardinality ==
    ASSUME NEW S, NEW T, IsFiniteSet(S), NEW f \in [S -> T],
           \A a, b \in S : f[a] = f[b] => a = b, \A y \in T : \E x \in S : f[x] = y
    PROVE  IsFiniteSet(T) /\ Cardinality(T) = Cardinality(S)
<1>1. f \in Surjection(S, T) /\ f \in Injection(S, T)
  BY DEF Surjection, Injection, IsInjective
<1> QED
  BY <1>1, FS_Surjection

-----------------------------------------------------------------------------
(***************************************************************************)
(* The entries of a team's énigmes, at most one per step.                   *)
(***************************************************************************)
Entries == [step : StepIds, attempts : Nat, errors : Nat, solved : BOOLEAN]

Distinct(q) == \A i, j \in DOMAIN q : q[i].step = q[j].step => i = j

Lists == {q \in Seq(Entries) : Distinct(q)}

\* An entry is that of its step, or the one ensure() would make.
LEMMA EntryFound ==
    ASSUME NEW q \in Lists, NEW x \in StepIds
    PROVE  /\ EntryOf(q, x) \in Entries /\ EntryOf(q, x).step = x
           /\ \A i \in DOMAIN q : q[i].step = x => EntryOf(q, x) = q[i]
           /\ ~Listed(q, x) => /\ EntryOf(q, x).errors = 0 /\ EntryOf(q, x).attempts = 0
                               /\ ~EntryOf(q, x).solved
<1>1. q \in Seq(Entries) /\ Distinct(q) /\ \A i \in DOMAIN q : q[i] \in Entries
  BY PlacesOf DEF Lists
<1>2. CASE Listed(q, x)
  <2> DEFINE k == CHOOSE i \in DOMAIN q : q[i].step = x
  <2>1. k \in DOMAIN q /\ q[k].step = x
    BY <1>2 DEF Listed
  <2>2. EntryOf(q, x) = q[k]
    BY <1>2 DEF EntryOf
  <2> HIDE DEF k
  <2>3. \A i \in DOMAIN q : q[i].step = x => i = k
    BY <1>1, <2>1 DEF Distinct
  <2> QED
    BY <1>1, <1>2, <2>1, <2>2, <2>3
<1>3. CASE ~Listed(q, x)
  <2>1. EntryOf(q, x) = [step |-> x, attempts |-> 0, errors |-> 0, solved |-> FALSE]
    BY <1>3 DEF EntryOf
  <2> QED
    BY <1>3, <2>1 DEF Entries, Listed
<1> QED
  BY <1>2, <1>3

\* The list as a place-wise replacement.
LEMMA ReplacedIs ==
    ASSUME NEW q \in Lists, NEW e \in Entries, NEW k \in DOMAIN q, q[k].step = e.step
    PROVE  WithEntry(q, e) = [q EXCEPT ![k] = e]
<1>1. q \in Seq(Entries) /\ Distinct(q)
  BY DEF Lists
<1>2. Listed(q, e.step)
  BY DEF Listed
<1>3. \A i \in DOMAIN q : q[i].step = e.step <=> i = k
  BY <1>1 DEF Distinct
<1>4. q = [i \in DOMAIN q |-> q[i]]
  BY <1>1
<1> QED
  BY <1>2, <1>3, <1>4 DEF WithEntry

\* Setting an entry sets that of its step and no other.
LEMMA WithEntryOK ==
    ASSUME NEW q \in Lists, NEW e \in Entries
    PROVE  /\ WithEntry(q, e) \in Lists
           /\ \A x \in StepIds :
                 /\ EntryOf(WithEntry(q, e), x) = IF x = e.step THEN e ELSE EntryOf(q, x)
                 /\ Listed(WithEntry(q, e), x) <=> Listed(q, x) \/ x = e.step
<1> DEFINE r == WithEntry(q, e)
<1>1. /\ q \in Seq(Entries) /\ Distinct(q) /\ Len(q) \in Nat /\ DOMAIN q = 1..Len(q)
      /\ e.step \in StepIds /\ \A i \in DOMAIN q : q[i] \in Entries
  BY PlacesOf DEF Lists, Entries
<1>2. /\ r \in Lists
      /\ \E k \in DOMAIN r : r[k] = e
      /\ \A x \in StepIds : x # e.step =>
            /\ \A i \in DOMAIN q : q[i].step = x => \E j \in DOMAIN r : r[j] = q[i]
            /\ \A j \in DOMAIN r : r[j].step = x => \E i \in DOMAIN q : r[j] = q[i]
  <2>1. CASE Listed(q, e.step)
    <3>1. PICK k \in DOMAIN q : q[k].step = e.step
      BY <2>1 DEF Listed
    <3>2. r = [q EXCEPT ![k] = e]
      BY <3>1, ReplacedIs
    <3>3. /\ r \in Seq(Entries) /\ DOMAIN r = DOMAIN q /\ r[k] = e
          /\ \A j \in DOMAIN q : j # k => r[j] = q[j]
      BY <1>1, <3>2, ExceptSeq, LenProperties
    <3> HIDE DEF r
    <3>4. \A j \in DOMAIN q : r[j].step = q[j].step
      BY <3>1, <3>3
    <3>5. r \in Lists
      BY <1>1, <3>3, <3>4 DEF Lists, Distinct
    <3> QED
      BY <3>1, <3>3, <3>4, <3>5
  <2>2. CASE ~Listed(q, e.step)
    <3>1. r = Append(q, e)
      BY <2>2 DEF WithEntry
    <3>2. /\ r \in Seq(Entries) /\ Len(r) = Len(q) + 1 /\ r[Len(q) + 1] = e
          /\ \A j \in 1..Len(q) : r[j] = q[j]
      BY <1>1, <3>1, AppendProperties
    <3> HIDE DEF r
    <3>3. DOMAIN r = 1..(Len(q) + 1)
      BY <3>2, LenProperties
    <3>4. \A j \in DOMAIN r : j \in DOMAIN q \/ j = Len(q) + 1
      BY <1>1, <3>3
    <3>5. \A j \in DOMAIN q : j \in DOMAIN r /\ r[j] = q[j] /\ q[j].step # e.step
      BY <1>1, <2>2, <3>2, <3>3 DEF Listed
    <3>6. Len(q) + 1 \in DOMAIN r
      BY <1>1, <3>3
    <3>7. Distinct(r)
      <4>1. SUFFICES ASSUME NEW i \in DOMAIN r, NEW j \in DOMAIN r, r[i].step = r[j].step
                     PROVE  i = j
        BY DEF Distinct
      <4>2. r[i].step = r[j].step
        BY <4>1
      <4>3. CASE i \in DOMAIN q /\ j \in DOMAIN q
        BY <1>1, <3>5, <4>2, <4>3 DEF Distinct
      <4>4. CASE i = Len(q) + 1 \/ j = Len(q) + 1
        BY <3>2, <3>4, <3>5, <4>2, <4>4
      <4> QED
        BY <3>4, <4>3, <4>4
    <3> QED
      BY <3>2, <3>4, <3>5, <3>6, <3>7 DEF Lists
  <2> QED
    BY <2>1, <2>2
<1> HIDE DEF r
<1>4. \A x \in StepIds :
         /\ \A i \in DOMAIN q : q[i].step = x => EntryOf(q, x) = q[i]
         /\ \A i \in DOMAIN r : r[i].step = x => EntryOf(r, x) = r[i]
  <2>1. r \in Lists
    BY <1>2
  <2>2. \A x \in StepIds : \A i \in DOMAIN q : q[i].step = x => EntryOf(q, x) = q[i]
    BY EntryFound
  <2>3. \A x \in StepIds : \A i \in DOMAIN r : r[i].step = x => EntryOf(r, x) = r[i]
    BY <2>1, EntryFound
  <2> QED
    BY <2>2, <2>3
<1>3. ASSUME NEW x \in StepIds
      PROVE  /\ EntryOf(r, x) = IF x = e.step THEN e ELSE EntryOf(q, x)
             /\ Listed(r, x) <=> Listed(q, x) \/ x = e.step
  <2>1. CASE x = e.step
    <3>1. PICK k \in DOMAIN r : r[k] = e
      BY <1>2
    <3>2. EntryOf(r, x) = r[k]
      BY <1>4, <2>1, <3>1
    <3> QED
      BY <2>1, <3>1, <3>2 DEF Listed
  <2>2. CASE x # e.step
    <3>1. Listed(r, x) <=> Listed(q, x)
      BY <1>2, <2>2 DEF Listed
    <3>2. ASSUME Listed(q, x) PROVE EntryOf(r, x) = EntryOf(q, x)
      <4>1. PICK i \in DOMAIN q : q[i].step = x
        BY <3>2 DEF Listed
      <4>2. PICK j \in DOMAIN r : r[j] = q[i]
        BY <1>2, <2>2, <4>1
      <4>3. EntryOf(q, x) = q[i] /\ EntryOf(r, x) = r[j]
        BY <1>4, <4>1, <4>2
      <4> QED
        BY <4>2, <4>3
    <3>3. ASSUME ~Listed(q, x) PROVE EntryOf(r, x) = EntryOf(q, x)
      BY <3>1, <3>3 DEF EntryOf
    <3> QED
      BY <2>2, <3>1, <3>2, <3>3
  <2> QED
    BY <2>1, <2>2
<1> QED
  BY <1>2, <1>3 DEF r

-----------------------------------------------------------------------------
(***************************************************************************)
(* The errors of a list.                                                    *)
(***************************************************************************)
Summing == [p \in Nat \X Entries |-> p[1] + p[2].errors]

Total(q) == Fold(Summing, 0, q)

LEMMA SummingIs ==
    ASSUME NEW n \in Nat, NEW e \in Entries
    PROVE  Summing[<<n, e>>] = n + e.errors /\ Summing[<<n, e>>] \in Nat
<1>1. <<n, e>> \in Nat \X Entries /\ e.errors \in Nat
  BY DEF Entries
<1> QED
  BY <1>1 DEF Summing

\* errorCount is the fold of the entries' errors,
LEMMA ErrorCountIs ==
    ASSUME NEW t, t.enigmes \in Seq(Entries)
    PROVE  ErrorCount(t) = Total(t.enigmes) /\ ErrorCount(t) \in Nat
<1> DEFINE q == t.enigmes
           D == DOMAIN q
           Sums(g) == g = [s \in SUBSET D |-> IF s = {} THEN 0
                                            ELSE g[s \ {Max(s)}] + q[Max(s)].errors]
<1>1. ErrorCount(t) = (CHOOSE g : Sums(g))[D]
  BY DEF ErrorCount, FoldLeft, MapThenFoldSet
<1> HIDE DEF q
<1>2. q \in Seq(Entries)
  BY DEF q
<1>3. Stays(Summing, 0, Entries, Nat)
  BY SummingIs DEF Stays
<1>4. Indices(D) /\ \A s \in (SUBSET D) \ {{}} : q[Max(s)] \in Entries
  BY <1>2, PlacesOf, IndicesPart, MaxMember
<1>5. PICK h : Iterates(Summing, 0, q, D, h)
  BY <1>4, IterationExists
<1>6. \A s \in SUBSET D : h[s] \in Nat
  BY <1>2, <1>3, <1>5, IterationInto
<1>7. Sums(h)
  <2>1. \A s \in SUBSET D : (IF s = {} THEN 0 ELSE Summing[<<h[s \ {Max(s)}], q[Max(s)]>>])
                          = (IF s = {} THEN 0 ELSE h[s \ {Max(s)}] + q[Max(s)].errors)
    BY <1>4, <1>6, SummingIs
  <2> QED
    BY <1>5, <2>1 DEF Iterates
<1>8. PICK g : g = (CHOOSE f : Sums(f)) /\ Sums(g)
  <2> HIDE DEF Sums
  <2> QED
    BY <1>7, Zenon
<1>9. OnParts(g, D)
  BY <1>8 DEF OnParts
<1>10. \A s \in SUBSET D : g[s] = IF s = {} THEN 0 ELSE g[s \ {Max(s)}] + q[Max(s)].errors
  BY <1>8
<1> HIDE DEF Sums
<1>11. Reads(g, Summing, 0, q, Nat)
  <2>1. \A s \in (SUBSET D) \ {{}} : s \in SUBSET D /\ s # {}
    OBVIOUS
  <2> QED
    BY <1>4, <1>9, <1>10, <2>1, SummingIs DEF Reads
<1>12. g[D] = Fold(Summing, 0, q) /\ Fold(Summing, 0, q) \in Nat
  BY <1>2, <1>3, <1>11, FoldRead, FoldInto
<1> QED
  BY <1>1, <1>8, <1>12 DEF Total, q

\* which adds an entry's errors,
LEMMA TotalAppends ==
    ASSUME NEW q \in Seq(Entries), NEW e \in Entries
    PROVE  Total(q) \in Nat /\ Total(Append(q, e)) = Total(q) + e.errors
<1>1. Stays(Summing, 0, Entries, Nat)
  BY SummingIs DEF Stays
<1>2. Total(q) \in Nat
  BY <1>1, FoldInto DEF Total
<1>3. Total(Append(q, e)) = Summing[<<Total(q), e>>]
  BY FoldAppend DEF Total
<1> QED
  BY <1>2, <1>3, SummingIs

\* or exchanges them for those of the entry it replaces,
LEMMA TotalReplaced ==
    ASSUME NEW q \in Seq(Entries), NEW k \in DOMAIN q, NEW e \in Entries
    PROVE  Total([q EXCEPT ![k] = e]) + q[k].errors = Total(q) + e.errors
<1> DEFINE Q == {p \in Seq(Entries) :
                    \A i \in DOMAIN p : Total([p EXCEPT ![i] = e]) + p[i].errors
                                        = Total(p) + e.errors}
<1>1. <<>> \in Q
  OBVIOUS
<1>2. ASSUME NEW p \in Seq(Entries), p \in Q, NEW f \in Entries PROVE Append(p, f) \in Q
  <2> DEFINE r == Append(p, f)
  <2>1. /\ r \in Seq(Entries) /\ Len(r) = Len(p) + 1 /\ r[Len(p) + 1] = f
        /\ \A i \in 1..Len(p) : r[i] = p[i]
    BY AppendProperties
  <2>2. Total(p) \in Nat /\ Total(r) = Total(p) + f.errors
    BY TotalAppends
  <2> HIDE DEF r
  <2>3. Len(p) \in Nat /\ DOMAIN p = 1..Len(p) /\ DOMAIN r = 1..(Len(p) + 1)
    BY <2>1, PlacesOf
  <2>4. e.errors \in Nat /\ f.errors \in Nat
    BY DEF Entries
  <2>5. ASSUME NEW i \in DOMAIN r
        PROVE  Total([r EXCEPT ![i] = e]) + r[i].errors = Total(r) + e.errors
    <3>1. CASE i = Len(p) + 1
      <4> DEFINE m == [r EXCEPT ![i] = e]
                 n == Append(p, e)
      <4>1. /\ m \in Seq(Entries) /\ Len(m) = Len(p) + 1
            /\ \A j \in 1..(Len(p) + 1) : m[j] = IF j = i THEN e ELSE r[j]
        BY <2>1, <2>3, ExceptSeq
      <4>2. /\ n \in Seq(Entries) /\ Len(n) = Len(p) + 1 /\ n[Len(p) + 1] = e
            /\ \A j \in 1..Len(p) : n[j] = p[j]
        BY AppendProperties
      <4>3. Total(n) = Total(p) + e.errors
        BY TotalAppends
      <4> HIDE DEF m, n
      <4>4. ASSUME NEW j \in 1..Len(m) PROVE m[j] = n[j]
        <5>0. Len(m) = Len(p) + 1 /\ Len(p) \in Nat
          BY <2>3, <4>1
        <5>1. j \in 1..(Len(p) + 1) /\ (j = Len(p) + 1 \/ (j \in 1..Len(p) /\ j # i))
          BY <3>1, <4>4, <5>0
        <5> QED
          BY <2>1, <3>1, <4>1, <4>2, <5>1
      <4>5. m = n
        BY <4>1, <4>2, <4>4, SeqEqual
      <4>6. r[i] = f
        BY <2>1, <3>1
      <4>7. Total(m) + f.errors = Total(r) + e.errors
        BY <2>2, <2>4, <4>3, <4>5
      <4> QED
        BY <4>6, <4>7 DEF m
    <3>2. CASE i \in DOMAIN p
      <4> DEFINE c == [p EXCEPT ![i] = e]
      <4>1. c \in Seq(Entries) /\ Total(c) + p[i].errors = Total(p) + e.errors
        BY <1>2, <2>3, <3>2, ExceptSeq
      <4>0. Len(c) = Len(p) /\ \A j \in 1..Len(p) : c[j] = IF j = i THEN e ELSE p[j]
        BY <2>3, <3>2, ExceptSeq
      <4> DEFINE m == [r EXCEPT ![i] = e]
                 n == Append(c, f)
      <4>2. /\ m \in Seq(Entries) /\ Len(m) = Len(p) + 1
            /\ \A j \in 1..(Len(p) + 1) : m[j] = IF j = i THEN e ELSE r[j]
        BY <2>1, <2>3, ExceptSeq
      <4> HIDE DEF c, Q
      <4>3. /\ n \in Seq(Entries) /\ Len(n) = Len(c) + 1 /\ n[Len(c) + 1] = f
            /\ \A j \in 1..Len(c) : n[j] = c[j]
        BY <4>1, AppendProperties
      <4>4. Total(c) \in Nat /\ Total(n) = Total(c) + f.errors
        BY <4>1, TotalAppends
      <4> HIDE DEF m, n
      <4>5. ASSUME NEW j \in 1..Len(m) PROVE m[j] = n[j]
        <5>1. j \in 1..(Len(p) + 1) /\ ((j = Len(p) + 1 /\ j # i) \/ j \in 1..Len(p))
          BY <2>3, <3>2, <4>2, <4>5
        <5> QED
          BY <2>1, <4>0, <4>2, <4>3, <5>1
      <4>6. m = n
        BY <4>0, <4>2, <4>3, <4>5, SeqEqual
      <4>7. p[i] \in Entries
        BY <3>2, PlacesOf
      <4>8. r[i] = p[i] /\ p[i].errors \in Nat
        BY <2>1, <2>3, <3>2, <4>7 DEF Entries
      <4>10. Total(m) = Total(c) + f.errors /\ Total(m) \in Nat /\ Total(r) \in Nat
        BY <2>2, <2>4, <4>4, <4>6
      <4>9. Total(m) + p[i].errors = Total(r) + e.errors
        <5>1. Total(c) + p[i].errors = Total(p) + e.errors
          BY <4>1
        <5> DEFINE a == Total(m)
                   b == Total(c)
                   d == p[i].errors
                   x == e.errors
                   y == f.errors
                   u == Total(p)
                   v == Total(r)
        <5>2. /\ a \in Nat /\ b \in Nat /\ d \in Nat /\ u \in Nat /\ v \in Nat
              /\ x \in Nat /\ y \in Nat
              /\ a = b + y /\ b + d = u + x /\ v = u + y
          BY <2>2, <2>4, <4>4, <4>8, <4>10, <5>1
        <5> HIDE DEF a, b, d, x, y, u, v
        <5>3. a + d = v + x
          BY <5>2
        <5> QED
          BY <5>3 DEF a, d, v, x
      <4> QED
        BY <4>8, <4>9 DEF m
    <3> QED
      BY <2>3, <3>1, <3>2
  <2> QED
    BY <2>1, <2>5 DEF r
<1>3. Seq(Entries) \subseteq Q
  <2> HIDE DEF Q
  <2> QED
    BY <1>1, <1>2, AllSequences
<1> QED
  BY <1>3

\* so that setting an entry adds what it has gained.
LEMMA TotalWithEntry ==
    ASSUME NEW q \in Lists, NEW e \in Entries
    PROVE  Total(WithEntry(q, e)) + EntryOf(q, e.step).errors = Total(q) + e.errors
<1> DEFINE x == e.step
<1>1. q \in Seq(Entries) /\ x \in StepIds /\ e.errors \in Nat
  BY DEF Lists, Entries
<1>2. Total(q) \in Nat /\ Total(Append(q, e)) = Total(q) + e.errors
  BY <1>1, TotalAppends
<1> HIDE DEF x
<1>3. /\ \A k \in DOMAIN q : q[k].step = x => EntryOf(q, x) = q[k]
      /\ ~Listed(q, x) => EntryOf(q, x).errors = 0
  <2>1. \A k \in DOMAIN q : q[k].step = x => EntryOf(q, x) = q[k]
    BY <1>1, EntryFound
  <2>2. ~Listed(q, x) => EntryOf(q, x).errors = 0
    BY <1>1, EntryFound
  <2> QED
    BY <2>1, <2>2
<1>4. ASSUME NEW k \in DOMAIN q, q[k].step = x
      PROVE  Total(WithEntry(q, e)) + EntryOf(q, x).errors = Total(q) + e.errors
  <2>1. WithEntry(q, e) = [q EXCEPT ![k] = e]
    BY <1>4, ReplacedIs DEF x
  <2>2. EntryOf(q, x) = q[k]
    BY <1>3, <1>4
  <2>3. Total([q EXCEPT ![k] = e]) + q[k].errors = Total(q) + e.errors
    BY <1>1, TotalReplaced
  <2> QED
    BY <2>1, <2>2, <2>3
<1>5. ASSUME ~Listed(q, x)
      PROVE  Total(WithEntry(q, e)) + EntryOf(q, x).errors = Total(q) + e.errors
  <2>1. WithEntry(q, e) = Append(q, e)
    BY <1>5 DEF WithEntry, x
  <2>2. Total(WithEntry(q, e)) = Total(q) + e.errors
    BY <1>2, <2>1
  <2>3. EntryOf(q, x).errors = 0
    BY <1>3, <1>5
  <2> QED
    BY <1>1, <1>2, <2>2, <2>3
<1> QED
  BY <1>4, <1>5 DEF Listed, x

-----------------------------------------------------------------------------
(***************************************************************************)
(* The figures of a team, and what one event adds to them.                  *)
(***************************************************************************)
Tables(team) ==
    [teamId : {team}, score : Nat, completed : BOOLEAN, phishingClicks : Nat, enigmes : Lists]

Blank(team) ==
    [teamId |-> team, score |-> 0, completed |-> FALSE, phishingClicks |-> 0, enigmes |-> <<>>]

Counting(team) == [p \in Tables(team) \X Events |-> CountEvent(p[1], p[2])]

\* An event carries what its kind is about.
LEMMA EventFields ==
    ASSUME NEW ev \in Events
    PROVE  /\ ev.kind \in {"enigme-solved", "enigme-error", "phishing-clicked", "session-complete"}
           /\ ev.kind \in {"enigme-solved", "enigme-error"} =>
                 ev.about \in StepIds /\ ev.attempts \in Nat
           /\ ev.kind = "session-complete" => ev.about \in Nat
  BY DEF Events

\* What an event makes of the entry of its step.
Told(e, ev) == IF ev.kind = "enigme-solved" THEN SolvedEntry(e, ev) ELSE ErrorEntry(e, ev)

LEMMA ToldOK ==
    ASSUME NEW e \in Entries, NEW ev \in Events, ev.kind \in {"enigme-solved", "enigme-error"}
    PROVE  /\ Told(e, ev) \in Entries /\ Told(e, ev).step = e.step
           /\ Told(e, ev).errors = e.errors + IF ev.kind = "enigme-error" THEN 1 ELSE 0
           /\ Told(e, ev).solved <=> e.solved \/ ev.kind = "enigme-solved"
           /\ Told(e, ev).attempts = IF ev.kind = "enigme-error" /\ ev.attempts <= e.attempts
                                     THEN e.attempts ELSE ev.attempts
<1>1. /\ ev.attempts \in Nat /\ e.step \in StepIds /\ e.attempts \in Nat
      /\ e.errors \in Nat /\ e.solved \in BOOLEAN
      /\ e = [step |-> e.step, attempts |-> e.attempts, errors |-> e.errors, solved |-> e.solved]
  BY EventFields DEF Entries
<1>2. CASE ev.kind = "enigme-solved"
  <2>1. Told(e, ev) = [step |-> e.step, attempts |-> ev.attempts, errors |-> e.errors,
                       solved |-> TRUE]
    BY <1>1, <1>2 DEF Told, SolvedEntry
  <2> QED
    BY <1>1, <1>2, <2>1 DEF Entries
<1>3. CASE ev.kind = "enigme-error"
  <2> DEFINE a == IF ev.attempts > e.attempts THEN ev.attempts ELSE e.attempts
  <2>1. Told(e, ev) = [step |-> e.step, attempts |-> a, errors |-> e.errors + 1,
                       solved |-> e.solved]
    BY <1>1, <1>3 DEF Told, ErrorEntry
  <2>2. a \in Nat /\ a = IF ev.attempts <= e.attempts THEN e.attempts ELSE ev.attempts
    BY <1>1
  <2> HIDE DEF a
  <2> QED
    BY <1>1, <1>3, <2>1, <2>2 DEF Entries
<1> QED
  BY <1>2, <1>3

\* What one event changes of a team's figures.
LEMMA CountEventIs ==
    ASSUME NEW team, NEW t \in Tables(team), NEW ev \in Events
    PROVE  LET r == CountEvent(t, ev)
           IN  /\ r \in Tables(team)
               /\ r.score = IF ev.kind = "session-complete" THEN ev.about ELSE t.score
               /\ r.completed <=> t.completed \/ ev.kind = "session-complete"
               /\ r.phishingClicks = t.phishingClicks
                                     + IF ev.kind = "phishing-clicked" THEN 1 ELSE 0
               /\ r.enigmes = IF ev.kind \in {"enigme-solved", "enigme-error"}
                              THEN WithEntry(t.enigmes, Told(EntryOf(t.enigmes, ev.about), ev))
                              ELSE t.enigmes
<1> DEFINE r == CountEvent(t, ev)
<1>1. /\ t.enigmes \in Lists /\ t.score \in Nat /\ t.completed \in BOOLEAN
      /\ t.phishingClicks \in Nat /\ t.teamId = team
  BY DEF Tables
<1>2. CASE ev.kind = "phishing-clicked"
  <2>1. r = [t EXCEPT !.phishingClicks = @ + 1]
    BY <1>2 DEF CountEvent
  <2> QED
    BY <1>1, <1>2, <2>1 DEF Tables
<1>3. CASE ev.kind = "session-complete"
  <2>1. r = [t EXCEPT !.completed = TRUE, !.score = ev.about] /\ ev.about \in Nat
    BY <1>3, EventFields DEF CountEvent
  <2>2. r \in Tables(team)
    BY <1>1, <2>1 DEF Tables
  <2>3. /\ r.score = ev.about /\ r.completed = TRUE /\ r.enigmes = t.enigmes
        /\ r.phishingClicks = t.phishingClicks
    BY <1>1, <2>1 DEF Tables
  <2> QED
    BY <1>1, <1>3, <2>2, <2>3
<1>4. CASE ev.kind \in {"enigme-solved", "enigme-error"}
  <2> DEFINE w == WithEntry(t.enigmes, Told(EntryOf(t.enigmes, ev.about), ev))
  <2>1. r = [t EXCEPT !.enigmes = w]
    BY <1>4 DEF CountEvent, Told
  <2>2. EntryOf(t.enigmes, ev.about) \in Entries
    BY <1>1, <1>4, EventFields, EntryFound
  <2>3. Told(EntryOf(t.enigmes, ev.about), ev) \in Entries
    BY <1>4, <2>2, ToldOK
  <2>4. w \in Lists
    BY <1>1, <2>3, WithEntryOK
  <2> HIDE DEF w
  <2>5. r \in Tables(team) /\ r.enigmes = w /\ r.score = t.score
        /\ r.completed = t.completed /\ r.phishingClicks = t.phishingClicks
    BY <1>1, <2>1, <2>4 DEF Tables
  <2> QED
    BY <1>1, <1>4, <2>5 DEF w
<1> QED
  BY <1>2, <1>3, <1>4, EventFields

\* Every event keeps the figures well-formed.
LEMMA CountingStays ==
    ASSUME NEW team PROVE Stays(Counting(team), Blank(team), Events, Tables(team))
<1>1. Blank(team) \in Tables(team)
  <2>1. <<>> \in Lists
    BY EmptySeq DEF Lists, Distinct
  <2> QED
    BY <2>1 DEF Blank, Tables
<1>2. \A t \in Tables(team), ev \in Events :
         Counting(team)[<<t, ev>>] = CountEvent(t, ev) /\ CountEvent(t, ev) \in Tables(team)
  <2>1. TAKE t \in Tables(team), ev \in Events
  <2>2. Counting(team)[<<t, ev>>] = CountEvent(t, ev)
    BY DEF Counting
  <2> QED
    BY <2>2, CountEventIs
<1> QED
  BY <1>1, <1>2 DEF Stays

LEMMA CountingIs ==
    ASSUME NEW team, NEW t \in Tables(team), NEW ev \in Events
    PROVE  Counting(team)[<<t, ev>>] = CountEvent(t, ev)
  BY DEF Counting

\* computeTeamStats is the fold of the events, and one event more is one step more.
LEMMA TeamStatsIs ==
    ASSUME NEW team, NEW l \in Seq(Events)
    PROVE  /\ TeamStats(team, l) = Fold(Counting(team), Blank(team), l)
           /\ TeamStats(team, l) \in Tables(team)
<1> DEFINE b == Blank(team)
           F == Counting(team)
           D == DOMAIN l
           Runs(g) == g = [s \in SUBSET D |-> IF s = {} THEN b
                                            ELSE CountEvent(g[s \ {Max(s)}], l[Max(s)])]
<1>1. TeamStats(team, l) = (CHOOSE g : Runs(g))[D]
  BY DEF TeamStats, FoldLeft, MapThenFoldSet, Blank
<1>2. Stays(F, b, Events, Tables(team))
  BY CountingStays
<1>3. Indices(D) /\ \A s \in (SUBSET D) \ {{}} : l[Max(s)] \in Events
  BY PlacesOf, IndicesPart, MaxMember
<1>4. PICK h : Iterates(F, b, l, D, h)
  BY <1>3, IterationExists
<1> HIDE DEF b, F
<1>5. \A s \in SUBSET D : h[s] \in Tables(team)
  BY <1>2, <1>4, IterationInto
<1>6. \A t \in Tables(team), ev \in Events : F[<<t, ev>>] = CountEvent(t, ev)
  BY CountingIs DEF F
<1>7. Runs(h)
  <2>1. \A s \in SUBSET D : (IF s = {} THEN b ELSE F[<<h[s \ {Max(s)}], l[Max(s)]>>])
                          = (IF s = {} THEN b ELSE CountEvent(h[s \ {Max(s)}], l[Max(s)]))
    BY <1>3, <1>5, <1>6
  <2> QED
    BY <1>4, <2>1 DEF Iterates
<1>8. PICK g : g = (CHOOSE f : Runs(f)) /\ Runs(g)
  <2> HIDE DEF Runs
  <2> QED
    BY <1>7, Zenon
<1>9. OnParts(g, D)
  BY <1>8 DEF OnParts
<1>10. \A s \in SUBSET D : g[s] = IF s = {} THEN b ELSE CountEvent(g[s \ {Max(s)}], l[Max(s)])
  BY <1>8
<1> HIDE DEF Runs
<1>11. Reads(g, F, b, l, Tables(team))
  <2>1. \A s \in (SUBSET D) \ {{}} : s \in SUBSET D /\ s # {}
    OBVIOUS
  <2> QED
    BY <1>3, <1>6, <1>9, <1>10, <2>1 DEF Reads
<1>12. g[D] = Fold(F, b, l) /\ Fold(F, b, l) \in Tables(team)
  BY <1>2, <1>11, FoldRead, FoldInto
<1> QED
  BY <1>1, <1>8, <1>12 DEF F, b

LEMMA StatsOfNone ==
    ASSUME NEW team PROVE TeamStats(team, <<>>) = Blank(team)
<1>1. <<>> \in Seq(Events)
  OBVIOUS
<1> QED
  BY <1>1, TeamStatsIs, FoldEmpty

LEMMA StatsAppend ==
    ASSUME NEW team, NEW l \in Seq(Events), NEW ev \in Events
    PROVE  TeamStats(team, Append(l, ev)) = CountEvent(TeamStats(team, l), ev)
<1>1. Append(l, ev) \in Seq(Events)
  BY AppendProperties
<1>2. TeamStats(team, Append(l, ev)) = Fold(Counting(team), Blank(team), Append(l, ev))
  BY <1>1, TeamStatsIs
<1>3. /\ TeamStats(team, l) = Fold(Counting(team), Blank(team), l)
      /\ TeamStats(team, l) \in Tables(team)
  BY TeamStatsIs
<1> DEFINE F == Counting(team)
           b == Blank(team)
<1> HIDE DEF F, b
<1>4. Fold(F, b, Append(l, ev)) = F[<<Fold(F, b, l), ev>>]
  BY FoldAppend
<1> QED
  BY <1>2, <1>3, <1>4, CountingIs DEF F, b

-----------------------------------------------------------------------------
(***************************************************************************)
(* The figures of a team tell its log.                                      *)
(***************************************************************************)
SlipKinds == {"enigme-error", "phishing-clicked"}

Slips(l) == Cardinality({i \in DOMAIN l : l[i].kind \in SlipKinds})

LEMMA SlipsAppend ==
    ASSUME NEW l \in Seq(Events), NEW e \in Events
    PROVE  /\ Slips(l) \in Nat
           /\ Slips(Append(l, e)) = Slips(l) + IF e.kind \in SlipKinds THEN 1 ELSE 0
<1> DEFINE S == {i \in DOMAIN l : l[i].kind \in SlipKinds}
           m == Append(l, e)
           T == {i \in DOMAIN m : m[i].kind \in SlipKinds}
<1>1. Len(l) \in Nat /\ DOMAIN l = 1..Len(l)
  BY LenProperties
<1>2. /\ Len(m) = Len(l) + 1 /\ DOMAIN m = 1..(Len(l) + 1)
      /\ \A i \in 1..Len(l) : m[i] = l[i]
      /\ m[Len(l) + 1] = e
  BY <1>1, AppendProperties
<1> HIDE DEF m
<1>3. IsFiniteSet(S) /\ Len(l) + 1 \notin S /\ Cardinality(S) \in Nat
  <2>1. IsFiniteSet(1..Len(l)) /\ S \in SUBSET (1..Len(l))
    BY <1>1, FS_Interval
  <2>2. IsFiniteSet(S)
    BY <2>1, FS_Subset
  <2> QED
    BY <1>1, <2>1, <2>2, FS_CardinalityType
<1>4. T = IF e.kind \in SlipKinds THEN S \cup {Len(l) + 1} ELSE S
  <2>1. \A i \in DOMAIN m : i \in DOMAIN l \/ i = Len(l) + 1
    BY <1>1, <1>2
  <2>2. DOMAIN l \subseteq DOMAIN m /\ Len(l) + 1 \in DOMAIN m
    BY <1>1, <1>2
  <2> QED
    BY <1>1, <1>2, <2>1, <2>2
<1>5. Cardinality(T) = Cardinality(S) + IF e.kind \in SlipKinds THEN 1 ELSE 0
  <2> HIDE DEF S, T
  <2>1. Cardinality(S \cup {Len(l) + 1}) = Cardinality(S) + 1
    BY <1>3, FS_AddElement
  <2> QED
    BY <1>3, <1>4, <2>1
<1> QED
  BY <1>3, <1>5 DEF Slips, m

Ends(l, i) == i \in DOMAIN l /\ l[i].kind = "session-complete"

EndsWith(l, score) == \E i : Ends(l, i) /\ l[i].about = score

EntryTells(t, l, x) ==
    /\ EntryOf(t.enigmes, x).errors = Occurrences(l, "enigme-error", x)
    /\ EntryOf(t.enigmes, x).solved <=> Solved(l, x)
    /\ Listed(t.enigmes, x) <=> Occurrences(l, "enigme-error", x) > 0 \/ Solved(l, x)

Tells(t, l) ==
    /\ t.completed <=> \E i : Ends(l, i)
    /\ t.completed => EndsWith(l, t.score)
    /\ ~t.completed => t.score = 0
    /\ \A x \in StepIds : EntryTells(t, l, x)
    /\ Total(t.enigmes) + t.phishingClicks = Slips(l)

LEMMA EndsAppend ==
    ASSUME NEW l \in Seq(Events), NEW e \in Events
    PROVE  /\ (\E i : Ends(Append(l, e), i)) <=> (\E i : Ends(l, i)) \/ e.kind = "session-complete"
           /\ \A v : EndsWith(Append(l, e), v) <=>
                        EndsWith(l, v) \/ (e.kind = "session-complete" /\ e.about = v)
<1> DEFINE m == Append(l, e)
<1>1. /\ Len(l) \in Nat /\ DOMAIN l = 1..Len(l)
      /\ Len(m) = Len(l) + 1 /\ m \in Seq(Events)
      /\ \A i \in 1..Len(l) : m[i] = l[i]
      /\ m[Len(l) + 1] = e
  BY LenProperties, AppendProperties
<1> HIDE DEF m
<1>2. DOMAIN m = 1..(Len(l) + 1)
  BY <1>1, LenProperties
<1>3. \A i : i \in DOMAIN m <=> i \in DOMAIN l \/ i = Len(l) + 1
  BY <1>1, <1>2
<1>4. \A i \in DOMAIN l : m[i] = l[i]
  BY <1>1
<1>5. \A i : Ends(m, i) <=> Ends(l, i) \/ (i = Len(l) + 1 /\ e.kind = "session-complete")
  BY <1>1, <1>3, <1>4 DEF Ends
<1>6. \A i : Ends(l, i) => m[i] = l[i]
  BY <1>4 DEF Ends
<1> QED
  BY <1>1, <1>5, <1>6 DEF m, EndsWith

\* One event keeps the entries telling of the log,
LEMMA EntryTold ==
    ASSUME NEW team, NEW t \in Tables(team), NEW l \in Seq(Events), NEW ev \in Events,
           NEW x \in StepIds, EntryTells(t, l, x)
    PROVE  EntryTells(CountEvent(t, ev), Append(l, ev), x)
<1> DEFINE r == CountEvent(t, ev)
           m == Append(l, ev)
           q == t.enigmes
           err == Occurrences(l, "enigme-error", x)
           sol == Occurrences(l, "enigme-solved", x)
<1>1. /\ r.enigmes = IF ev.kind \in {"enigme-solved", "enigme-error"}
                     THEN WithEntry(q, Told(EntryOf(q, ev.about), ev)) ELSE q
      /\ q \in Lists
  BY CountEventIs DEF Tables
<1>2. /\ Occurrences(m, "enigme-error", x)
            = err + IF ev.kind = "enigme-error" /\ ev.about = x THEN 1 ELSE 0
      /\ Occurrences(m, "enigme-solved", x)
            = sol + IF ev.kind = "enigme-solved" /\ ev.about = x THEN 1 ELSE 0
      /\ err \in Nat /\ sol \in Nat
  BY OccurrencesAppend, OccurrencesFinite
<1>3. /\ EntryOf(q, x).errors = err /\ (EntryOf(q, x).solved <=> sol > 0)
      /\ Listed(q, x) <=> err > 0 \/ sol > 0
  BY DEF EntryTells, Solved
<1> HIDE DEF m, r, q, err, sol
<1>4. CASE ev.kind \in {"enigme-solved", "enigme-error"}
  <2> DEFINE y == ev.about
             e == Told(EntryOf(q, y), ev)
             w == WithEntry(q, e)
  <2>1. y \in StepIds
    BY <1>4, EventFields
  <2>2. EntryOf(q, y) \in Entries /\ EntryOf(q, y).step = y
    BY <1>1, <2>1, EntryFound
  <2>3. /\ e \in Entries /\ e.step = y
        /\ e.errors = EntryOf(q, y).errors + IF ev.kind = "enigme-error" THEN 1 ELSE 0
        /\ e.solved <=> EntryOf(q, y).solved \/ ev.kind = "enigme-solved"
    BY <1>4, <2>2, ToldOK
  <2> HIDE DEF e
  <2>4. /\ EntryOf(w, x) = IF x = e.step THEN e ELSE EntryOf(q, x)
        /\ Listed(w, x) <=> Listed(q, x) \/ x = e.step
    BY <1>1, <2>3, WithEntryOK
  <2>5. r.enigmes = w
    BY <1>1, <1>4 DEF e
  <2> HIDE DEF w
  <2>6. CASE x = y
    <3>1. EntryOf(w, x) = e /\ Listed(w, x)
      BY <2>3, <2>4, <2>6
    <3>2. /\ e.errors = err + IF ev.kind = "enigme-error" THEN 1 ELSE 0
          /\ e.solved <=> sol > 0 \/ ev.kind = "enigme-solved"
      BY <1>3, <2>3, <2>6
    <3>3. /\ Occurrences(m, "enigme-error", x) = e.errors
          /\ Occurrences(m, "enigme-solved", x) > 0 <=> e.solved
          /\ Occurrences(m, "enigme-error", x) > 0 \/ Occurrences(m, "enigme-solved", x) > 0
      BY <1>2, <1>4, <2>6, <3>2
    <3> QED
      BY <2>5, <3>1, <3>3 DEF EntryTells, Solved, m, r
  <2>7. CASE x # y
    <3>1. EntryOf(w, x) = EntryOf(q, x) /\ (Listed(w, x) <=> Listed(q, x))
      BY <2>3, <2>4, <2>7
    <3>2. Occurrences(m, "enigme-error", x) = err /\ Occurrences(m, "enigme-solved", x) = sol
      BY <1>2, <2>7
    <3> QED
      BY <1>3, <2>5, <3>1, <3>2 DEF EntryTells, Solved, m, r
  <2> QED
    BY <2>6, <2>7
<1>5. CASE ev.kind \notin {"enigme-solved", "enigme-error"}
  <2>1. Occurrences(m, "enigme-error", x) = err /\ Occurrences(m, "enigme-solved", x) = sol
    BY <1>2, <1>5
  <2>2. r.enigmes = q
    BY <1>1, <1>5
  <2> QED
    BY <1>3, <2>1, <2>2 DEF EntryTells, Solved, m, r
<1> QED
  BY <1>4, <1>5

\* and the sum of the mistakes.
LEMMA SlipsTold ==
    ASSUME NEW team, NEW t \in Tables(team), NEW l \in Seq(Events), NEW ev \in Events,
           Total(t.enigmes) + t.phishingClicks = Slips(l)
    PROVE  Total(CountEvent(t, ev).enigmes) + CountEvent(t, ev).phishingClicks
              = Slips(Append(l, ev))
<1> DEFINE r == CountEvent(t, ev)
           q == t.enigmes
           c == Total(q)
           d == Total(r.enigmes)
           n == t.phishingClicks
           k == Slips(l)
<1>1. /\ r.enigmes = IF ev.kind \in {"enigme-solved", "enigme-error"}
                     THEN WithEntry(q, Told(EntryOf(q, ev.about), ev)) ELSE q
      /\ r.phishingClicks = n + IF ev.kind = "phishing-clicked" THEN 1 ELSE 0
      /\ q \in Lists /\ n \in Nat /\ r.enigmes \in Lists
  BY CountEventIs DEF Tables
<1>2. k \in Nat /\ Slips(Append(l, ev)) = k + IF ev.kind \in SlipKinds THEN 1 ELSE 0
  BY SlipsAppend
<1>3. c \in Nat /\ d \in Nat
  <2>1. \A p \in Seq(Entries) : Total(p) \in Nat
    <3>1. Stays(Summing, 0, Entries, Nat)
      BY SummingIs DEF Stays
    <3> QED
      BY <3>1, FoldInto DEF Total
  <2> QED
    BY <1>1, <2>1 DEF Lists
<1>4. ASSUME ev.kind \in {"enigme-solved", "enigme-error"}
      PROVE  d = c + IF ev.kind = "enigme-error" THEN 1 ELSE 0
  <2> DEFINE y == ev.about
             e == Told(EntryOf(q, y), ev)
             a == EntryOf(q, y).errors
             b == e.errors
  <2>1. y \in StepIds
    BY <1>4, EventFields
  <2>2. EntryOf(q, y) \in Entries /\ EntryOf(q, y).step = y /\ a \in Nat
    BY <1>1, <2>1, EntryFound DEF Entries
  <2>3. /\ e \in Entries /\ e.step = y
        /\ b = a + IF ev.kind = "enigme-error" THEN 1 ELSE 0
    BY <1>4, <2>2, ToldOK
  <2>4. r.enigmes = WithEntry(q, e)
    BY <1>1, <1>4
  <2> HIDE DEF e
  <2>5. Total(WithEntry(q, e)) + EntryOf(q, e.step).errors = Total(q) + e.errors
    BY <1>1, <2>3, TotalWithEntry
  <2>6. d + a = c + b
    BY <2>3, <2>4, <2>5
  <2> HIDE DEF a, b, c, d, r, q
  <2> QED
    BY <1>3, <2>2, <2>3, <2>6
<1>5. c + n = k
  OBVIOUS
<1>6. CASE ev.kind \in {"enigme-solved", "enigme-error"}
  <2>1. r.phishingClicks = n
    BY <1>1, <1>6
  <2>2. d = c + (IF ev.kind = "enigme-error" THEN 1 ELSE 0)
        /\ Slips(Append(l, ev)) = k + (IF ev.kind = "enigme-error" THEN 1 ELSE 0)
    BY <1>2, <1>4, <1>6 DEF SlipKinds
  <2>3. d + r.phishingClicks = Slips(Append(l, ev))
    <3> HIDE DEF c, d, n, k, r, q
    <3> QED
      BY <1>1, <1>2, <1>3, <1>5, <2>1, <2>2
  <2> QED
    BY <2>3
<1>7. CASE ev.kind \notin {"enigme-solved", "enigme-error"}
  <2>1. d = c /\ r.phishingClicks = n + IF ev.kind = "phishing-clicked" THEN 1 ELSE 0
    BY <1>1, <1>7
  <2>2. Slips(Append(l, ev)) = k + IF ev.kind = "phishing-clicked" THEN 1 ELSE 0
    BY <1>2, <1>7 DEF SlipKinds
  <2>3. d + r.phishingClicks = Slips(Append(l, ev))
    <3> HIDE DEF c, d, n, k, r, q
    <3> QED
      BY <1>1, <1>2, <1>3, <1>5, <2>1, <2>2
  <2> QED
    BY <2>3
<1> QED
  BY <1>6, <1>7

\* So the figures tell of any log, played or not.
LEMMA StatsTell ==
    ASSUME NEW team, NEW l \in Seq(Events)
    PROVE  Tells(TeamStats(team, l), l)
<1> DEFINE Q == {m \in Seq(Events) : Tells(TeamStats(team, m), m)}
<1>1. <<>> \in Q
  <2>1. TeamStats(team, <<>>) = Blank(team) /\ <<>> \in Seq(Events)
    BY StatsOfNone
  <2>2. \A i : ~Ends(<<>>, i)
    BY DEF Ends
  <2>3. \A kind, x : Occurrences(<<>>, kind, x) = 0
    <3>1. TAKE kind, x
    <3>2. {i \in DOMAIN <<>> : <<>>[i].kind = kind /\ <<>>[i].about = x} = {}
      OBVIOUS
    <3> QED
      BY <3>2, FS_EmptySet DEF Occurrences
  <2>4. Slips(<<>>) = 0
    <3>1. {i \in DOMAIN <<>> : <<>>[i].kind \in SlipKinds} = {}
      OBVIOUS
    <3> QED
      BY <3>1, FS_EmptySet DEF Slips
  <2>5. Total(<<>>) = 0
    BY FoldEmpty DEF Total
  <2>6. \A x : EntryOf(<<>>, x) = [step |-> x, attempts |-> 0, errors |-> 0, solved |-> FALSE]
               /\ ~Listed(<<>>, x)
    BY DEF EntryOf, Listed
  <2>7. \A x \in StepIds : EntryTells(Blank(team), <<>>, x)
    BY <2>3, <2>6 DEF EntryTells, Blank, Solved
  <2>8. Tells(Blank(team), <<>>)
    <3> DEFINE b == Blank(team)
    <3>1. b.completed = FALSE /\ b.score = 0 /\ b.phishingClicks = 0 /\ b.enigmes = <<>>
      BY DEF Blank
    <3> HIDE DEF b
    <3>2. Total(b.enigmes) + b.phishingClicks = Slips(<<>>)
      BY <2>4, <2>5, <3>1
    <3> QED
      BY <2>2, <2>7, <3>1, <3>2 DEF Tells, b
  <2> QED
    BY <2>1, <2>8
<1>2. ASSUME NEW m \in Seq(Events), m \in Q, NEW ev \in Events PROVE Append(m, ev) \in Q
  <2> DEFINE t == TeamStats(team, m)
             r == CountEvent(t, ev)
             p == Append(m, ev)
  <2>1. t \in Tables(team) /\ TeamStats(team, p) = r /\ p \in Seq(Events)
    BY TeamStatsIs, StatsAppend, AppendProperties
  <2>2. Tells(t, m)
    BY <1>2
  <2> HIDE DEF t, Q
  <2>3. /\ r.score = IF ev.kind = "session-complete" THEN ev.about ELSE t.score
        /\ r.completed <=> t.completed \/ ev.kind = "session-complete"
    BY <2>1, CountEventIs
  <2>4. \A x \in StepIds : EntryTells(r, p, x)
    BY <2>1, <2>2, EntryTold DEF Tells
  <2>5. Total(r.enigmes) + r.phishingClicks = Slips(p)
    BY <2>1, <2>2, SlipsTold DEF Tells
  <2>6. r.completed <=> \E i : Ends(p, i)
    BY <2>2, <2>3, EndsAppend DEF Tells
  <2>7. r.completed => EndsWith(p, r.score)
    <3> DEFINE v == r.score
    <3> HIDE DEF r, p
    <3>1. EndsWith(p, v) <=> EndsWith(m, v) \/ (ev.kind = "session-complete" /\ ev.about = v)
      BY EndsAppend DEF p
    <3> QED
      BY <2>2, <2>3, <3>1 DEF Tells
  <2>8. ~r.completed => r.score = 0
    BY <2>2, <2>3 DEF Tells
  <2>9. Tells(r, p)
    <3> HIDE DEF r, p
    <3> QED
      BY <2>4, <2>5, <2>6, <2>7, <2>8 DEF Tells
  <2> QED
    BY <2>1, <2>9 DEF Q
<1>3. Seq(Events) \subseteq Q
  <2> HIDE DEF Q
  <2> QED
    BY <1>1, <1>2, AllSequences
<1> QED
  BY <1>3

-----------------------------------------------------------------------------
(***************************************************************************)
(* What the report says of the tries.  An error bears its number among the  *)
(* errors of its énigme, a solve one more than the errors before it.        *)
(***************************************************************************)
\* A move logs nothing, an event that is not about an énigme, or an answer.
LEMMA MoveLogs ==
    ASSUME NEW s \in Plays, NEW r, Moves(s, r)
    PROVE  \/ r.log = s.log
           \/ \E ev \in Events : /\ ev.kind \notin {"enigme-solved", "enigme-error"}
                                 /\ r.log = Append(s.log, ev)
           \/ Answers(s, r)
<1>0. s \in Flows
  BY PlaysFields
<1>1. s.score \in Nat /\ Len(VariantSteps(s)) \in Nat \ {0}
      /\ DOMAIN VariantSteps(s) = 1..Len(VariantSteps(s)) /\ s.cursor \in Nat \ {0}
  BY <1>0, FlowFields
<1>2. CASE r = s
  BY <1>2
<1>3. CASE r = [s EXCEPT !.cursor = @ + 1, !.phase = "single"]
  BY <1>0, <1>3 DEF Flows, FlowStates
<1>4. CASE r = EnterStep(s, 1)
  BY <1>0, <1>1, <1>4, EnterFields
<1>5. CASE r = [s EXCEPT !.phase = NextIntroPhase(Kind[CurrentStep(s)], s.phase)]
  BY <1>0, <1>5 DEF Flows, FlowStates
<1>6. CASE r = Closed(s)
  BY <1>0, <1>6 DEF Closed, Flows, FlowStates
<1>7. CASE s.cursor < Len(VariantSteps(s)) /\ r = EnterStep(s, s.cursor + 1)
  <2>1. s.cursor + 1 \in DOMAIN VariantSteps(s)
    BY <1>1, <1>7
  <2> QED
    BY <1>0, <1>7, <2>1, EnterFields
<1>8. CASE r = EnterEpilogue(s)
  <2> DEFINE ev == [kind |-> "session-complete", about |-> s.score, attempts |-> 0]
  <2>1. ev \in Events /\ ev.kind = "session-complete"
    BY <1>1 DEF Events
  <2>2. r.log = Append(s.log, ev)
    BY <1>0, <1>8, EpilogueFields DEF Logged
  <2> HIDE DEF ev
  <2> QED
    BY <2>1, <2>2
<1>9. CASE r = Retried(s)
  BY <1>0, <1>9 DEF Retried, Flows, FlowStates
<1>10. CASE \E mail \in Mails : r = Opened(s, mail)
  <2>1. PICK mail \in Mails : r = Opened(s, mail)
    BY <1>10
  <2>2. CASE mail \notin Trap
    BY <1>0, <2>1, <2>2 DEF Opened, Flows, FlowStates
  <2>3. CASE mail \in Trap
    <3> DEFINE ev == [kind |-> "phishing-clicked", about |-> mail, attempts |-> 0]
    <3>1. ev \in Events /\ ev.kind = "phishing-clicked"
      BY <2>3 DEF Events
    <3>2. r.log = Append(s.log, ev)
      BY <1>0, <2>1, <2>3 DEF Opened, Logged, Flows, FlowStates
    <3> HIDE DEF ev
    <3> QED
      BY <3>1, <3>2
  <2> QED
    BY <2>2, <2>3
<1> HIDE DEF Moves
<1> QED
  BY <1>2, <1>3, <1>4, <1>5, <1>6, <1>7, <1>8, <1>9, <1>10 DEF Moves, Strolls

TriesTold(enigmes, x) ==
    LET e == EntryOf(enigmes, x) IN e.attempts = e.errors + IF e.solved THEN 1 ELSE 0

AttemptsTold(s) == \A x \in StepIds : TriesTold(TeamStats(1, s.log).enigmes, x)

\* It keeps the tries told: an answer is numbered one more than the errors so far.
LEMMA AttemptsMove ==
    ASSUME NEW s \in Plays, AttemptsTold(s), NEW r \in Flows, Moves(s, r)
    PROVE  AttemptsTold(r)
<1>1. s \in Flows /\ s.log \in Seq(Events)
  BY PlaysFields, FlowFields
<1> DEFINE t == TeamStats(1, s.log)
           q == t.enigmes
<1>2. t \in Tables(1) /\ q \in Lists
  BY <1>1, TeamStatsIs DEF Tables
<1>3. \A x \in StepIds : TriesTold(q, x)
  BY DEF AttemptsTold
<1>4. CASE r.log = s.log
  BY <1>4 DEF AttemptsTold
<1>5. CASE \E ev \in Events : /\ ev.kind \notin {"enigme-solved", "enigme-error"}
                              /\ r.log = Append(s.log, ev)
  <2>1. PICK ev \in Events : /\ ev.kind \notin {"enigme-solved", "enigme-error"}
                             /\ r.log = Append(s.log, ev)
    BY <1>5
  <2>2. TeamStats(1, r.log) = CountEvent(t, ev)
    BY <1>1, <2>1, StatsAppend
  <2> HIDE DEF t
  <2>3. CountEvent(t, ev).enigmes = q
    BY <1>2, <2>1, CountEventIs
  <2> QED
    BY <1>3, <2>2, <2>3 DEF AttemptsTold
<1>6. CASE Answers(s, r)
  <2>1. PICK input \in Inputs : r = Answered(s, input)
    BY <1>6 DEF Answers
  <2>0. InEnigme(s) /\ s.phase = "saisie"
    BY <1>6 DEF Answers
  <2> DEFINE c == CurrentStep(s)
             ev == [kind |-> IF IsCorrect(c, input) THEN "enigme-solved" ELSE "enigme-error",
                    about |-> c, attempts |-> s.attempts + 1]
  <2>2. c \in StepIds /\ c \in Now(s) /\ s.attempts \in Nat
    BY <1>1, <2>0, FlowFields DEF Now
  <2>3. r.log = Append(s.log, ev)
    BY <1>1, <2>1 DEF Answered, Logged, Flows, FlowStates
  <2> HIDE DEF c
  <2>4. ev \in Events /\ ev.kind \in {"enigme-solved", "enigme-error"}
        /\ ev.about = c /\ ev.attempts = s.attempts + 1
    BY <2>2 DEF Events
  <2> HIDE DEF ev
  <2>5. TeamStats(1, r.log) = CountEvent(t, ev)
    BY <1>1, <2>3, <2>4, StatsAppend
  <2>6. Errors(s, c) = s.attempts /\ ~Solved(s.log, c)
    BY <2>0, <2>2, PlaysFields DEF StepPlayed
  <2>7. Tells(t, s.log)
    BY <1>1, StatsTell
  <2> HIDE DEF t
  <2> DEFINE e == EntryOf(q, c)
             f == Told(e, ev)
  <2>8. e \in Entries /\ e.step = c
    BY <1>2, <2>2, EntryFound
  <2>9. e.errors = s.attempts /\ ~e.solved
    BY <2>2, <2>6, <2>7 DEF Tells, EntryTells, Errors
  <2>10. e.attempts = s.attempts
    BY <1>3, <2>2, <2>9 DEF TriesTold
  <2> HIDE DEF e
  <2>11. /\ f \in Entries /\ f.step = c
         /\ f.errors = e.errors + IF ev.kind = "enigme-error" THEN 1 ELSE 0
         /\ f.solved <=> e.solved \/ ev.kind = "enigme-solved"
         /\ f.attempts = IF ev.kind = "enigme-error" /\ ev.attempts <= e.attempts
                         THEN e.attempts ELSE ev.attempts
    BY <2>4, <2>8, ToldOK
  <2>12. CountEvent(t, ev).enigmes = WithEntry(q, f)
    BY <1>2, <2>4, CountEventIs DEF e
  <2> HIDE DEF f, q
  <2>13. f.attempts = f.errors + IF f.solved THEN 1 ELSE 0
    <3>1. f.attempts = s.attempts + 1
      BY <2>2, <2>4, <2>10, <2>11
    <3>2. CASE ev.kind = "enigme-error"
      BY <2>2, <2>9, <2>11, <3>1, <3>2
    <3>3. CASE ev.kind = "enigme-solved"
      BY <2>2, <2>9, <2>11, <3>1, <3>3
    <3> QED
      BY <2>4, <3>2, <3>3
  <2>14. ASSUME NEW x \in StepIds PROVE TriesTold(WithEntry(q, f), x)
    <3>1. EntryOf(WithEntry(q, f), x) = IF x = f.step THEN f ELSE EntryOf(q, x)
      BY <1>2, <2>11, WithEntryOK
    <3>2. TriesTold(q, x)
      BY <1>3
    <3> QED
      BY <2>13, <3>1, <3>2 DEF TriesTold
  <2> QED
    BY <2>5, <2>12, <2>14 DEF AttemptsTold
<1> QED
  BY <1>4, <1>5, <1>6, MoveLogs

ReportInv == PlayInv /\ AttemptsTold(current)

\* The tries are told from the start, and every step keeps them so.
LEMMA ReportStarts == PlayInit => ReportInv
<1> SUFFICES ASSUME PlayInit PROVE ReportInv
  OBVIOUS
<1>1. PlayInv
  BY PlayStarts
<1>2. TeamStats(1, current.log) = Blank(1)
  BY StatsOfNone DEF PlayInit, CreateFlow
<1>3. Blank(1).enigmes = <<>>
  BY DEF Blank
<1>4. \A x \in StepIds : TriesTold(<<>>, x)
  BY DEF TriesTold, EntryOf, Listed
<1> QED
  BY <1>1, <1>2, <1>3, <1>4 DEF ReportInv, AttemptsTold

LEMMA ReportKept == ReportInv /\ [PlayNext]_playVars => ReportInv'
<1> SUFFICES ASSUME ReportInv, [PlayNext]_playVars PROVE ReportInv'
  OBVIOUS
<1>1. PlayInv /\ PlayInv' /\ AttemptsTold(current)
  BY PlayKept DEF ReportInv
<1>2. current \in Plays /\ screen \in Plays /\ RetryLag(screen, current) /\ current' \in Plays
      /\ value \in Inputs
  BY <1>1 DEF PlayInv
<1>3. current' = current \/ Moves(current, current')
  <2>1. ASSUME NEW e \in Taps, Allowed(current, e), current' = Dispatch(current, e)
        PROVE  Moves(current, current')
    BY <1>2, <2>1, PlaysFields, DispatchMoves
  <2>2. CASE Tap
    <3>1. PICK e \in ScreenEvents(screen) : current' = Dispatch(current, e)
      BY <2>2 DEF Tap
    <3>2. e \in Taps /\ Allowed(current, e)
      BY <1>2, TapsOfScreens, ScreenAllowed DEF Taps
    <3> QED
      BY <2>1, <3>1, <3>2
  <2>3. CASE SubmitAnyTeam
    <3>1. Continue \in Taps /\ Allowed(current, Continue)
      BY DEF Taps, ScreenTaps, Allowed, Continue, Retry
    <3> QED
      BY <2>1, <2>3, <3>1 DEF SubmitAnyTeam
  <2>4. CASE Validate
    <3>1. Answer(value) \in Taps /\ Allowed(current, Answer(value))
      BY <1>2 DEF Taps, Allowed, Answer, Retry
    <3> QED
      BY <2>1, <2>4, <3>1 DEF Validate
  <2> QED
    BY <2>2, <2>3, <2>4 DEF PlayNext, Enter, Draw, playVars
<1>4. AttemptsTold(current')
  <2>1. current' \in Flows
    BY <1>2, PlaysFields
  <2> QED
    BY <1>1, <1>2, <1>3, <2>1, AttemptsMove
<1>5. AttemptsTold(current)'
  BY <1>4 DEF AttemptsTold
<1> QED
  BY <1>1, <1>5 DEF ReportInv

\* At any moment of a game, with any taps on stale screens, the tries the report shows for
\* an énigme (computeTeamStats) are its wrong answers, and the right one if there was one.
THEOREM TriesStayTold == PlaySpec => []ReportInv
  BY ReportStarts, ReportKept, PTL DEF PlaySpec

\* An énigme counts as solved once, whatever the log has of it.
LEMMA SolvedCountIs ==
    ASSUME NEW team, NEW t \in Tables(team), NEW l \in Seq(Events), Tells(t, l)
    PROVE  SolvedCount(t) = Cardinality(SolvedSteps(l))
<1> DEFINE q == t.enigmes
           I == {i \in DOMAIN q : q[i].solved}
           f == [i \in I |-> q[i].step]
<1>1. q \in Lists /\ q \in Seq(Entries) /\ Distinct(q)
  BY DEF Tables, Lists
<1>2. \A x \in StepIds : EntryTells(t, l, x)
  BY DEF Tells
<1> HIDE DEF q
<1>3. \A i \in DOMAIN q : q[i].step \in StepIds
  <2>1. \A i \in DOMAIN q : q[i] \in Entries
    BY <1>1, PlacesOf
  <2> QED
    BY <2>1 DEF Entries
<1>4. \A i \in DOMAIN q : q[i].solved <=> Solved(l, q[i].step)
  <2>1. TAKE i \in DOMAIN q
  <2>2. EntryOf(q, q[i].step) = q[i]
    BY <1>1, <1>3, EntryFound
  <2> QED
    BY <1>2, <1>3, <2>2 DEF EntryTells, q
<1>5. IsFiniteSet(I)
  <2>1. IsFiniteSet(DOMAIN q)
    BY <1>1, PlacesOf DEF Indices
  <2> QED
    BY <2>1, FS_Subset
<1>6. f \in [I -> SolvedSteps(l)]
  BY <1>3, <1>4 DEF SolvedSteps
<1>7. \A a, b \in I : f[a] = f[b] => a = b
  BY <1>1 DEF Distinct
<1>8. \A y \in SolvedSteps(l) : \E x \in I : f[x] = y
  <2>1. TAKE y \in SolvedSteps(l)
  <2>2. y \in StepIds /\ Solved(l, y)
    BY DEF SolvedSteps
  <2>3. Listed(q, y)
    BY <1>2, <2>2 DEF EntryTells, q
  <2>4. PICK i \in DOMAIN q : q[i].step = y
    BY <2>3 DEF Listed
  <2> QED
    BY <1>4, <2>2, <2>4
<1>9. Cardinality(SolvedSteps(l)) = Cardinality(I)
  <2> HIDE DEF f, I
  <2> QED
    BY <1>5, <1>6, <1>7, <1>8, SameCardinality
<1> QED
  BY <1>9 DEF SolvedCount, q

\* What is told of the flow: points and end are those of the final screen.
LEMMA EndTold ==
    ASSUME NEW s \in Plays, NEW team, NEW t \in Tables(team), Tells(t, s.log)
    PROVE  /\ t.completed = IsComplete(s)
           /\ t.score = IF IsComplete(s) THEN s.score ELSE 0
           /\ SolvedCount(t) = Cardinality(Solutions(s))
           /\ ErrorCount(t) + t.phishingClicks = Mistakes(s)
           /\ ErrorCount(t) \in Nat /\ t.phishingClicks \in Nat
<1>1. s \in Flows /\ LogEnds(s) /\ s.log \in Seq(Events)
  BY PlaysFields, FlowFields
<1>2. t.completed \in BOOLEAN /\ t.enigmes \in Seq(Entries) /\ t.phishingClicks \in Nat
  BY DEF Tables, Lists
<1>3. t.completed <=> IsComplete(s)
  BY <1>1 DEF Tells, LogEnds, Ends
<1>4. t.score = IF IsComplete(s) THEN s.score ELSE 0
  <2>1. CASE IsComplete(s)
    <3>1. EndsWith(s.log, t.score)
      BY <1>3, <2>1 DEF Tells
    <3> QED
      BY <1>1, <2>1, <3>1 DEF EndsWith, Ends, LogEnds
  <2>2. CASE ~IsComplete(s)
    BY <1>3, <2>2 DEF Tells
  <2> QED
    BY <2>1, <2>2
<1>5. SolvedCount(t) = Cardinality(Solutions(s))
  BY <1>1, SolvedCountIs DEF Solutions, SolvedSteps
<1>6. ErrorCount(t) = Total(t.enigmes) /\ ErrorCount(t) \in Nat
  BY <1>2, ErrorCountIs
<1>7. Slips(s.log) = Mistakes(s)
  BY DEF Slips, Mistakes, SlipKinds
<1> QED
  BY <1>2, <1>3, <1>4, <1>5, <1>6, <1>7 DEF Tells, IsComplete

\* The figures of a team are those of its game.
LEMMA TeamTold == ASSUME ReportInv PROVE TeamFigures
<1> DEFINE t == TeamStats(1, current.log)
           q == t.enigmes
<1>1. current \in Plays /\ AttemptsTold(current)
  BY DEF ReportInv, PlayInv
<1>2. current \in Flows /\ current.log \in Seq(Events)
  BY <1>1, PlaysFields, FlowFields
<1>3. t \in Tables(1) /\ Tells(t, current.log)
  BY <1>2, TeamStatsIs, StatsTell
<1>4. \A x \in StepIds : TriesTold(q, x)
  BY <1>1 DEF AttemptsTold
<1> HIDE DEF t
<1>5. /\ t.completed = IsComplete(current)
      /\ t.score = IF IsComplete(current) THEN current.score ELSE 0
      /\ SolvedCount(t) = Cardinality(Solutions(current))
      /\ ErrorCount(t) + t.phishingClicks = Mistakes(current)
  BY <1>1, <1>3, EndTold
<1>6. ASSUME NEW i \in DOMAIN q
      PROVE  LET e == q[i]
             IN  /\ e.errors = Errors(current, e.step)
                 /\ e.solved = (e.step \in Solutions(current))
                 /\ e.attempts = e.errors + IF e.solved THEN 1 ELSE 0
  <2> DEFINE e == q[i]
             x == e.step
  <2>1. q \in Lists /\ q \in Seq(Entries)
    BY <1>3 DEF Tables, Lists
  <2>2. e \in Entries
    BY <1>6, <2>1, PlacesOf
  <2>3. x \in StepIds /\ e.solved \in BOOLEAN
    BY <2>2 DEF Entries
  <2>4. EntryOf(q, x) = e
    BY <1>6, <2>1, <2>3, EntryFound
  <2> HIDE DEF e
  <2>5. e.errors = Errors(current, x) /\ (e.solved <=> Solved(current.log, x))
    BY <1>3, <2>3, <2>4 DEF Tells, EntryTells, Errors
  <2>6. e.attempts = e.errors + IF e.solved THEN 1 ELSE 0
    BY <1>4, <2>3, <2>4 DEF TriesTold
  <2>7. e.solved = (x \in Solutions(current))
    BY <2>3, <2>5 DEF Solutions
  <2> QED
    BY <2>5, <2>6, <2>7 DEF e
<1> QED
  BY <1>5, <1>6 DEF TeamFigures, t

-----------------------------------------------------------------------------
(***************************************************************************)
(* The suspects: one pass that adds who is not yet listed.                  *)
(***************************************************************************)
Adding == [p \in Seq(Names) \X Names |-> AddName(p[1], p[2])]

Present(q, person) == \E i \in DOMAIN q : q[i].person = person

LEMMA TrimmedOK ==
    ASSUME NEW n \in Names
    PROVE  /\ Trimmed(n) \in Names /\ Trimmed(n).person = n.person
           /\ Trimmed(n).form # "padded" /\ (n.form # "padded" => Trimmed(n) = n)
  BY DEF Trimmed, Names

\* Adding a name, or not.
LEMMA AddNameIs ==
    ASSUME NEW q \in Seq(Names), NEW n \in Names
    PROVE  /\ Adding[<<q, n>>] = AddName(q, n) /\ AddName(q, n) \in Seq(Names)
           /\ AddName(q, n) = IF n.person = 0 \/ Present(q, n.person) THEN q
                              ELSE Append(q, Trimmed(n))
<1>1. Adding[<<q, n>>] = AddName(q, n)
  BY DEF Adding
<1>2. AddName(q, n) = IF n.person = 0 \/ Present(q, n.person) THEN q ELSE Append(q, Trimmed(n))
  BY DEF AddName, Present
<1>3. Append(q, Trimmed(n)) \in Seq(Names)
  BY TrimmedOK, AppendProperties
<1> QED
  BY <1>1, <1>2, <1>3

\* The pass is a fold, and one name more is one step more.
LEMMA NormalizeIs ==
    ASSUME NEW l \in Seq(Names)
    PROVE  /\ NormalizeSuspectList(l) = Fold(Adding, <<>>, l)
           /\ NormalizeSuspectList(l) \in Seq(Names)
<1> DEFINE F == Adding
           b == <<>>
           D == DOMAIN l
           S == Seq(Names)
           Runs(g) == g = [s \in SUBSET D |-> IF s = {} THEN b
                                            ELSE AddName(g[s \ {Max(s)}], l[Max(s)])]
<1>1. NormalizeSuspectList(l) = (CHOOSE g : Runs(g))[D]
  BY DEF NormalizeSuspectList, FoldLeft, MapThenFoldSet
<1>6. \A q \in S, n \in Names : F[<<q, n>>] = AddName(q, n) /\ AddName(q, n) \in S
  BY AddNameIs
<1>0. <<>> \in S
  OBVIOUS
<1> HIDE DEF F, S
<1>2. Stays(F, b, Names, S)
  BY <1>0, <1>6 DEF Stays
<1>3. Indices(D) /\ \A s \in (SUBSET D) \ {{}} : l[Max(s)] \in Names
  BY PlacesOf, IndicesPart, MaxMember
<1>4. PICK h : Iterates(F, b, l, D, h)
  BY <1>3, IterationExists
<1> HIDE DEF b
<1>5. \A s \in SUBSET D : h[s] \in S
  BY <1>2, <1>4, IterationInto
<1>7. Runs(h)
  <2>1. \A s \in SUBSET D : (IF s = {} THEN b ELSE F[<<h[s \ {Max(s)}], l[Max(s)]>>])
                          = (IF s = {} THEN b ELSE AddName(h[s \ {Max(s)}], l[Max(s)]))
    BY <1>3, <1>5, <1>6
  <2> QED
    BY <1>4, <2>1 DEF Iterates
<1>8. PICK g : g = (CHOOSE f : Runs(f)) /\ Runs(g)
  <2> HIDE DEF Runs
  <2> QED
    BY <1>7, Zenon
<1>9. OnParts(g, D)
  BY <1>8 DEF OnParts
<1>10. \A s \in SUBSET D : g[s] = IF s = {} THEN b ELSE AddName(g[s \ {Max(s)}], l[Max(s)])
  BY <1>8
<1> HIDE DEF Runs
<1>11. Reads(g, F, b, l, S)
  <2>1. \A s \in (SUBSET D) \ {{}} : s \in SUBSET D /\ s # {}
    OBVIOUS
  <2> QED
    BY <1>3, <1>6, <1>9, <1>10, <2>1 DEF Reads
<1>12. g[D] = Fold(F, b, l) /\ Fold(F, b, l) \in S
  BY <1>2, <1>11, FoldRead, FoldInto
<1> QED
  BY <1>1, <1>8, <1>12 DEF F, b, S

LEMMA NormalizeAppend ==
    ASSUME NEW l \in Seq(Names), NEW n \in Names
    PROVE  NormalizeSuspectList(Append(l, n)) = AddName(NormalizeSuspectList(l), n)
<1>1. Append(l, n) \in Seq(Names)
  BY AppendProperties
<1>2. NormalizeSuspectList(Append(l, n)) = Fold(Adding, <<>>, Append(l, n))
  BY <1>1, NormalizeIs
<1>3. /\ NormalizeSuspectList(l) = Fold(Adding, <<>>, l)
      /\ NormalizeSuspectList(l) \in Seq(Names)
  BY NormalizeIs
<1> DEFINE F == Adding
           b == <<>>
<1> HIDE DEF F, b
<1>4. Fold(F, b, Append(l, n)) = F[<<Fold(F, b, l), n>>]
  BY FoldAppend
<1> QED
  BY <1>2, <1>3, <1>4, AddNameIs DEF F, b

LEMMA NormalizeNone == NormalizeSuspectList(<<>>) = <<>>
<1>1. <<>> \in Seq(Names)
  OBVIOUS
<1> QED
  BY <1>1, NormalizeIs, FoldEmpty

\* A list as it leaves the pass: nobody twice, nobody unnamed, every name trimmed.
Neat(q) ==
    \A i \in DOMAIN q : /\ q[i].person # 0 /\ q[i].form # "padded"
                        /\ \A j \in DOMAIN q : q[j].person = q[i].person => j = i

\* Once more, the pass changes nothing.
LEMMA NeatStays ==
    ASSUME NEW q \in Seq(Names), Neat(q) PROVE NormalizeSuspectList(q) = q
<1> DEFINE Q == {p \in Seq(Names) : Neat(p) => NormalizeSuspectList(p) = p}
<1>1. <<>> \in Q
  BY NormalizeNone
<1>2. ASSUME NEW p \in Seq(Names), p \in Q, NEW n \in Names PROVE Append(p, n) \in Q
  <2> DEFINE m == Append(p, n)
  <2>0. m \in Seq(Names) /\ NormalizeSuspectList(m) = AddName(NormalizeSuspectList(p), n)
    BY AppendProperties, NormalizeAppend
  <2>1. /\ DOMAIN m = DOMAIN p \cup {Len(p) + 1} /\ Len(p) + 1 \notin DOMAIN p
        /\ \A i \in DOMAIN p : m[i] = p[i]
        /\ m[Len(p) + 1] = n
    BY OneMore
  <2> HIDE DEF m
  <2>2. SUFFICES ASSUME Neat(m) PROVE NormalizeSuspectList(m) = m
    BY <2>0 DEF m
  <2>3. Neat(p)
    BY <2>1, <2>2 DEF Neat
  <2>4. NormalizeSuspectList(p) = p
    BY <1>2, <2>3
  <2>5. n.person # 0 /\ n.form # "padded" /\ ~Present(p, n.person)
    BY <2>1, <2>2 DEF Neat, Present
  <2>6. AddName(p, n) = Append(p, n)
    BY <2>5, AddNameIs, TrimmedOK
  <2> QED
    BY <2>0, <2>4, <2>6 DEF m
<1>3. Seq(Names) \subseteq Q
  <2> HIDE DEF Q
  <2> QED
    BY <1>1, <1>2, AllSequences
<1> QED
  BY <1>3

Firsts(l) == {i \in DOMAIN l : /\ l[i].person # 0
                               /\ \A j \in 1..i - 1 : l[j].person # l[i].person}

Rank(l, i) == Cardinality(Firsts(l) \cap 1..i)

Normal(l, r) ==
    /\ Neat(r)
    /\ \A person : person # 0 => (Present(r, person) <=> Present(l, person))
    /\ IsFiniteSet(Firsts(l)) /\ Len(r) = Cardinality(Firsts(l))
    /\ \A i \in Firsts(l) : Rank(l, i) \in DOMAIN r /\ r[Rank(l, i)] = Trimmed(l[i])

\* One name more keeps all that is claimed of the pass,
LEMMA NormalAppend ==
    ASSUME NEW l \in Seq(Names), NEW r \in Seq(Names), Normal(l, r), NEW n \in Names
    PROVE  Normal(Append(l, n), AddName(r, n))
<1> DEFINE m == Append(l, n)
           k == Len(l) + 1
<1>1. /\ DOMAIN m = DOMAIN l \cup {k} /\ k \notin DOMAIN l /\ m[k] = n
      /\ \A i \in DOMAIN l : m[i] = l[i]
      /\ Len(l) \in Nat /\ DOMAIN l = 1..Len(l)
  BY OneMore
<1> HIDE DEF m
<1>2. \A i \in DOMAIN l : i \in Firsts(m) <=> i \in Firsts(l)
  <2>1. TAKE i \in DOMAIN l
  <2>2. \A j \in 1..i - 1 : m[j] = l[j]
    BY <1>1
  <2> QED
    BY <1>1, <2>2 DEF Firsts
<1>3. k \in Firsts(m) <=> n.person # 0 /\ ~Present(l, n.person)
  <2>1. k \in DOMAIN m /\ 1..k - 1 = DOMAIN l
    BY <1>1
  <2> HIDE DEF k
  <2> QED
    BY <1>1, <2>1 DEF Firsts, Present
<1>4. Firsts(l) \subseteq DOMAIN l /\ Firsts(m) \subseteq DOMAIN l \cup {k}
  BY <1>1 DEF Firsts
<1>5. Firsts(m) = IF n.person # 0 /\ ~Present(l, n.person) THEN Firsts(l) \cup {k} ELSE Firsts(l)
  <2> HIDE DEF k
  <2>1. CASE n.person # 0 /\ ~Present(l, n.person)
    <3>1. k \in Firsts(m)
      BY <1>3, <2>1
    <3> QED
      BY <1>2, <1>4, <2>1, <3>1
  <2>2. CASE n.person = 0 \/ Present(l, n.person)
    <3>1. k \notin Firsts(m)
      BY <1>3, <2>2
    <3>2. \A i : i \in Firsts(m) <=> i \in Firsts(l)
      BY <1>2, <1>4, <3>1
    <3>3. Firsts(m) = Firsts(l)
      BY <3>2
    <3> QED
      BY <2>2, <3>3
  <2> QED
    BY <2>1, <2>2
<1>6. \A i \in Firsts(l) : Rank(m, i) = Rank(l, i) /\ m[i] = l[i]
  <2>1. TAKE i \in Firsts(l)
  <2>2. k \notin 1..i
    BY <1>1, <1>4
  <2>3. Firsts(m) \cap 1..i = Firsts(l) \cap 1..i
    BY <1>5, <2>2
  <2> QED
    BY <1>1, <1>4, <2>3 DEF Rank
<1>7. \A person : Present(m, person) <=> Present(l, person) \/ n.person = person
  BY <1>1 DEF Present
<1>8. CASE n.person = 0 \/ Present(l, n.person)
  <2>1. AddName(r, n) = r
    BY <1>8, AddNameIs DEF Normal
  <2>2. Firsts(m) = Firsts(l)
    BY <1>5, <1>8
  <2>3. Normal(m, r)
    BY <1>6, <1>7, <1>8, <2>2 DEF Normal
  <2> QED
    BY <2>1, <2>3 DEF m
<1>9. CASE n.person # 0 /\ ~Present(l, n.person)
  <2> DEFINE t == Trimmed(n)
             p == Append(r, t)
  <2>1. ~Present(r, n.person)
    BY <1>9 DEF Normal
  <2>2. AddName(r, n) = p
    BY <1>9, <2>1, AddNameIs
  <2>3. t \in Names /\ t.person = n.person /\ t.form # "padded"
    BY TrimmedOK
  <2> HIDE DEF t
  <2>4. /\ DOMAIN p = DOMAIN r \cup {Len(r) + 1} /\ Len(r) + 1 \notin DOMAIN r
        /\ p[Len(r) + 1] = t /\ \A i \in DOMAIN r : p[i] = r[i]
        /\ Len(p) = Len(r) + 1
    BY OneMore
  <2> HIDE DEF p
  <2>5. Neat(p)
    BY <1>9, <2>1, <2>3, <2>4 DEF Neat, Normal, Present
  <2>6. \A person : person # 0 => (Present(p, person) <=> Present(m, person))
    <3>1. \A person : Present(p, person) <=> Present(r, person) \/ n.person = person
      BY <2>3, <2>4 DEF Present
    <3> QED
      BY <1>7, <3>1 DEF Normal
  <2>7. Firsts(m) = Firsts(l) \cup {k} /\ k \notin Firsts(l)
    BY <1>1, <1>4, <1>5, <1>9
  <2>8. /\ IsFiniteSet(Firsts(m)) /\ Cardinality(Firsts(m)) = Cardinality(Firsts(l)) + 1
    <3> HIDE DEF k
    <3> QED
      BY <2>7, FS_AddElement DEF Normal
  <2>9. Rank(m, k) = Len(r) + 1
    <3>1. Firsts(m) \cap 1..k = Firsts(m)
      BY <1>1, <1>4
    <3> QED
      BY <2>8, <3>1 DEF Rank, Normal
  <2>10. ASSUME NEW i \in Firsts(m)
         PROVE  Rank(m, i) \in DOMAIN p /\ p[Rank(m, i)] = Trimmed(m[i])
    <3>1. CASE i = k
      BY <1>1, <2>4, <2>9, <3>1 DEF t
    <3>2. CASE i \in Firsts(l)
      <4>1. Rank(l, i) \in DOMAIN r /\ r[Rank(l, i)] = Trimmed(l[i])
        BY <3>2 DEF Normal
      <4> QED
        BY <1>6, <2>4, <3>2, <4>1
    <3> QED
      BY <2>7, <2>10, <3>1, <3>2
  <2>11. Normal(m, p)
    BY <2>4, <2>5, <2>6, <2>8, <2>10 DEF Normal
  <2> QED
    BY <2>2, <2>11 DEF m
<1> QED
  BY <1>8, <1>9

\* which therefore holds of lists of any length.
LEMMA ListsNormal ==
    ASSUME NEW l \in Seq(Names) PROVE Normal(l, NormalizeSuspectList(l))
<1> DEFINE Q == {p \in Seq(Names) : Normal(p, NormalizeSuspectList(p))}
<1>1. <<>> \in Q
  <2>1. Firsts(<<>>) = {}
    BY DEF Firsts
  <2>2. Normal(<<>>, <<>>)
    BY <2>1, FS_EmptySet DEF Normal, Neat, Present
  <2> QED
    BY <2>2, NormalizeNone
<1>2. ASSUME NEW p \in Seq(Names), p \in Q, NEW n \in Names PROVE Append(p, n) \in Q
  BY <1>2, NormalAppend, NormalizeAppend, NormalizeIs, AppendProperties
<1>3. Seq(Names) \subseteq Q
  <2> HIDE DEF Q
  <2> QED
    BY <1>1, <1>2, AllSequences
<1> QED
  BY <1>3

\* So for the lists of the property, which are those of up to three names; the two lemmas
\* above hold of any.
LEMMA SuspectsTold == SuspectsOnce
<1> SUFFICES ASSUME NEW list \in SuspectLists
             PROVE  LET names == NormalizeSuspectList(list)
                        first == {i \in DOMAIN list : list[i].person # 0
                                     /\ \A j \in 1..i - 1 : list[j].person # list[i].person}
                    IN  /\ Len(names) = Cardinality(first)
                        /\ \A i \in first :
                              names[Cardinality(first \cap 1..i)] = Trimmed(list[i])
                        /\ NormalizeSuspectList(names) = names
  BY DEF SuspectsOnce
<1>1. list \in Seq(Names)
  <2>1. PICK n \in 0..3 : list \in [1..n -> Names]
    BY DEF SuspectLists
  <2> HIDE DEF Names
  <2> QED
    BY <2>1
<1> DEFINE names == NormalizeSuspectList(list)
<1>2. Normal(list, names) /\ names \in Seq(Names)
  BY <1>1, ListsNormal, NormalizeIs
<1>3. NormalizeSuspectList(names) = names
  <2> HIDE DEF names
  <2> QED
    BY <1>2, NeatStays DEF Normal
<1> HIDE DEF names
<1> QED
  BY <1>2, <1>3 DEF Normal, Rank, Firsts, names

-----------------------------------------------------------------------------
(***************************************************************************)
(* The figures of the session: folds over its teams and their entries.      *)
(***************************************************************************)
Tallies == [step : StepIds, errors : Nat]

Sums == {q \in Seq(Tallies) : Distinct(q)}

AnyTables ==
    [teamId : Nat, score : Nat, completed : BOOLEAN, phishingClicks : Nat, enigmes : Lists]

BetterOf == [p \in AnyTables \X AnyTables |-> Better(p[1], p[2])]

\* The folds of the best team and of the points.
LEMMA BestIs ==
    ASSUME NEW t \in AnyTables, NEW q \in Seq(AnyTables)
    PROVE  FoldLeft(Better, t, q) = Fold(BetterOf, t, q) /\ FoldLeft(Better, t, q) \in AnyTables
<1> DEFINE F == BetterOf
           l == q
           D == DOMAIN l
           I == AnyTables
           E == AnyTables
           b == t
           Runs(g) == g = [s \in SUBSET D |-> IF s = {} THEN b ELSE Better(g[s \ {Max(s)}], l[Max(s)])]
<1>1. FoldLeft(Better, t, q) = (CHOOSE g : Runs(g))[D]
  BY DEF FoldLeft, MapThenFoldSet
<1>2. Stays(F, b, E, I) /\ l \in Seq(E) /\ \A v \in I, e \in E : F[<<v, e>>] = Better(v, e)
  <2>1. \A v \in I, e \in E : F[<<v, e>>] = Better(v, e) /\ Better(v, e) \in I
    BY DEF BetterOf, Better
  <2> QED
    BY <2>1 DEF Stays
<1> HIDE DEF F, I, E, b, l
<1>3. PICK h : Iterates(F, b, l, D, h) /\ \A s \in SUBSET D : h[s] \in I
  BY <1>2, FoldSteps
<1>4. \A s \in (SUBSET D) \ {{}} : l[Max(s)] \in E
  BY <1>2, FoldSteps
<1>5. Runs(h)
  <2>1. \A s \in SUBSET D : (IF s = {} THEN b ELSE F[<<h[s \ {Max(s)}], l[Max(s)]>>])
                          = (IF s = {} THEN b ELSE Better(h[s \ {Max(s)}], l[Max(s)]))
    BY <1>2, <1>3, <1>4
  <2> QED
    BY <1>3, <2>1 DEF Iterates
<1>6. PICK g : g = (CHOOSE f : Runs(f)) /\ Runs(g)
  <2> HIDE DEF Runs
  <2> QED
    BY <1>5, Zenon
<1>7. OnParts(g, D) /\ \A s \in SUBSET D : g[s] = IF s = {} THEN b ELSE Better(g[s \ {Max(s)}], l[Max(s)])
  <2>1. OnParts(g, D)
    BY <1>6 DEF OnParts
  <2> QED
    BY <1>6, <2>1
<1> HIDE DEF Runs
<1>8. Reads(g, F, b, l, I)
  <2>1. \A s \in (SUBSET D) \ {{}} : s \in SUBSET D /\ s # {}
    OBVIOUS
  <2> QED
    BY <1>2, <1>4, <1>7, <2>1 DEF Reads
<1>9. g[D] = Fold(F, b, l) /\ Fold(F, b, l) \in I
  BY <1>2, <1>8, FoldRead, FoldInto
<1> QED
  BY <1>1, <1>6, <1>9 DEF F, I, b, l

ScoreSum == [p \in Nat \X AnyTables |-> p[1] + p[2].score]

LEMMA ScoresSummed ==
    ASSUME NEW q \in Seq(AnyTables)
    PROVE  /\ FoldLeft(LAMBDA n, t : n + t.score, 0, q) = Fold(ScoreSum, 0, q)
           /\ FoldLeft(LAMBDA n, t : n + t.score, 0, q) \in Nat
<1> DEFINE F == ScoreSum
           l == q
           D == DOMAIN l
           I == Nat
           E == AnyTables
           b == 0
           Runs(g) == g = [s \in SUBSET D |-> IF s = {} THEN b ELSE g[s \ {Max(s)}] + l[Max(s)].score]
<1>1. FoldLeft(LAMBDA n, t : n + t.score, 0, q) = (CHOOSE g : Runs(g))[D]
  BY DEF FoldLeft, MapThenFoldSet
<1>2. Stays(F, b, E, I) /\ l \in Seq(E) /\ \A v \in I, e \in E : F[<<v, e>>] = v + e.score
  <2>1. \A v \in I, e \in E : F[<<v, e>>] = v + e.score /\ v + e.score \in I
    BY DEF ScoreSum, AnyTables
  <2> QED
    BY <2>1 DEF Stays
<1> HIDE DEF F, I, E, b, l
<1>3. PICK h : Iterates(F, b, l, D, h) /\ \A s \in SUBSET D : h[s] \in I
  BY <1>2, FoldSteps
<1>4. \A s \in (SUBSET D) \ {{}} : l[Max(s)] \in E
  BY <1>2, FoldSteps
<1>5. Runs(h)
  <2>1. \A s \in SUBSET D : (IF s = {} THEN b ELSE F[<<h[s \ {Max(s)}], l[Max(s)]>>])
                          = (IF s = {} THEN b ELSE h[s \ {Max(s)}] + l[Max(s)].score)
    BY <1>2, <1>3, <1>4
  <2> QED
    BY <1>3, <2>1 DEF Iterates
<1>6. PICK g : g = (CHOOSE f : Runs(f)) /\ Runs(g)
  <2> HIDE DEF Runs
  <2> QED
    BY <1>5, Zenon
<1>7. OnParts(g, D) /\ \A s \in SUBSET D : g[s] = IF s = {} THEN b ELSE g[s \ {Max(s)}] + l[Max(s)].score
  <2>1. OnParts(g, D)
    BY <1>6 DEF OnParts
  <2> QED
    BY <1>6, <2>1
<1> HIDE DEF Runs
<1>8. Reads(g, F, b, l, I)
  <2>1. \A s \in (SUBSET D) \ {{}} : s \in SUBSET D /\ s # {}
    OBVIOUS
  <2> QED
    BY <1>2, <1>4, <1>7, <2>1 DEF Reads
<1>9. g[D] = Fold(F, b, l) /\ Fold(F, b, l) \in I
  BY <1>2, <1>8, FoldRead, FoldInto
<1> QED
  BY <1>1, <1>6, <1>9 DEF F, I, b, l

\* The errors a list of entries, or of tallies, has of a step.
Has(q, x) == EntryOf(q, x).errors

\* A tally is that of its step.
LEMMA TallyFound ==
    ASSUME NEW q \in Sums, NEW x \in StepIds
    PROVE  /\ \A i \in DOMAIN q : q[i].step = x => Has(q, x) = q[i].errors
           /\ ~Listed(q, x) => Has(q, x) = 0
           /\ Has(q, x) \in Nat
<1>1. Distinct(q) /\ \A i \in DOMAIN q : q[i] \in Tallies
  BY PlacesOf DEF Sums
<1>2. CASE Listed(q, x)
  <2> DEFINE k == CHOOSE i \in DOMAIN q : q[i].step = x
  <2>1. k \in DOMAIN q /\ q[k].step = x
    BY <1>2 DEF Listed
  <2>2. EntryOf(q, x) = q[k]
    BY <1>2 DEF EntryOf
  <2> HIDE DEF k
  <2>3. \A i \in DOMAIN q : q[i].step = x => i = k
    BY <1>1, <2>1 DEF Distinct
  <2>4. q[k].errors \in Nat
    BY <1>1, <2>1 DEF Tallies
  <2> QED
    BY <1>2, <2>1, <2>2, <2>3, <2>4 DEF Has
<1>3. CASE ~Listed(q, x)
  BY <1>3 DEF EntryOf, Has, Listed
<1> QED
  BY <1>2, <1>3

\* Counting an entry adds its errors to those of its step.
LEMMA CountErrorsIs ==
    ASSUME NEW q \in Sums, NEW e \in Entries
    PROVE  /\ CountErrors(q, e) \in Sums
           /\ \A x \in StepIds : Has(CountErrors(q, e), x)
                                 = Has(q, x) + IF x = e.step THEN e.errors ELSE 0
<1> DEFINE r == CountErrors(q, e)
<1>1. /\ q \in Seq(Tallies) /\ Distinct(q) /\ \A i \in DOMAIN q : q[i] \in Tallies
      /\ Len(q) \in Nat /\ DOMAIN q = 1..Len(q)
  BY PlacesOf DEF Sums
<1>2. e.step \in StepIds /\ e.errors \in Nat
  BY DEF Entries
<1>3. CASE Listed(q, e.step)
  <2> DEFINE f(i) == IF q[i].step = e.step THEN [q[i] EXCEPT !.errors = @ + e.errors] ELSE q[i]
  <2>1. r = [i \in DOMAIN q |-> f(i)]
    BY <1>3 DEF CountErrors
  <2>2. \A i \in DOMAIN q : /\ f(i) \in Tallies /\ f(i).step = q[i].step
                            /\ f(i).errors = q[i].errors
                                             + IF q[i].step = e.step THEN e.errors ELSE 0
    <3>1. TAKE i \in DOMAIN q
    <3>2. q[i] \in Tallies /\ q[i].errors \in Nat
      BY <1>1 DEF Tallies
    <3>3. CASE q[i].step = e.step
      <4> DEFINE d == q[i].errors + e.errors
      <4>1. f(i) = [q[i] EXCEPT !.errors = d]
        BY <3>3
      <4>2. d \in Nat
        BY <1>2, <3>2
      <4> HIDE DEF d, f
      <4>3. f(i) \in Tallies /\ f(i).step = q[i].step /\ f(i).errors = d
        BY <3>2, <4>1, <4>2 DEF Tallies
      <4> QED
        BY <3>3, <4>3 DEF d
    <3>4. CASE q[i].step # e.step
      BY <3>2, <3>4
    <3> QED
      BY <3>3, <3>4
  <2> HIDE DEF f, r
  <2>3. r \in Seq(Tallies)
    BY <1>1, <2>1, <2>2
  <2>4. DOMAIN r = DOMAIN q /\ \A i \in DOMAIN q : r[i] = f(i)
    BY <2>1
  <2>5. r \in Sums
    BY <1>1, <2>2, <2>3, <2>4 DEF Sums, Distinct
  <2>6. ASSUME NEW x \in StepIds
        PROVE  Has(r, x) = Has(q, x) + IF x = e.step THEN e.errors ELSE 0
    <3>1. CASE Listed(q, x)
      <4>1. PICK i \in DOMAIN q : q[i].step = x
        BY <3>1 DEF Listed
      <4>2. Has(q, x) = q[i].errors
        BY <4>1, TallyFound
      <4>3. r[i].step = x /\ i \in DOMAIN r
        BY <2>2, <2>4, <4>1
      <4>4. Has(r, x) = r[i].errors
        BY <2>5, <4>3, TallyFound
      <4> QED
        BY <2>2, <2>4, <4>1, <4>2, <4>4
    <3>2. CASE ~Listed(q, x)
      <4>1. ~Listed(r, x) /\ x # e.step
        BY <1>3, <2>2, <2>4, <3>2 DEF Listed
      <4>2. Has(r, x) = 0 /\ Has(q, x) = 0
        BY <2>5, <3>2, <4>1, TallyFound
      <4> QED
        BY <4>1, <4>2
    <3> QED
      BY <3>1, <3>2
  <2> QED
    BY <2>5, <2>6 DEF r
<1>4. CASE ~Listed(q, e.step)
  <2> DEFINE t == [step |-> e.step, errors |-> e.errors]
             k == Len(q) + 1
  <2>1. t \in Tallies /\ t.step = e.step /\ t.errors = e.errors
    BY <1>2 DEF Tallies
  <2>2. r = Append(q, t)
    BY <1>4 DEF CountErrors
  <2> HIDE DEF t, r
  <2>3. r \in Seq(Tallies)
    BY <1>1, <2>1, <2>2, AppendProperties
  <2>4. /\ DOMAIN r = DOMAIN q \cup {k} /\ k \notin DOMAIN q
        /\ \A i \in DOMAIN q : r[i] = q[i]
        /\ r[k] = t
    BY <1>1, <2>2, OneMore
  <2> HIDE DEF k
  <2>5. \A i \in DOMAIN q : q[i].step # e.step
    BY <1>4 DEF Listed
  <2>6. Distinct(r)
    <3>1. SUFFICES ASSUME NEW i \in DOMAIN r, NEW j \in DOMAIN r, r[i].step = r[j].step
                   PROVE  i = j
      BY DEF Distinct
    <3>2. CASE i \in DOMAIN q /\ j \in DOMAIN q
      BY <1>1, <2>4, <3>1, <3>2 DEF Distinct
    <3>3. CASE i = k \/ j = k
      BY <2>1, <2>4, <2>5, <3>1, <3>3
    <3> QED
      BY <2>4, <3>2, <3>3
  <2>7. r \in Sums
    BY <2>3, <2>6 DEF Sums
  <2>8. ASSUME NEW x \in StepIds
        PROVE  Has(r, x) = Has(q, x) + IF x = e.step THEN e.errors ELSE 0
    <3>1. CASE x = e.step
      <4>1. Has(q, x) = 0
        BY <1>4, <3>1, TallyFound
      <4>2. Has(r, x) = r[k].errors
        BY <2>1, <2>4, <2>7, <3>1, TallyFound
      <4> QED
        BY <1>2, <2>1, <2>4, <3>1, <4>1, <4>2
    <3>2. CASE x # e.step /\ Listed(q, x)
      <4>1. PICK i \in DOMAIN q : q[i].step = x
        BY <3>2 DEF Listed
      <4>2. Has(q, x) = q[i].errors
        BY <4>1, TallyFound
      <4>3. r[i] = q[i] /\ i \in DOMAIN r
        BY <2>4
      <4>4. Has(r, x) = r[i].errors
        BY <2>7, <4>1, <4>3, TallyFound
      <4>5. Has(q, x) \in Nat
        BY TallyFound
      <4> QED
        BY <3>2, <4>2, <4>3, <4>4, <4>5
    <3>3. CASE x # e.step /\ ~Listed(q, x)
      <4>1. ~Listed(r, x)
        BY <2>1, <2>4, <3>3 DEF Listed
      <4>2. Has(r, x) = 0 /\ Has(q, x) = 0
        BY <2>7, <3>3, <4>1, TallyFound
      <4> QED
        BY <3>3, <4>2
    <3> QED
      BY <3>1, <3>2, <3>3
  <2> QED
    BY <2>7, <2>8 DEF r
<1> QED
  BY <1>3, <1>4

Tallying == [p \in Sums \X Entries |-> CountErrors(p[1], p[2])]

\* A team's entries are counted by a fold,
LEMMA TalliesAre ==
    ASSUME NEW a \in Sums, NEW q \in Seq(Entries)
    PROVE  FoldLeft(CountErrors, a, q) = Fold(Tallying, a, q) /\ FoldLeft(CountErrors, a, q) \in Sums
<1> DEFINE F == Tallying
           l == q
           D == DOMAIN l
           I == Sums
           E == Entries
           b == a
           Runs(g) == g = [s \in SUBSET D |-> IF s = {} THEN b ELSE CountErrors(g[s \ {Max(s)}], l[Max(s)])]
<1>1. FoldLeft(CountErrors, a, q) = (CHOOSE g : Runs(g))[D]
  BY DEF FoldLeft, MapThenFoldSet
<1>2. Stays(F, b, E, I) /\ l \in Seq(E) /\ \A v \in I, e \in E : F[<<v, e>>] = CountErrors(v, e)
  <2>1. \A v \in I, e \in E : F[<<v, e>>] = CountErrors(v, e) /\ CountErrors(v, e) \in I
    BY CountErrorsIs DEF Tallying
  <2> QED
    BY <2>1 DEF Stays
<1> HIDE DEF F, I, E, b, l
<1>3. PICK h : Iterates(F, b, l, D, h) /\ \A s \in SUBSET D : h[s] \in I
  BY <1>2, FoldSteps
<1>4. \A s \in (SUBSET D) \ {{}} : l[Max(s)] \in E
  BY <1>2, FoldSteps
<1>5. Runs(h)
  <2>1. \A s \in SUBSET D : (IF s = {} THEN b ELSE F[<<h[s \ {Max(s)}], l[Max(s)]>>])
                          = (IF s = {} THEN b ELSE CountErrors(h[s \ {Max(s)}], l[Max(s)]))
    BY <1>2, <1>3, <1>4
  <2> QED
    BY <1>3, <2>1 DEF Iterates
<1>6. PICK g : g = (CHOOSE f : Runs(f)) /\ Runs(g)
  <2> HIDE DEF Runs
  <2> QED
    BY <1>5, Zenon
<1>7. OnParts(g, D) /\ \A s \in SUBSET D : g[s] = IF s = {} THEN b ELSE CountErrors(g[s \ {Max(s)}], l[Max(s)])
  <2>1. OnParts(g, D)
    BY <1>6 DEF OnParts
  <2> QED
    BY <1>6, <2>1
<1> HIDE DEF Runs
<1>8. Reads(g, F, b, l, I)
  <2>1. \A s \in (SUBSET D) \ {{}} : s \in SUBSET D /\ s # {}
    OBVIOUS
  <2> QED
    BY <1>2, <1>4, <1>7, <2>1 DEF Reads
<1>9. g[D] = Fold(F, b, l) /\ Fold(F, b, l) \in I
  BY <1>2, <1>8, FoldRead, FoldInto
<1> QED
  BY <1>1, <1>6, <1>9 DEF F, I, b, l

\* which adds its errors step by step.
LEMMA TeamTallied ==
    ASSUME NEW a \in Sums, NEW q \in Lists, NEW x \in StepIds
    PROVE  Has(FoldLeft(CountErrors, a, q), x) = Has(a, x) + Has(q, x)
<1> DEFINE V(p) == FoldLeft(CountErrors, a, p)
           Q == {p \in Seq(Entries) : Distinct(p) => Has(V(p), x) = Has(a, x) + Has(p, x)}
<1>0. \A p \in Seq(Entries) : V(p) = Fold(Tallying, a, p) /\ V(p) \in Sums
  BY TalliesAre
<1>a. Has(a, x) \in Nat
  BY TallyFound
<1> HIDE DEF V
<1>1. <<>> \in Q
  <2>1. <<>> \in Seq(Entries)
    OBVIOUS
  <2>2. V(<<>>) = a
    BY <1>0, <2>1, FoldEmpty
  <2>3. Has(<<>>, x) = 0
    BY DEF Has, EntryOf, Listed
  <2> QED
    BY <1>a, <2>1, <2>2, <2>3
<1>2. ASSUME NEW p \in Seq(Entries), p \in Q, NEW e \in Entries PROVE Append(p, e) \in Q
  <2> DEFINE m == Append(p, e)
  <2>1. m \in Seq(Entries)
    BY AppendProperties
  <2>2. V(m) = CountErrors(V(p), e) /\ V(p) \in Sums
    <3> DEFINE F == Tallying
    <3> HIDE DEF F
    <3>1. Fold(F, a, m) = F[<<Fold(F, a, p), e>>]
      BY FoldAppend
    <3>2. V(p) \in Sums /\ V(m) = F[<<V(p), e>>]
      BY <1>0, <2>1, <3>1 DEF F
    <3>3. F[<<V(p), e>>] = CountErrors(V(p), e)
      BY <3>2 DEF F, Tallying
    <3> QED
      BY <3>2, <3>3
  <2>3. SUFFICES ASSUME Distinct(m) PROVE Has(V(m), x) = Has(a, x) + Has(m, x)
    BY <2>1
  <2>4. /\ DOMAIN m = DOMAIN p \cup {Len(p) + 1} /\ Len(p) + 1 \notin DOMAIN p
        /\ \A i \in DOMAIN p : m[i] = p[i]
        /\ m[Len(p) + 1] = e
    BY OneMore
  <2> HIDE DEF m
  <2>5. Distinct(p) /\ ~Listed(p, e.step)
    BY <2>3, <2>4 DEF Distinct, Listed
  <2>6. p \in Lists /\ e.step \in StepIds /\ e.errors \in Nat
    BY <2>5 DEF Lists, Entries
  <2>7. m = WithEntry(p, e)
    BY <2>5 DEF WithEntry, m
  <2>8. EntryOf(m, x) = IF x = e.step THEN e ELSE EntryOf(p, x)
    BY <2>6, <2>7, WithEntryOK
  <2>9. Has(p, x) \in Nat /\ (x = e.step => Has(p, x) = 0)
    <3>1. EntryOf(p, x) \in Entries /\ (~Listed(p, x) => EntryOf(p, x).errors = 0)
      BY <2>6, EntryFound
    <3> QED
      BY <2>5, <3>1 DEF Has, Entries
  <2>10. Has(V(m), x) = Has(V(p), x) + IF x = e.step THEN e.errors ELSE 0
    BY <2>2, CountErrorsIs
  <2>11. Has(V(p), x) = Has(a, x) + Has(p, x)
    BY <1>2, <2>5
  <2>12. Has(m, x) = Has(p, x) + IF x = e.step THEN e.errors ELSE 0
    BY <2>6, <2>8, <2>9 DEF Has
  <2> QED
    BY <1>a, <2>6, <2>9, <2>10, <2>11, <2>12
<1>3. Seq(Entries) \subseteq Q
  <2> HIDE DEF Q
  <2> QED
    BY <1>1, <1>2, AllSequences
<1>4. q \in Seq(Entries) /\ Distinct(q)
  BY DEF Lists
<1> QED
  BY <1>3, <1>4 DEF V

Gathering == [p \in Sums \X AnyTables |-> FoldLeft(CountErrors, p[1], p[2].enigmes)]

\* All teams are, by a fold of folds.
LEMMA GatheredIs ==
    ASSUME NEW q \in Seq(AnyTables)
    PROVE  ErrorsByStep(q) = Fold(Gathering, <<>>, q) /\ ErrorsByStep(q) \in Sums
<1> DEFINE F == Gathering
           l == q
           D == DOMAIN l
           I == Sums
           E == AnyTables
           b == <<>>
           Runs(g) == g = [s \in SUBSET D |-> IF s = {} THEN b ELSE FoldLeft(CountErrors, g[s \ {Max(s)}], l[Max(s)].enigmes)]
<1>1. ErrorsByStep(q) = (CHOOSE g : Runs(g))[D]
  BY DEF FoldLeft, MapThenFoldSet, ErrorsByStep
<1>2. Stays(F, b, E, I) /\ l \in Seq(E) /\ \A v \in I, e \in E : F[<<v, e>>] = FoldLeft(CountErrors, v, e.enigmes)
  <2>1. \A v \in I, e \in E : /\ F[<<v, e>>] = FoldLeft(CountErrors, v, e.enigmes)
                              /\ FoldLeft(CountErrors, v, e.enigmes) \in I
    <3>1. \A v \in Sums, e \in AnyTables : e.enigmes \in Seq(Entries)
      BY DEF AnyTables, Lists
    <3>2. \A v \in Sums, e \in AnyTables : FoldLeft(CountErrors, v, e.enigmes) \in Sums
      BY <3>1, TalliesAre
    <3> QED
      BY <3>2 DEF Gathering
  <2>2. b \in I
    BY DEF Sums, Distinct
  <2> QED
    BY <2>1, <2>2 DEF Stays
<1> HIDE DEF F, I, E, b, l
<1>3. PICK h : Iterates(F, b, l, D, h) /\ \A s \in SUBSET D : h[s] \in I
  BY <1>2, FoldSteps
<1>4. \A s \in (SUBSET D) \ {{}} : l[Max(s)] \in E
  BY <1>2, FoldSteps
<1>5. Runs(h)
  <2>1. \A s \in SUBSET D : (IF s = {} THEN b ELSE F[<<h[s \ {Max(s)}], l[Max(s)]>>])
                          = (IF s = {} THEN b ELSE FoldLeft(CountErrors, h[s \ {Max(s)}], l[Max(s)].enigmes))
    BY <1>2, <1>3, <1>4
  <2> QED
    BY <1>3, <2>1 DEF Iterates
<1>6. PICK g : g = (CHOOSE f : Runs(f)) /\ Runs(g)
  <2> HIDE DEF Runs
  <2> QED
    BY <1>5, Zenon
<1>7. OnParts(g, D) /\ \A s \in SUBSET D : g[s] = IF s = {} THEN b ELSE FoldLeft(CountErrors, g[s \ {Max(s)}], l[Max(s)].enigmes)
  <2>1. OnParts(g, D)
    BY <1>6 DEF OnParts
  <2> QED
    BY <1>6, <2>1
<1> HIDE DEF Runs
<1>8. Reads(g, F, b, l, I)
  <2>1. \A s \in (SUBSET D) \ {{}} : s \in SUBSET D /\ s # {}
    OBVIOUS
  <2> QED
    BY <1>2, <1>4, <1>7, <2>1 DEF Reads
<1>9. g[D] = Fold(F, b, l) /\ Fold(F, b, l) \in I
  BY <1>2, <1>8, FoldRead, FoldInto
<1> QED
  BY <1>1, <1>6, <1>9 DEF F, I, b, l

MaybeTallies == Tallies \cup {NoOne}

Hardening == [p \in MaybeTallies \X Tallies |-> Harder(p[1], p[2])]

\* The hardest énigme is picked by a fold,
LEMMA HardestIs ==
    ASSUME NEW q \in Seq(Tallies)
    PROVE  FoldLeft(Harder, NoOne, q) = Fold(Hardening, NoOne, q) /\ FoldLeft(Harder, NoOne, q) \in MaybeTallies
<1> DEFINE F == Hardening
           l == q
           D == DOMAIN l
           I == MaybeTallies
           E == Tallies
           b == NoOne
           Runs(g) == g = [s \in SUBSET D |-> IF s = {} THEN b ELSE Harder(g[s \ {Max(s)}], l[Max(s)])]
<1>1. FoldLeft(Harder, NoOne, q) = (CHOOSE g : Runs(g))[D]
  BY DEF FoldLeft, MapThenFoldSet
<1>2. Stays(F, b, E, I) /\ l \in Seq(E) /\ \A v \in I, e \in E : F[<<v, e>>] = Harder(v, e)
  <2>1. \A v \in I, e \in E : F[<<v, e>>] = Harder(v, e) /\ Harder(v, e) \in I
    BY DEF Hardening, Harder, MaybeTallies
  <2> QED
    BY <2>1 DEF Stays, MaybeTallies
<1> HIDE DEF F, I, E, b, l
<1>3. PICK h : Iterates(F, b, l, D, h) /\ \A s \in SUBSET D : h[s] \in I
  BY <1>2, FoldSteps
<1>4. \A s \in (SUBSET D) \ {{}} : l[Max(s)] \in E
  BY <1>2, FoldSteps
<1>5. Runs(h)
  <2>1. \A s \in SUBSET D : (IF s = {} THEN b ELSE F[<<h[s \ {Max(s)}], l[Max(s)]>>])
                          = (IF s = {} THEN b ELSE Harder(h[s \ {Max(s)}], l[Max(s)]))
    BY <1>2, <1>3, <1>4
  <2> QED
    BY <1>3, <2>1 DEF Iterates
<1>6. PICK g : g = (CHOOSE f : Runs(f)) /\ Runs(g)
  <2> HIDE DEF Runs
  <2> QED
    BY <1>5, Zenon
<1>7. OnParts(g, D) /\ \A s \in SUBSET D : g[s] = IF s = {} THEN b ELSE Harder(g[s \ {Max(s)}], l[Max(s)])
  <2>1. OnParts(g, D)
    BY <1>6 DEF OnParts
  <2> QED
    BY <1>6, <2>1
<1> HIDE DEF Runs
<1>8. Reads(g, F, b, l, I)
  <2>1. \A s \in (SUBSET D) \ {{}} : s \in SUBSET D /\ s # {}
    OBVIOUS
  <2> QED
    BY <1>2, <1>4, <1>7, <2>1 DEF Reads
<1>9. g[D] = Fold(F, b, l) /\ Fold(F, b, l) \in I
  BY <1>2, <1>8, FoldRead, FoldInto
<1> QED
  BY <1>1, <1>6, <1>9 DEF F, I, b, l

\* The one picked has errors, and none has more; none is picked where none has any.
Picks(q, h) ==
    /\ h = NoOne => \A i \in DOMAIN q : q[i].errors = 0
    /\ h # NoOne => /\ h.errors > 0 /\ \E i \in DOMAIN q : q[i] = h
                    /\ \A i \in DOMAIN q : q[i].errors <= h.errors

\* which picks one with the most errors, if any has some.
LEMMA HardestPicks ==
    ASSUME NEW q \in Seq(Tallies) PROVE Picks(q, FoldLeft(Harder, NoOne, q))
<1> DEFINE V(p) == FoldLeft(Harder, NoOne, p)
           Q == {p \in Seq(Tallies) : Picks(p, V(p))}
<1>0. \A p \in Seq(Tallies) : V(p) = Fold(Hardening, NoOne, p) /\ V(p) \in MaybeTallies
  BY HardestIs
<1> HIDE DEF V
<1>1. <<>> \in Q
  <2>1. <<>> \in Seq(Tallies)
    OBVIOUS
  <2>2. V(<<>>) = NoOne
    BY <1>0, <2>1, FoldEmpty
  <2>3. Picks(<<>>, NoOne)
    BY DEF Picks
  <2> QED
    BY <2>1, <2>2, <2>3
<1>2. ASSUME NEW p \in Seq(Tallies), p \in Q, NEW e \in Tallies PROVE Append(p, e) \in Q
  <2> DEFINE m == Append(p, e)
             v == V(p)
  <2>1. m \in Seq(Tallies) /\ v \in MaybeTallies /\ Picks(p, v)
    BY <1>0, <1>2, AppendProperties
  <2>2. V(m) = Harder(v, e)
    <3> DEFINE F == Hardening
    <3> HIDE DEF F
    <3>1. Fold(F, NoOne, m) = F[<<Fold(F, NoOne, p), e>>]
      BY FoldAppend
    <3>2. V(m) = F[<<v, e>>]
      BY <1>0, <2>1, <3>1 DEF F
    <3>3. F[<<v, e>>] = Harder(v, e)
      BY <2>1 DEF F, Hardening
    <3> QED
      BY <3>2, <3>3
  <2>3. /\ DOMAIN m = DOMAIN p \cup {Len(p) + 1}
        /\ \A i \in DOMAIN p : m[i] = p[i]
        /\ m[Len(p) + 1] = e
    BY OneMore
  <2>4. e.errors \in Nat /\ (v # NoOne => v.errors \in Nat) /\ e # NoOne
        /\ \A i \in DOMAIN p : p[i].errors \in Nat
    <3>1. e \in Tallies /\ (v # NoOne => v \in Tallies) /\ \A i \in DOMAIN p : p[i] \in Tallies
      BY <2>1, PlacesOf DEF MaybeTallies
    <3> QED
      BY <3>1, ReportAssumption DEF Tallies, ReportAssumption
  <2> HIDE DEF m, v
  <2>5. Picks(m, Harder(v, e))
    <3>1. CASE v = NoOne
      BY <2>1, <2>3, <2>4, <3>1 DEF Picks, Harder
    <3>2. CASE v # NoOne /\ e.errors > v.errors
      <4>1. Harder(v, e) = e /\ e.errors > 0
        BY <2>1, <2>4, <3>2 DEF Picks, Harder
      <4>2. \A i \in DOMAIN p : p[i].errors <= e.errors
        BY <2>1, <2>4, <3>2 DEF Picks
      <4> QED
        BY <2>3, <2>4, <4>1, <4>2 DEF Picks
    <3>3. CASE v # NoOne /\ ~(e.errors > v.errors)
      <4>1. Harder(v, e) = v /\ e.errors <= v.errors
        BY <2>4, <3>3 DEF Harder
      <4> QED
        BY <2>1, <2>3, <2>4, <3>3, <4>1 DEF Picks
    <3> QED
      BY <3>1, <3>2, <3>3
  <2> QED
    BY <2>1, <2>2, <2>5 DEF m
<1>3. Seq(Tallies) \subseteq Q
  <2> HIDE DEF Q
  <2> QED
    BY <1>1, <1>2, AllSequences
<1> QED
  BY <1>3 DEF V

LEMMA TwiceIsLog ==
    ASSUME NEW p \in Seq(Events)
    PROVE  /\ Twice(p) \in Seq(Events) /\ Len(Twice(p)) = 2 * Len(p)
           /\ \A i \in 1..2 * Len(p) : (i + 1) \div 2 \in 1..Len(p)
<1> DEFINE n == Len(p)
           s == Twice(p)
<1>1. n \in Nat /\ \A i \in 1..n : p[i] \in Events
  BY ElementOfSeq, LenProperties
<1> HIDE DEF n
<1>2. \A i \in 1..2 * n : (i + 1) \div 2 \in 1..n
  BY <1>1
<1>3. s = [i \in 1..2 * n |-> p[(i + 1) \div 2]]
  BY DEF Twice, n
<1> HIDE DEF s
<1>4. \A i \in 1..2 * n : s[i] \in Events
  BY <1>1, <1>2, <1>3
<1>5. s \in [1..2 * n -> Events] /\ 2 * n \in Nat
  BY <1>1, <1>3, <1>4
<1>6. s \in Seq(Events)
  BY <1>5, SeqDef
<1>7. Len(s) = 2 * n
  BY <1>3, <1>5, <1>6, LenProperties
<1> QED
  BY <1>2, <1>6, <1>7 DEF s, n

LEMMA TwiceAppend ==
    ASSUME NEW p \in Seq(Events), NEW e \in Events
    PROVE  /\ Twice(p) \in Seq(Events) /\ Append(Twice(p), e) \in Seq(Events)
           /\ Twice(Append(p, e)) = Append(Append(Twice(p), e), e)
<1> DEFINE n == Len(p)
           q == Append(p, e)
           s == Twice(p)
           u == Twice(q)
           v == Append(Append(s, e), e)
<1>1. n \in Nat /\ DOMAIN p = 1..n /\ \A i \in 1..n : p[i] \in Events
  BY ElementOfSeq, LenProperties
<1>2. q \in Seq(Events) /\ Len(q) = n + 1 /\ q[n + 1] = e /\ \A i \in 1..n : q[i] = p[i]
  BY AppendProperties
<1> HIDE DEF n, q
<1>3. \A i \in 1..2 * n : (i + 1) \div 2 \in 1..n
  BY TwiceIsLog DEF n
<1>4. s = [i \in 1..2 * n |-> p[(i + 1) \div 2]]
  BY DEF Twice, n
<1>5. s \in Seq(Events) /\ Len(s) = 2 * n
  BY TwiceIsLog DEF n
<1>6. Append(s, e) \in Seq(Events) /\ v \in Seq(Events) /\ Len(v) = 2 * n + 2
      /\ (\A i \in 1..2 * n : v[i] = s[i]) /\ v[2 * n + 1] = e /\ v[2 * n + 2] = e
  <2> HIDE DEF s
  <2> DEFINE t == Append(s, e)
  <2>1. t \in Seq(Events) /\ Len(t) = 2 * n + 1 /\ t[2 * n + 1] = e
        /\ \A i \in 1..2 * n : t[i] = s[i]
    BY <1>1, <1>5, AppendProperties
  <2> HIDE DEF t
  <2>2. Append(t, e) \in Seq(Events) /\ Len(Append(t, e)) = 2 * n + 2
        /\ Append(t, e)[2 * n + 2] = e /\ \A i \in 1..2 * n + 1 : Append(t, e)[i] = t[i]
    BY <1>1, <2>1, AppendProperties
  <2>3. \A i \in 1..2 * n : i \in 1..2 * n + 1
    BY <1>1
  <2>4. 2 * n + 1 \in 1..2 * n + 1
    BY <1>1
  <2> QED
    BY <2>1, <2>2, <2>3, <2>4 DEF t
<1>7. u = [i \in 1..2 * n + 2 |-> q[(i + 1) \div 2]]
  <2>1. 2 * (n + 1) = 2 * n + 2
    BY <1>1
  <2> QED
    BY <1>2, <2>1 DEF Twice
<1>8. v = [i \in 1..2 * n + 2 |-> v[i]]
  <2> HIDE DEF v
  <2> QED
    BY <1>6, LenProperties
<1>9. ASSUME NEW i \in 1..2 * n + 2 PROVE q[(i + 1) \div 2] = v[i]
  <2> HIDE DEF v, s
  <2>1. CASE i \in 1..2 * n
    <3>1. (i + 1) \div 2 \in 1..n /\ v[i] = s[i] /\ s[i] = p[(i + 1) \div 2]
      BY <1>3, <1>4, <1>6, <2>1
    <3> QED
      BY <1>2, <3>1
  <2>2. CASE i \notin 1..2 * n
    <3>1. (i = 2 * n + 1 \/ i = 2 * n + 2) /\ (i + 1) \div 2 = n + 1
      BY <1>1, <2>2
    <3> QED
      BY <1>2, <1>6, <3>1
  <2> QED
    BY <2>1, <2>2
<1>10. u = v
  <2> HIDE DEF u, v
  <2> QED
    BY <1>7, <1>8, <1>9
<1> QED
  BY <1>5, <1>6, <1>10 DEF q

\* A log whose events came twice has everything twice.
LEMMA OccurrencesTwice ==
    ASSUME NEW l \in Seq(Events), NEW kind, NEW x
    PROVE  Occurrences(Twice(l), kind, x) = 2 * Occurrences(l, kind, x)
<1> DEFINE n(p) == Occurrences(p, kind, x)
           Q == {p \in Seq(Events) : n(Twice(p)) = 2 * n(p)}
<1>0. \A p \in Seq(Events) : n(p) \in Nat
  BY OccurrencesFinite
<1>a. \A p \in Seq(Events), e \in Events :
         n(Append(p, e)) = n(p) + IF e.kind = kind /\ e.about = x THEN 1 ELSE 0
  BY OccurrencesAppend
<1> HIDE DEF n
<1>1. <<>> \in Q
  <2>1. <<>> \in Seq(Events) /\ Twice(<<>>) = <<>>
    BY EmptySeq DEF Twice
  <2>2. n(<<>>) = 0
    <3>1. {i \in DOMAIN <<>> : <<>>[i].kind = kind /\ <<>>[i].about = x} = {}
      OBVIOUS
    <3> QED
      BY <3>1, FS_EmptySet DEF Occurrences, n
  <2> QED
    BY <1>0, <2>1, <2>2
<1>2. ASSUME NEW p \in Seq(Events), p \in Q, NEW e \in Events PROVE Append(p, e) \in Q
  <2> DEFINE c == Twice(p)
             d == IF e.kind = kind /\ e.about = x THEN 1 ELSE 0
  <2>1. /\ Twice(Append(p, e)) = Append(Append(c, e), e)
        /\ c \in Seq(Events) /\ Append(c, e) \in Seq(Events) /\ Append(p, e) \in Seq(Events)
    BY TwiceAppend, TwiceIsLog, AppendProperties
  <2>2. /\ n(Append(Append(c, e), e)) = n(Append(c, e)) + d
        /\ n(Append(c, e)) = n(c) + d /\ n(Append(p, e)) = n(p) + d /\ n(c) = 2 * n(p)
    BY <1>2, <1>a, <2>1
  <2>3. n(p) \in Nat /\ d \in Nat
    BY <1>0
  <2> HIDE DEF c, d
  <2>4. n(Append(Append(c, e), e)) = 2 * n(Append(p, e))
    BY <2>2, <2>3
  <2> QED
    BY <2>1, <2>4 DEF c
<1>3. Seq(Events) \subseteq Q
  <2> HIDE DEF Q
  <2> QED
    BY <1>1, <1>2, AllSequences
<1> QED
  BY <1>3 DEF n

\* It ends when the log does, with the same points.
LEMMA EndsTwice ==
    ASSUME NEW l \in Seq(Events), NEW v
    PROVE  /\ (\E i : Ends(Twice(l), i)) <=> \E i : Ends(l, i)
           /\ EndsWith(Twice(l), v) <=> EndsWith(l, v)
<1> DEFINE n(p) == \E i : Ends(p, i)
           w(p) == EndsWith(p, v)
           Q == {p \in Seq(Events) : (n(Twice(p)) <=> n(p)) /\ (w(Twice(p)) <=> w(p))}
<1>0. ASSUME NEW p \in Seq(Events), NEW e \in Events
      PROVE  /\ n(Append(p, e)) <=> n(p) \/ e.kind = "session-complete"
             /\ w(Append(p, e)) <=> w(p) \/ (e.kind = "session-complete" /\ e.about = v)
  BY EndsAppend
<1> HIDE DEF n, w
<1>1. <<>> \in Q
  BY EmptySeq DEF Twice
<1>2. ASSUME NEW p \in Seq(Events), p \in Q, NEW e \in Events PROVE Append(p, e) \in Q
  <2> DEFINE c == Twice(p)
  <2>1. /\ Twice(Append(p, e)) = Append(Append(c, e), e)
        /\ c \in Seq(Events) /\ Append(c, e) \in Seq(Events) /\ Append(p, e) \in Seq(Events)
    BY TwiceAppend, TwiceIsLog, AppendProperties
  <2> HIDE DEF c
  <2>2. /\ n(Append(Append(c, e), e)) <=> n(c) \/ e.kind = "session-complete"
        /\ w(Append(Append(c, e), e))
              <=> w(c) \/ (e.kind = "session-complete" /\ e.about = v)
    BY <1>0, <2>1
  <2>3. /\ n(Append(p, e)) <=> n(p) \/ e.kind = "session-complete"
        /\ w(Append(p, e)) <=> w(p) \/ (e.kind = "session-complete" /\ e.about = v)
    BY <1>0
  <2>4. (n(c) <=> n(p)) /\ (w(c) <=> w(p))
    BY <1>2 DEF c
  <2>5. /\ n(Append(Append(c, e), e)) <=> n(Append(p, e))
        /\ w(Append(Append(c, e), e)) <=> w(Append(p, e))
    BY <2>2, <2>3, <2>4
  <2> QED
    BY <2>1, <2>5
<1>3. Seq(Events) \subseteq Q
  <2> HIDE DEF Q
  <2> QED
    BY <1>1, <1>2, AllSequences
<1> QED
  BY <1>3 DEF n, w

\* The three teams of the session.
Absent == TeamStats(1, <<>>)
Player == TeamStats(2, current.log)
Doubled == TeamStats(3, Twice(current.log))

LEMMA TeamsAre ==
    ASSUME current \in Plays
    PROVE  /\ SessionTeams = <<Absent, Player, Doubled>>
           /\ Absent \in Tables(1) /\ Player \in Tables(2) /\ Doubled \in Tables(3)
           /\ Absent \in AnyTables /\ Player \in AnyTables /\ Doubled \in AnyTables
<1>1. current.log \in Seq(Events) /\ <<>> \in Seq(Events)
      /\ Twice(current.log) \in Seq(Events)
  BY PlaysFields, FlowFields, EmptySeq, TwiceIsLog
<1>2. Absent \in Tables(1) /\ Player \in Tables(2) /\ Doubled \in Tables(3)
  BY <1>1, TeamStatsIs DEF Absent, Player, Doubled
<1>3. Absent \in AnyTables /\ Player \in AnyTables /\ Doubled \in AnyTables
  <2>1. Tables(1) \subseteq AnyTables /\ Tables(2) \subseteq AnyTables
        /\ Tables(3) \subseteq AnyTables
    BY DEF Tables, AnyTables
  <2> QED
    BY <1>2, <2>1
<1>4. SessionTeams = <<Absent, Player, Doubled>>
  <2>1. DOMAIN SessionLogs = 1..3
    BY DEF SessionLogs
  <2>2. SessionLogs[1] = <<>> /\ SessionLogs[2] = current.log
        /\ SessionLogs[3] = Twice(current.log)
    BY DEF SessionLogs
  <2> DEFINE f == SessionTeams
             g == <<Absent, Player, Doubled>>
  <2>3. f = [i \in 1..3 |-> TeamStats(i, SessionLogs[i])]
    BY <2>1 DEF SessionTeams
  <2>4. f[1] = Absent /\ f[2] = Player /\ f[3] = Doubled
    <3> HIDE DEF f
    <3>1. /\ f[1] = TeamStats(1, SessionLogs[1]) /\ f[2] = TeamStats(2, SessionLogs[2])
          /\ f[3] = TeamStats(3, SessionLogs[3])
      BY <2>3
    <3> QED
      BY <2>2, <3>1, Zenon DEF Absent, Player, Doubled
  <2> HIDE DEF f
  <2>5. \A i \in 1..3 : i = 1 \/ i = 2 \/ i = 3
    OBVIOUS
  <2>6. \A i \in 1..3 : f[i] = g[i]
    BY <2>4, <2>5
  <2>7. g = [i \in 1..3 |-> g[i]] /\ f = [i \in 1..3 |-> f[i]]
    BY <2>3
  <2> HIDE DEF g
  <2>8. f = g
    BY <2>6, <2>7
  <2> QED
    BY <2>8 DEF f, g
<1> QED
  BY <1>2, <1>3, <1>4

\* The team without a log has nothing; the one whose log came twice, twice the errors.
LEMMA TeamsTell ==
    ASSUME current \in Plays
    PROVE  /\ Absent = Blank(1)
           /\ Player.completed = IsComplete(current)
           /\ Doubled.completed = IsComplete(current)
           /\ Player.score = IF IsComplete(current) THEN current.score ELSE 0
           /\ Doubled.score = IF IsComplete(current) THEN current.score ELSE 0
           /\ \A x \in StepIds : /\ Has(Player.enigmes, x) = Errors(current, x)
                                 /\ Has(Doubled.enigmes, x) = 2 * Errors(current, x)
                                 /\ Has(Absent.enigmes, x) = 0
                                 /\ Errors(current, x) \in Nat
<1> DEFINE l == current.log
<1>1. l \in Seq(Events) /\ Twice(l) \in Seq(Events) /\ LogEnds(current)
  BY PlaysFields, FlowFields, TwiceIsLog
<1>2. Player \in Tables(2) /\ Doubled \in Tables(3)
  BY TeamsAre
<1>3. Tells(Player, l) /\ Tells(Doubled, Twice(l))
  BY <1>1, StatsTell DEF Player, Doubled
<1>4. Absent = Blank(1)
  BY StatsOfNone DEF Absent
<1>5. Player.completed = IsComplete(current)
      /\ Player.score = IF IsComplete(current) THEN current.score ELSE 0
  BY <1>2, <1>3, EndTold
<1>6. Doubled.completed = IsComplete(current)
  <2>1. Doubled.completed \in BOOLEAN
    BY <1>2 DEF Tables
  <2>2. Doubled.completed <=> \E i : Ends(Twice(l), i)
    BY <1>3 DEF Tells
  <2>3. (\E i : Ends(Twice(l), i)) <=> \E i : Ends(l, i)
    BY <1>1, EndsTwice
  <2>4. IsComplete(current) <=> \E i : Ends(l, i)
    BY <1>1 DEF LogEnds, Ends
  <2> QED
    BY <2>1, <2>2, <2>3, <2>4 DEF IsComplete
<1>7. Doubled.score = IF IsComplete(current) THEN current.score ELSE 0
  <2>1. CASE IsComplete(current)
    <3> DEFINE v == Doubled.score
    <3>1. EndsWith(Twice(l), v)
      BY <1>3, <1>6, <2>1 DEF Tells
    <3>2. EndsWith(l, v)
      <4> HIDE DEF v, l
      <4> QED
        BY <1>1, <3>1, EndsTwice
    <3> QED
      BY <1>1, <2>1, <3>2 DEF EndsWith, Ends, LogEnds
  <2>2. CASE ~IsComplete(current)
    BY <1>3, <1>6, <2>2 DEF Tells
  <2> QED
    BY <2>1, <2>2
<1>8. ASSUME NEW x \in StepIds
      PROVE  /\ Has(Player.enigmes, x) = Errors(current, x)
             /\ Has(Doubled.enigmes, x) = 2 * Errors(current, x)
             /\ Has(Absent.enigmes, x) = 0
             /\ Errors(current, x) \in Nat
  <2>1. Has(Player.enigmes, x) = Errors(current, x)
    BY <1>3 DEF Tells, EntryTells, Has, Errors
  <2>2. Has(Doubled.enigmes, x) = Occurrences(Twice(l), "enigme-error", x)
    BY <1>3 DEF Tells, EntryTells, Has
  <2>3. Occurrences(Twice(l), "enigme-error", x) = 2 * Occurrences(l, "enigme-error", x)
    BY <1>1, OccurrencesTwice
  <2>4. Errors(current, x) \in Nat /\ Errors(current, x) = Occurrences(l, "enigme-error", x)
    BY <1>1, OccurrencesFinite DEF Errors
  <2>5. Absent.enigmes = <<>>
    BY <1>4 DEF Blank
  <2>6. Has(Absent.enigmes, x) = 0
    BY <2>5 DEF Has, EntryOf, Listed
  <2>7. Has(Doubled.enigmes, x) = 2 * Errors(current, x)
    BY <2>2, <2>3, <2>4
  <2> QED
    BY <2>1, <2>4, <2>6, <2>7
<1> QED
  BY <1>4, <1>5, <1>6, <1>7, <1>8

\* So the errors of the session are three times those of the game.
LEMMA ErrorsTallied ==
    ASSUME current \in Plays
    PROVE  /\ ErrorsByStep(SessionTeams) \in Sums
           /\ \A x \in StepIds : Has(ErrorsByStep(SessionTeams), x) = 3 * Errors(current, x)
<1> DEFINE a == Absent
           b == Player
           c == Doubled
           G(q, t) == FoldLeft(CountErrors, q, t.enigmes)
           u == G(<<>>, a)
           v == G(u, b)
           w == G(v, c)
<1>1. SessionTeams = <<a, b, c>> /\ a \in AnyTables /\ b \in AnyTables /\ c \in AnyTables
  BY TeamsAre
<1>2. a.enigmes \in Lists /\ b.enigmes \in Lists /\ c.enigmes \in Lists
  BY <1>1 DEF AnyTables
<1>3. \A x \in StepIds : /\ Has(b.enigmes, x) = Errors(current, x)
                         /\ Has(c.enigmes, x) = 2 * Errors(current, x)
                         /\ Has(a.enigmes, x) = 0
                         /\ Errors(current, x) \in Nat
  BY TeamsTell
<1> HIDE DEF a, b, c
<1>4. \A q \in Sums, t \in AnyTables : G(q, t) \in Sums /\ Gathering[<<q, t>>] = G(q, t)
  <2>1. TAKE q \in Sums, t \in AnyTables
  <2>2. t.enigmes \in Seq(Entries)
    BY DEF AnyTables, Lists
  <2>3. G(q, t) \in Sums
    BY <2>2, TalliesAre
  <2> QED
    BY <2>3 DEF Gathering
<1>5. <<>> \in Sums
  BY DEF Sums, Distinct
<1>6. \A q \in Sums, t \in AnyTables, x \in StepIds : Has(G(q, t), x) = Has(q, x) + Has(t.enigmes, x)
  <2>1. TAKE q \in Sums, t \in AnyTables, x \in StepIds
  <2>2. t.enigmes \in Lists
    BY DEF AnyTables
  <2> QED
    BY <2>2, TeamTallied
<1> HIDE DEF G
<1>7. u \in Sums /\ v \in Sums /\ w \in Sums
  BY <1>1, <1>4, <1>5
<1>8. ErrorsByStep(SessionTeams) = w
  <2>1. <<a, b, c>> \in Seq(AnyTables)
    BY <1>1
  <2>2. ErrorsByStep(<<a, b, c>>) = Fold(Gathering, <<>>, <<a, b, c>>)
    BY <2>1, GatheredIs
  <2> DEFINE F == Gathering
             z == <<>>
  <2> HIDE DEF F, z
  <2>3. Fold(F, z, <<a, b, c>>) = F[<<F[<<F[<<z, a>>], b>>], c>>]
    BY <1>1, FoldThree
  <2>4. F[<<z, a>>] = u /\ F[<<u, b>>] = v /\ F[<<v, c>>] = w
    BY <1>1, <1>4, <1>5, <1>7 DEF F, z
  <2> QED
    BY <1>1, <2>2, <2>3, <2>4 DEF F, z
<1>9. ASSUME NEW x \in StepIds PROVE Has(w, x) = 3 * Errors(current, x)
  <2> DEFINE n == Errors(current, x)
  <2>1. Has(<<>>, x) = 0
    BY DEF Has, EntryOf, Listed
  <2>2. /\ Has(u, x) = Has(<<>>, x) + Has(a.enigmes, x)
        /\ Has(v, x) = Has(u, x) + Has(b.enigmes, x)
        /\ Has(w, x) = Has(v, x) + Has(c.enigmes, x)
    BY <1>1, <1>5, <1>6, <1>7
  <2>3. Has(a.enigmes, x) = 0 /\ Has(b.enigmes, x) = n /\ Has(c.enigmes, x) = 2 * n /\ n \in Nat
    BY <1>3
  <2> HIDE DEF n, u, v, w
  <2>4. Has(w, x) = 3 * n
    BY <2>1, <2>2, <2>3
  <2> QED
    BY <2>4 DEF n
<1> HIDE DEF w
<1> QED
  BY <1>7, <1>8, <1>9

\* The hardest énigme is one with the most errors of all teams.
LEMMA HardestTold ==
    ASSUME current \in Plays
    PROVE  LET h == FoldLeft(Harder, NoOne, ErrorsByStep(SessionTeams))
           IN  IF \A step \in StepIds : Errors(current, step) = 0
               THEN h = NoOne
               ELSE \A step \in StepIds :
                       3 * Errors(current, step) <= h.errors
                       /\ (step = h.step => h.errors = 3 * Errors(current, step))
<1> DEFINE q == ErrorsByStep(SessionTeams)
           h == FoldLeft(Harder, NoOne, q)
<1>1. /\ q \in Sums /\ \A x \in StepIds : Has(q, x) = 3 * Errors(current, x)
  BY ErrorsTallied
<1>2. \A x \in StepIds : Errors(current, x) \in Nat
  BY TeamsTell
<1> HIDE DEF q
<1>3. q \in Seq(Tallies) /\ \A i \in DOMAIN q : q[i] \in Tallies
  BY <1>1, PlacesOf DEF Sums
<1>4. Picks(q, h)
  BY <1>3, HardestPicks
<1> HIDE DEF h
<1>5. \A i \in DOMAIN q : /\ q[i].step \in StepIds /\ q[i].errors \in Nat
                          /\ q[i].errors = 3 * Errors(current, q[i].step)
  <2>1. TAKE i \in DOMAIN q
  <2>2. q[i].step \in StepIds /\ q[i].errors \in Nat
    BY <1>3 DEF Tallies
  <2>3. Has(q, q[i].step) = q[i].errors
    BY <1>1, <2>2, TallyFound
  <2> QED
    BY <1>1, <2>2, <2>3
<1>6. \A x \in StepIds : Errors(current, x) # 0 =>
         \E i \in DOMAIN q : q[i].step = x /\ q[i].errors = 3 * Errors(current, x)
  <2>1. TAKE x \in StepIds
  <2>2. HAVE Errors(current, x) # 0
  <2>3. Has(q, x) # 0
    BY <1>1, <1>2, <2>2
  <2>4. Listed(q, x)
    BY <1>1, <2>3, TallyFound
  <2> QED
    BY <1>5, <2>4 DEF Listed
<1>7. CASE \A x \in StepIds : Errors(current, x) = 0
  <2>1. \A i \in DOMAIN q : q[i].errors = 0
    BY <1>5, <1>7
  <2>2. h = NoOne
    BY <1>4, <2>1 DEF Picks
  <2> QED
    BY <1>7, <2>2 DEF h, q
<1>8. CASE ~\A x \in StepIds : Errors(current, x) = 0
  <2>1. PICK y \in StepIds : Errors(current, y) # 0
    BY <1>8
  <2>2. h # NoOne
    BY <1>2, <1>4, <1>6, <2>1 DEF Picks
  <2>3. PICK k \in DOMAIN q : q[k] = h
    BY <1>4, <2>2 DEF Picks
  <2>4. h.errors \in Nat /\ \A i \in DOMAIN q : q[i].errors <= h.errors
    BY <1>4, <1>5, <2>2, <2>3 DEF Picks
  <2>5. ASSUME NEW x \in StepIds
        PROVE  /\ 3 * Errors(current, x) <= h.errors
               /\ x = h.step => h.errors = 3 * Errors(current, x)
    <3>1. 3 * Errors(current, x) <= h.errors
      <4>1. CASE Errors(current, x) = 0
        BY <2>4, <4>1
      <4>2. CASE Errors(current, x) # 0
        BY <1>6, <2>4, <4>2
      <4> QED
        BY <4>1, <4>2
    <3>2. x = h.step => h.errors = 3 * Errors(current, x)
      BY <1>5, <2>3
    <3> QED
      BY <3>1, <3>2
  <2> QED
    BY <1>8, <2>5 DEF h, q
<1> QED
  BY <1>7, <1>8

\* The figures of the session, once the game is over.
LEMMA SessionTold == ASSUME current \in Plays PROVE SessionFigures
<1> SUFFICES ASSUME IsComplete(current)
             PROVE  /\ Session.completedCount = 2
                    /\ current.score > 0 => Session.bestTeamId = 2
                    /\ \E d \in -3..3 : 6 * Session.averageScore = 4 * current.score + d
                    /\ IF \A step \in StepIds : Errors(current, step) = 0
                       THEN Session.hardestEnigme = NoOne
                       ELSE \A step \in StepIds :
                               3 * Errors(current, step) <= Session.hardestEnigme.errors
                               /\ (step = Session.hardestEnigme.step =>
                                      Session.hardestEnigme.errors = 3 * Errors(current, step))
  BY DEF SessionFigures
<1> DEFINE a == Absent
           b == Player
           c == Doubled
           n == current.score
           q == SessionTeams
<1>1. /\ q = <<a, b, c>> /\ a \in AnyTables /\ b \in AnyTables /\ c \in AnyTables
      /\ b \in Tables(2)
  BY TeamsAre
<1>2. /\ a.completed = FALSE /\ a.score = 0 /\ b.score = n /\ c.score = n
      /\ b.completed = TRUE /\ c.completed = TRUE
  <2>1. a.completed = FALSE /\ a.score = 0
    <3>1. a = Blank(1)
      BY TeamsTell
    <3> QED
      BY <3>1 DEF Blank
  <2>2. b.score = n /\ c.score = n
    BY TeamsTell
  <2>3. b.completed = IsComplete(current) /\ c.completed = IsComplete(current)
    BY TeamsTell
  <2> QED
    BY <2>1, <2>2, <2>3 DEF IsComplete
<1>3. n \in Nat /\ b.teamId = 2
  BY <1>1, PlaysFields, FlowFields DEF Tables
<1> HIDE DEF a, b, c, q, n
<1>4. q # <<>> /\ Len(q) = 3 /\ Head(q) = a /\ Tail(q) = <<b, c>> /\ DOMAIN q = 1..3
      /\ q \in Seq(AnyTables) /\ <<b, c>> \in Seq(AnyTables)
  BY <1>1
<1>5. /\ Session.completedCount = Cardinality({i \in DOMAIN q : q[i].completed})
      /\ Session.bestTeamId = FoldLeft(Better, a, <<b, c>>).teamId
      /\ Session.averageScore = Rounded(FoldLeft(LAMBDA m, t : m + t.score, 0, q), 3)
      /\ Session.hardestEnigme = FoldLeft(Harder, NoOne, ErrorsByStep(q))
  BY <1>4 DEF Session, GlobalStats, q
<1>6. Session.completedCount = 2
  <2>1. {i \in DOMAIN q : q[i].completed} = {2} \cup {3}
    BY <1>1, <1>2, <1>4
  <2>2. IsFiniteSet({2}) /\ Cardinality({2}) = 1
    BY FS_Singleton
  <2>3. Cardinality({2} \cup {3}) = 2
    BY <2>2, FS_AddElement
  <2> QED
    BY <1>5, <2>1, <2>3
<1>7. ASSUME n > 0 PROVE Session.bestTeamId = 2
  <2> DEFINE F == BetterOf
             e == <<b, c>>
  <2>1. FoldLeft(Better, a, e) = Fold(BetterOf, a, e)
    BY <1>1, <1>4, BestIs
  <2>2. BetterOf[<<a, b>>] = b /\ BetterOf[<<b, c>>] = b
    BY <1>1, <1>2, <1>3, <1>7 DEF BetterOf, Better
  <2> HIDE DEF F
  <2>3. Fold(F, a, <<b, c>>) = F[<<F[<<a, b>>], c>>]
    BY <1>1, FoldTwo
  <2>4. FoldLeft(Better, a, e) = b
    BY <2>1, <2>2, <2>3 DEF F
  <2> QED
    BY <1>3, <1>5, <2>4
<1>8. \E d \in -3..3 : 6 * Session.averageScore = 4 * n + d
  <2> DEFINE F == ScoreSum
  <2>1. FoldLeft(LAMBDA m, t : m + t.score, 0, q) = Fold(ScoreSum, 0, q)
    BY <1>4, ScoresSummed
  <2>2. ScoreSum[<<0, a>>] = 0 /\ ScoreSum[<<0, b>>] = n /\ ScoreSum[<<n, c>>] = n + n
    BY <1>1, <1>2, <1>3 DEF ScoreSum
  <2> HIDE DEF F
  <2>3. Fold(F, 0, <<a, b, c>>) = F[<<F[<<F[<<0, a>>], b>>], c>>]
    BY <1>1, FoldThree
  <2>4. Fold(ScoreSum, 0, q) = n + n
    BY <1>1, <2>2, <2>3 DEF F
  <2> DEFINE m == (4 * n + 3) \div 6
  <2>5. Session.averageScore = m
    <3>1. Rounded(n + n, 3) = m
      <4>1. 2 * (n + n) + 3 = 4 * n + 3 /\ 2 * 3 = 6
        BY <1>3
      <4> QED
        BY <4>1 DEF Rounded
    <3> QED
      BY <1>5, <2>1, <2>4, <3>1
  <2>6. m \in Int /\ 6 * m <= 4 * n + 3 /\ 4 * n + 3 < 6 * m + 6
    BY <1>3
  <2> HIDE DEF m
  <2>7. 6 * m - 4 * n \in -3..3 /\ 6 * m = 4 * n + (6 * m - 4 * n)
    BY <1>3, <2>6
  <2> QED
    BY <2>5, <2>7
<1>9. IF \A step \in StepIds : Errors(current, step) = 0
      THEN Session.hardestEnigme = NoOne
      ELSE \A step \in StepIds :
              3 * Errors(current, step) <= Session.hardestEnigme.errors
              /\ (step = Session.hardestEnigme.step =>
                     Session.hardestEnigme.errors = 3 * Errors(current, step))
  BY <1>5, HardestTold DEF q
<1> QED
  BY <1>6, <1>7, <1>8, <1>9 DEF n

\* The deck is five slides, or six.
LEMMA Joined ==
    ASSUME NEW t, NEW g, NEW a, NEW b, NEW c, NEW s
    PROVE  /\ <<t, g>> \o <<a, b, c>> \o <<>> = <<t, g, a, b, c>>
           /\ <<t, g>> \o <<a, b, c>> \o <<s>> = <<t, g, a, b, c, s>>
<1> DEFINE E == {t, g, a, b, c, s}
           p == <<t, g, a, b, c>>
           q == <<t, g>>
<1>1. /\ q \in Seq(E) /\ <<>> \in Seq(E) /\ <<a>> \in Seq(E) /\ <<a, b>> \in Seq(E)
      /\ p \in Seq(E) /\ a \in E /\ b \in E /\ c \in E /\ s \in E
  OBVIOUS
<1>2. /\ <<a>> = Append(<<>>, a) /\ <<a, b>> = Append(<<a>>, b) /\ <<a, b, c>> = Append(<<a, b>>, c)
      /\ <<t, g, a>> = Append(q, a) /\ <<t, g, a, b>> = Append(<<t, g, a>>, b)
      /\ p = Append(<<t, g, a, b>>, c) /\ <<s>> = Append(<<>>, s)
      /\ <<t, g, a, b, c, s>> = Append(p, s)
  OBVIOUS
<1>a. q \o <<>> = q /\ p \o <<>> = p
  BY <1>1, ConcatEmptySeq
<1> DEFINE n == <<>>
           u == <<a>>
           v == <<a, b>>
<1>b. n \in Seq(E) /\ u \in Seq(E) /\ v \in Seq(E)
  BY <1>1
<1> HIDE DEF E, q, p, n, u, v
<1>3. q \o Append(n, a) = Append(q \o n, a)
  BY <1>1, <1>b, ConcatAppend
<1>4. q \o Append(u, b) = Append(q \o u, b)
  BY <1>1, <1>b, ConcatAppend
<1>5. q \o Append(v, c) = Append(q \o v, c)
  BY <1>1, <1>b, ConcatAppend
<1>6. p \o Append(n, s) = Append(p \o n, s)
  BY <1>1, <1>b, ConcatAppend
<1>7. q \o <<a, b, c>> = p
  <2>1. q \o u = Append(q, a)
    BY <1>2, <1>3, <1>a DEF u, n
  <2>2. q \o v = Append(Append(q, a), b)
    BY <1>2, <1>4, <2>1 DEF v, u
  <2> QED
    BY <1>2, <1>5, <2>2 DEF v
<1>8. p \o <<s>> = <<t, g, a, b, c, s>>
  BY <1>2, <1>6, <1>a DEF n
<1> QED
  BY <1>7, <1>8, <1>a, Zenon DEF q, p

\* The ids of the slides.
FirstIds == {<<"title">>, <<"global">>} \cup {<<"team", i>> : i \in 1..3}

LEMMA IdsCounted ==
    /\ IsFiniteSet(FirstIds) /\ Cardinality(FirstIds) = 5
    /\ Cardinality(FirstIds \cup {<<"suspects">>}) = 6
<1> DEFINE A == <<"title">>
           B == <<"global">>
           C == <<"team", 1>>
           D == <<"team", 2>>
           E == <<"team", 3>>
           F == <<"suspects">>
<1>1. FirstIds = ((({A} \cup {B}) \cup {C}) \cup {D}) \cup {E}
  <2>1. 1..3 = {1, 2, 3}
    OBVIOUS
  <2> QED
    BY <2>1 DEF FirstIds
<1>2. A # B /\ A # F /\ B # F
  OBVIOUS
<1>3. C # D /\ C # E /\ D # E
  OBVIOUS
<1>4. \A x \in {A, B, F}, y \in {C, D, E} : x # y
  <2>1. \A x \in {A, B, F} : Len(x) = 1
    OBVIOUS
  <2>2. \A y \in {C, D, E} : Len(y) = 2
    OBVIOUS
  <2> QED
    BY <2>1, <2>2
<1> HIDE DEF A, B, C, D, E, F
<1> DEFINE P == {A} \cup {B}
           Q == P \cup {C}
           R == Q \cup {D}
           S == R \cup {E}
<1>5. /\ B \notin {A} /\ C \notin P /\ D \notin Q /\ E \notin R /\ F \notin S
  BY <1>2, <1>3, <1>4
<1>6. IsFiniteSet({A}) /\ Cardinality({A}) = 1
  BY FS_Singleton
<1>7. IsFiniteSet(P) /\ Cardinality(P) = 2
  BY <1>5, <1>6, FS_AddElement
<1> HIDE DEF P
<1>8. IsFiniteSet(Q) /\ Cardinality(Q) = 3
  BY <1>5, <1>7, FS_AddElement
<1> HIDE DEF Q
<1>9. IsFiniteSet(R) /\ Cardinality(R) = 4
  BY <1>5, <1>8, FS_AddElement
<1> HIDE DEF R
<1>10. IsFiniteSet(S) /\ Cardinality(S) = 5
  BY <1>5, <1>9, FS_AddElement
<1>11. FirstIds = S
  BY <1>1 DEF P, Q, R
<1> HIDE DEF S
<1>12. Cardinality(S \cup {F}) = 6
  <2>1. F \notin S
    BY <1>5 DEF S
  <2> QED
    BY <1>10, <2>1, FS_AddElement
<1> QED
  BY <1>10, <1>11, <1>12 DEF F

\* The suspects have a slide if somebody was named.
LEMMA OneSuspect ==
    ASSUME NEW person \in 0..1
    PROVE  NormalizeSuspectList(<<[person |-> person, form |-> "padded"]>>) = <<>> <=> person = 0
<1> DEFINE n == [person |-> person, form |-> "padded"]
<1>1. n \in Names /\ n.person = person
  BY DEF Names
<1> HIDE DEF n
<1>2. <<>> \in Seq(Names) /\ <<n>> = Append(<<>>, n)
  OBVIOUS
<1>3. NormalizeSuspectList(<<n>>) = AddName(<<>>, n)
  BY <1>1, <1>2, NormalizeAppend, NormalizeNone
<1>4. ~Present(<<>>, person)
  BY DEF Present
<1>5. AddName(<<>>, n) = IF person = 0 THEN <<>> ELSE Append(<<>>, Trimmed(n))
  BY <1>1, <1>2, <1>4, AddNameIs
<1>6. Append(<<>>, Trimmed(n)) # <<>>
  OBVIOUS
<1> QED
  BY <1>3, <1>5, <1>6 DEF n

\* The deck shows each team once, with the figures of its game.
LEMMA DeckShows == ASSUME current \in Plays PROVE DeckTold
<1> DEFINE teams == SessionTeams
           global == GlobalStats(teams)
           mistakes == Mistakes(current)
<1> SUFFICES ASSUME NEW person \in 0..1
    PROVE
        LET deck == BuildDebriefDeck(teams, global, <<[person |-> person, form |-> "padded"]>>)
            Ids == {deck[i].id : i \in DOMAIN deck}
        IN  /\ Cardinality(Ids) = Len(deck)
            /\ Ids = {<<"title">>, <<"global">>} \cup {<<"team", i>> : i \in DOMAIN teams}
                        \cup (IF person = 0 THEN {} ELSE {<<"suspects">>})
            /\ \E i \in DOMAIN deck :
                  LET errors == ErrorCount(teams[2])
                  IN  deck[i] = Slide(<<"team", 2>>,
                          <<IF IsComplete(current) THEN current.score ELSE 0, IsComplete(current),
                            Cardinality(Solutions(current)), errors, mistakes - errors>>)
  BY DEF DeckTold
<1> DEFINE entered == <<[person |-> person, form |-> "padded"]>>
           deck == BuildDebriefDeck(teams, global, entered)
           Ids == {deck[i].id : i \in DOMAIN deck}
           names == NormalizeSuspectList(entered)
           t == TitleSlide(global)
           g == GlobalSlide(global)
           a == TeamSlide(Absent)
           b == TeamSlide(Player)
           c == TeamSlide(Doubled)
           s == Slide(<<"suspects">>, names)
<1>1. teams = <<Absent, Player, Doubled>> /\ DOMAIN teams = 1..3 /\ teams[2] = Player
  BY TeamsAre
<1>2. /\ Absent.teamId = 1 /\ Player.teamId = 2 /\ Doubled.teamId = 3 /\ Player \in Tables(2)
  BY TeamsAre DEF Tables
<1>3. /\ t.id = <<"title">> /\ g.id = <<"global">> /\ a.id = <<"team", 1>> /\ b.id = <<"team", 2>>
      /\ c.id = <<"team", 3>> /\ s.id = <<"suspects">>
  BY <1>2 DEF TitleSlide, GlobalSlide, TeamSlide, Slide
<1>4. b = Slide(<<"team", 2>>,
              <<IF IsComplete(current) THEN current.score ELSE 0, IsComplete(current),
                Cardinality(Solutions(current)), ErrorCount(teams[2]),
                mistakes - ErrorCount(teams[2])>>)
  <2> DEFINE e == ErrorCount(Player)
             p == Player.phishingClicks
  <2>1. current.log \in Seq(Events)
    BY PlaysFields, FlowFields
  <2>2. Tells(Player, current.log)
    BY <2>1, StatsTell DEF Player
  <2>3. /\ Player.completed = IsComplete(current)
        /\ Player.score = IF IsComplete(current) THEN current.score ELSE 0
        /\ SolvedCount(Player) = Cardinality(Solutions(current))
        /\ e + p = mistakes /\ e \in Nat /\ p \in Nat
    BY <1>2, <2>2, EndTold
  <2> HIDE DEF mistakes, e, p
  <2>4. p = mistakes - e
    BY <2>3
  <2> QED
    BY <1>1, <1>2, <2>3, <2>4, Zenon DEF TeamSlide, e, p
<1>5. deck = <<t, g>> \o <<a, b, c>> \o (IF names = <<>> THEN <<>> ELSE <<s>>)
  <2>1. [i \in DOMAIN teams |-> TeamSlide(teams[i])] = <<a, b, c>>
    BY <1>1
  <2> QED
    BY <2>1 DEF BuildDebriefDeck
<1>6. names = <<>> <=> person = 0
  BY OneSuspect
<1> HIDE DEF t, g, a, b, c, s, deck, names, teams
<1>7. deck = IF person = 0 THEN <<t, g, a, b, c>> ELSE <<t, g, a, b, c, s>>
  <2>1. /\ <<t, g>> \o <<a, b, c>> \o <<>> = <<t, g, a, b, c>>
        /\ <<t, g>> \o <<a, b, c>> \o <<s>> = <<t, g, a, b, c, s>>
    BY Joined
  <2>2. CASE person = 0
    <3>1. deck = <<t, g>> \o <<a, b, c>> \o <<>>
      BY <1>5, <1>6, <2>2, Zenon
    <3> QED
      BY <2>1, <2>2, <3>1, Zenon
  <2>3. CASE person # 0
    <3>1. deck = <<t, g>> \o <<a, b, c>> \o <<s>>
      BY <1>5, <1>6, <2>3, Zenon
    <3> QED
      BY <2>1, <2>3, <3>1, Zenon
  <2> QED
    BY <2>2, <2>3
<1>8. Len(deck) = (IF person = 0 THEN 5 ELSE 6) /\ 4 \in DOMAIN deck /\ deck[4] = b
  BY <1>7
<1>9. Ids = FirstIds \cup IF person = 0 THEN {} ELSE {<<"suspects">>}
  <2>1. FirstIds = {t.id, g.id, a.id, b.id, c.id}
    <3>1. 1..3 = {1, 2, 3}
      OBVIOUS
    <3> QED
      BY <1>3, <3>1 DEF FirstIds
  <2>2. CASE person = 0
    <3>1. deck = <<t, g, a, b, c>>
      BY <1>7, <2>2
    <3>2. DOMAIN deck = {1, 2, 3, 4, 5}
      BY <3>1
    <3>3. deck[1] = t /\ deck[2] = g /\ deck[3] = a /\ deck[4] = b /\ deck[5] = c
      BY <3>1
    <3>4. Ids = {t.id, g.id, a.id, b.id, c.id}
      BY <3>2, <3>3
    <3> QED
      BY <2>1, <2>2, <3>4
  <2>3. CASE person # 0
    <3>1. deck = <<t, g, a, b, c, s>>
      BY <1>7, <2>3
    <3>2. DOMAIN deck = {1, 2, 3, 4, 5, 6}
      BY <3>1
    <3>3. deck[1] = t /\ deck[2] = g /\ deck[3] = a /\ deck[4] = b /\ deck[5] = c /\ deck[6] = s
      BY <3>1
    <3>4. Ids = {t.id, g.id, a.id, b.id, c.id} \cup {s.id}
      BY <3>2, <3>3
    <3> QED
      BY <1>3, <2>1, <2>3, <3>4
  <2> QED
    BY <2>2, <2>3
<1> HIDE DEF Ids
<1>10. Cardinality(Ids) = Len(deck)
  <2>1. CASE person = 0
    BY <1>8, <1>9, <2>1, IdsCounted
  <2>2. CASE person # 0
    BY <1>8, <1>9, <2>2, IdsCounted
  <2> QED
    BY <2>1, <2>2
<1>11. Ids = {<<"title">>, <<"global">>} \cup {<<"team", i>> : i \in DOMAIN teams}
                \cup (IF person = 0 THEN {} ELSE {<<"suspects">>})
  <2>1. FirstIds = {<<"title">>, <<"global">>} \cup {<<"team", i>> : i \in DOMAIN teams}
    BY <1>1 DEF FirstIds
  <2> QED
    BY <1>9, <2>1
<1> QED
  BY <1>4, <1>8, <1>10, <1>11 DEF Ids, deck, teams

LEMMA FiguresFacts == ReportInv => Figures
<1> SUFFICES ASSUME ReportInv PROVE Figures
  OBVIOUS
<1>1. current \in Plays
  BY DEF ReportInv, PlayInv
<1> QED
  BY <1>1, TeamTold, SessionTold, SuspectsTold, DeckShows DEF Figures

\* For any parcours and any taps: points, end, solutions, mistakes and tries of a team's
\* report are those of the game it played; average, best team and hardest énigme are those
\* of the session; the suspects and the slides are each there once.
THEOREM ReportTellsGame == PlaySpec => []Figures
  BY FiguresFacts, TriesStayTold, PTL
=============================================================================
