--------------------------- MODULE Content_proofs ---------------------------
(***************************************************************************)
(* Theorems of SequenceContent and of ParcoursContent: whatever the files   *)
(* or the contents, a session or a flow that is kept stands on a place of   *)
(* the content it is played over.                                           *)
(***************************************************************************)
EXTENDS SequenceContent, ParcoursContent, SequenceTheorems, WellFoundedInduction, TLAPS

-----------------------------------------------------------------------------
(***************************************************************************)
(* SequenceContent.                                                         *)
(***************************************************************************)
\* A list is a sequence over its elements.
LEMMA ListFacts ==
    ASSUME NEW l, IsList(l)
    PROVE  Len(l) \in Nat /\ DOMAIN l = 1..Len(l)
  BY LenProperties DEF IsList

\* The flow of a file: its steps, and in the engine their ids.
LEMMA FlowFacts ==
    ASSUME NEW f \in Files
    PROVE  /\ Len(FlowOf(f)) \in Nat /\ Len(FlowOf(f)) = Len(f.prep) + Len(f.steps)
           /\ DOMAIN FlowOf(f) = 1..Len(FlowOf(f))
           /\ Assaut(f)!Flow = [i \in DOMAIN FlowOf(f) |-> FlowOf(f)[i].id]
           /\ Len(Assaut(f)!Flow) = Len(FlowOf(f))
<1> DEFINE P == {f.prep[i] : i \in DOMAIN f.prep}
           S == {f.steps[i] : i \in DOMAIN f.steps}
           U == P \cup S
           V == Ids(f) \cup {f.prep[i].id : i \in DOMAIN f.prep}
                      \cup {f.steps[i].id : i \in DOMAIN f.steps}
           pre == [i \in DOMAIN f.prep |-> f.prep[i].id]
           ass == [i \in DOMAIN f.steps |-> f.steps[i].id]
<1>1. f.prep \in Seq(U) /\ f.steps \in Seq(U)
  <2>1. f.prep \in Seq(P) /\ f.steps \in Seq(S)
    BY FilesAssumption DEF Shaped, IsList
  <2>2. P \subseteq U /\ S \subseteq U
    OBVIOUS
  <2> HIDE DEF P, S, U
  <2> QED
    BY <2>1, <2>2, SeqMonotonic
<1>2. /\ Len(f.prep) \in Nat /\ DOMAIN f.prep = 1..Len(f.prep)
      /\ Len(f.steps) \in Nat /\ DOMAIN f.steps = 1..Len(f.steps)
  BY <1>1, LenProperties
<1>3. /\ FlowOf(f) \in Seq(U) /\ Len(FlowOf(f)) = Len(f.prep) + Len(f.steps)
      /\ \A i \in 1..Len(f.prep) + Len(f.steps) :
            FlowOf(f)[i] = IF i <= Len(f.prep) THEN f.prep[i] ELSE f.steps[i - Len(f.prep)]
  BY <1>1, ConcatProperties DEF FlowOf
<1>4. /\ pre \in Seq(V) /\ Len(pre) = Len(f.prep)
      /\ ass \in Seq(V) /\ Len(ass) = Len(f.steps)
  <2>1. \A i \in 1..Len(f.prep) : f.prep[i].id \in V
    BY <1>2
  <2>2. \A i \in 1..Len(f.steps) : f.steps[i].id \in V
    BY <1>2
  <2> HIDE DEF V
  <2>3. /\ pre = [i \in 1..Len(f.prep) |-> f.prep[i].id]
        /\ ass = [i \in 1..Len(f.steps) |-> f.steps[i].id]
    BY <1>2
  <2> QED
    <3>1. pre \in Seq(V) /\ ass \in Seq(V)
      BY <1>2, <2>1, <2>2, <2>3, IsASeq
    <3>2. /\ Len(pre) \in Nat /\ 1..Len(pre) = 1..Len(f.prep)
          /\ Len(ass) \in Nat /\ 1..Len(ass) = 1..Len(f.steps)
      BY <1>2, <3>1, LenProperties
    <3>3. \A m, n \in Nat : 1..m = 1..n => m = n
      OBVIOUS
    <3> HIDE DEF pre, ass
    <3> QED
      BY <1>2, <3>1, <3>2, <3>3
<1>5. Assaut(f)!Flow = pre \o ass
  BY Zenon DEF Assaut!Flow
<1> HIDE DEF V
<1>6. /\ pre \o ass \in Seq(V) /\ Len(pre \o ass) = Len(pre) + Len(ass)
      /\ \A i \in 1..Len(pre) + Len(ass) :
            (pre \o ass)[i] = IF i <= Len(pre) THEN pre[i] ELSE ass[i - Len(pre)]
  BY <1>4, ConcatProperties
<1>7. /\ DOMAIN FlowOf(f) = 1..Len(FlowOf(f)) /\ Len(FlowOf(f)) \in Nat
      /\ DOMAIN (pre \o ass) = 1..Len(pre \o ass)
  BY <1>3, <1>6, LenProperties
<1>8. \A i \in 1..Len(f.prep) + Len(f.steps) : (pre \o ass)[i] = FlowOf(f)[i].id
  <2>1. TAKE i \in 1..Len(f.prep) + Len(f.steps)
  <2>2. CASE i <= Len(f.prep)
    <3>1. i \in DOMAIN f.prep
      BY <1>2, <2>2
    <3>2. pre[i] = f.prep[i].id
      BY <3>1
    <3> HIDE DEF pre, ass
    <3> QED
      BY <1>3, <1>4, <1>6, <2>2, <3>2
  <2>3. CASE ~(i <= Len(f.prep))
    <3>1. i - Len(f.prep) \in DOMAIN f.steps
      <4>1. i - Len(f.prep) \in 1..Len(f.steps)
        <5> DEFINE m == Len(f.prep)
                   n == Len(f.steps)
        <5>1. m \in Nat /\ n \in Nat /\ i \in 1..m + n /\ ~(i <= m)
          BY <1>2, <2>3
        <5> HIDE DEF m, n
        <5>2. i - m \in 1..n
          BY <5>1
        <5> QED
          BY <5>2 DEF m, n
      <4> QED
        BY <1>2, <4>1
    <3>2. ass[i - Len(f.prep)] = f.steps[i - Len(f.prep)].id
      BY <3>1
    <3> HIDE DEF pre, ass
    <3> QED
      BY <1>3, <1>4, <1>6, <2>3, <3>2
  <2> QED
    BY <2>2, <2>3
<1>9. pre \o ass = [i \in DOMAIN FlowOf(f) |-> FlowOf(f)[i].id]
  <2> DEFINE q == pre \o ass
  <2>1. /\ q \in Seq(V) /\ DOMAIN q = DOMAIN FlowOf(f)
        /\ \A i \in DOMAIN FlowOf(f) : q[i] = FlowOf(f)[i].id
    BY <1>3, <1>4, <1>6, <1>7, <1>8
  <2>2. q = [i \in DOMAIN q |-> q[i]]
    BY <2>1
  <2> HIDE DEF q
  <2>3. q = [i \in DOMAIN FlowOf(f) |-> FlowOf(f)[i].id]
    BY <2>1, <2>2
  <2> QED
    BY <2>3 DEF q
<1> QED
  BY <1>3, <1>4, <1>5, <1>6, <1>7, <1>9, Zenon

\* Preparation first, then the assault.
LEMMA FlowPlaces ==
    ASSUME NEW f \in Files, NEW i \in DOMAIN FlowOf(f)
    PROVE  FlowOf(f)[i] = IF i <= Len(f.prep) THEN f.prep[i] ELSE f.steps[i - Len(f.prep)]
<1> DEFINE P == {f.prep[j] : j \in DOMAIN f.prep}
           S == {f.steps[j] : j \in DOMAIN f.steps}
           U == P \cup S
<1>1. f.prep \in Seq(P) /\ f.steps \in Seq(S)
  BY FilesAssumption DEF Shaped, IsList
<1>2. P \subseteq U /\ S \subseteq U
  OBVIOUS
<1>3. f.prep \in Seq(U) /\ f.steps \in Seq(U)
  <2> HIDE DEF P, S, U
  <2> QED
    BY <1>1, <1>2, SeqMonotonic
<1>4. DOMAIN FlowOf(f) = 1..Len(f.prep) + Len(f.steps)
  BY FlowFacts, Zenon
<1> HIDE DEF U
<1> QED
  BY <1>3, <1>4, ConcatProperties DEF FlowOf

\* The step ids of the engine are those of the file.
LEMMA StepIdsAreIds ==
    ASSUME NEW f \in Files PROVE Assaut(f)!StepIds = Ids(f)
<1>1. Assaut(f)!Flow = [i \in DOMAIN FlowOf(f) |-> FlowOf(f)[i].id]
  BY FlowFacts, Zenon
<1>2. Assaut(f)!StepIds = {Assaut(f)!Flow[i] : i \in DOMAIN Assaut(f)!Flow}
  BY Zenon DEF Assaut!StepIds
<1> QED
  BY <1>1, <1>2 DEF Ids

\* Where ids are unique a step is found by its own.
LEMMA StepFound ==
    ASSUME NEW f \in Files, Accepted(f), NEW s \in Ids(f)
    PROVE  \E i \in DOMAIN FlowOf(f) : FlowOf(f)[i].id = s /\ StepOf(f, s) = FlowOf(f)[i]
<1>1. PICK i \in DOMAIN FlowOf(f) : FlowOf(f)[i].id = s
  BY DEF Ids
<1>2. DOMAIN FlowOf(f) = 1..Len(FlowOf(f)) /\ Len(FlowOf(f)) \in Nat
  BY FlowFacts, Zenon
<1>3. \A j \in 1..i-1 : j \in DOMAIN FlowOf(f) /\ j # i
  BY <1>1, <1>2
<1>4. \A j \in 1..i-1 : FlowOf(f)[j].id # s
  BY <1>1, <1>3 DEF Accepted, StepIdsUnique
<1> DEFINE k == CHOOSE k \in DOMAIN FlowOf(f) :
                    FlowOf(f)[k].id = s /\ \A j \in 1..k-1 : FlowOf(f)[j].id # s
<1>5. k \in DOMAIN FlowOf(f) /\ FlowOf(f)[k].id = s
  BY <1>1, <1>4
<1>6. StepOf(f, s) = FlowOf(f)[k]
  BY DEF StepOf
<1> QED
  BY <1>5, <1>6

\* Array.find takes the first of the elements that match.
LEMMA FirstFound ==
    ASSUME NEW f, NEW S, S \subseteq Nat, S # {}
    PROVE  Assaut(f)!FirstOf(S) \in S
<1>1. IsWellFoundedOn(OpToRel(<, Nat), Nat)
  BY NatLessThanWellFounded
<1>2. PICK x \in S : \A y \in S : ~ (<<y, x>> \in OpToRel(<, Nat))
  BY <1>1, WFMin, Zenon
<1>3. \A y \in S : x <= y
  <2>1. TAKE y \in S
  <2>2. <<y, x>> \notin OpToRel(<, Nat)
    BY <1>2
  <2>3. x \in Nat /\ y \in Nat
    OBVIOUS
  <2>4. ~(y < x)
    BY <2>2, <2>3 DEF OpToRel
  <2> QED
    BY <2>3, <2>4
<1>4. Assaut(f)!FirstOf(S) = CHOOSE i \in S : \A j \in S : i <= j
  BY Zenon DEF Assaut!FirstOf
<1> QED
  BY <1>3, <1>4

\* linearNext() gives a step of the file, or the end.
LEMMA NextInFile ==
    ASSUME NEW f \in Files, NEW s \in Ids(f)
    PROVE  Assaut(f)!LinearNext(s) \in Ids(f) \cup {NoStep}
<1> DEFINE all == Assaut(f)!Flow
           i == CHOOSE i \in DOMAIN all : all[i] = s
<1>1. /\ all = [k \in DOMAIN FlowOf(f) |-> FlowOf(f)[k].id] /\ Len(all) = Len(FlowOf(f))
      /\ DOMAIN FlowOf(f) = 1..Len(FlowOf(f)) /\ Len(FlowOf(f)) \in Nat
  BY FlowFacts, Zenon
<1>2. Assaut(f)!LinearNext(s) = IF i < Len(all) THEN all[i + 1] ELSE NoStep
  BY Zenon DEF Assaut!LinearNext
<1> HIDE DEF all
<1>3. i \in DOMAIN all
  <2>1. \E k \in DOMAIN all : all[k] = s
    BY <1>1 DEF Ids
  <2> QED
    BY <2>1
<1>4. i < Len(all) => i + 1 \in DOMAIN FlowOf(f)
  BY <1>1, <1>3
<1>5. i < Len(all) => all[i + 1] \in Ids(f)
  BY <1>1, <1>4 DEF Ids
<1> QED
  BY <1>2, <1>5

\* The lists of a step: what advance() and applyChoice() look their targets up in.
LEMMA ListsOfStep ==
    ASSUME NEW f \in Files, Accepted(f), NEW s \in Ids(f)
    PROVE  LET t == StepOf(f, s).transitions
               c == StepOf(f, s).choices
           IN  /\ BoundedDeltas(t) /\ \A i \in DOMAIN t : t[i].goto \in Ids(f)
               /\ BoundedDeltas(c) /\ \A i \in DOMAIN c : c[i].goto \in Ids(f) \cup {NoStep}
               /\ \A i \in DOMAIN c : c[i].id \in AllChoices
<1>1. PICK k \in DOMAIN FlowOf(f) : FlowOf(f)[k].id = s /\ StepOf(f, s) = FlowOf(f)[k]
  BY StepFound
<1> DEFINE t == FlowOf(f)[k].transitions
           c == FlowOf(f)[k].choices
<1>2. BoundedDeltas(t) /\ BoundedDeltas(c)
  BY FilesAssumption DEF Shaped
<1>3. Gotos(t) \subseteq Ids(f)
  BY DEF Accepted, GotosResolve
<1>4. \A i \in DOMAIN c : c[i].goto \in Ids(f) \cup {NoStep}
  <2>1. /\ DOMAIN f.prep = 1..Len(f.prep) /\ Len(f.prep) \in Nat
        /\ DOMAIN f.steps = 1..Len(f.steps) /\ Len(f.steps) \in Nat
    BY FilesAssumption, ListFacts DEF Shaped
  <2>2. DOMAIN FlowOf(f) = 1..Len(f.prep) + Len(f.steps)
    BY FlowFacts, Zenon
  <2>3. FlowOf(f)[k] = IF k <= Len(f.prep) THEN f.prep[k] ELSE f.steps[k - Len(f.prep)]
    BY FlowPlaces
  <2>4. CASE k <= Len(f.prep)
    <3>1. k \in DOMAIN f.prep
      BY <2>1, <2>2, <2>4
    <3>2. Gotos(f.prep[k].choices) \subseteq Ids(f) \cup {NoStep}
      BY <3>1 DEF Accepted, GotosResolve
    <3> QED
      BY <2>3, <2>4, <3>2 DEF Gotos
  <2>5. CASE ~(k <= Len(f.prep))
    <3> DEFINE m == Len(f.prep)
               n == Len(f.steps)
    <3>1. m \in Nat /\ n \in Nat /\ k \in 1..m + n /\ ~(k <= m)
      BY <2>1, <2>2, <2>5
    <3> HIDE DEF m, n
    <3>2. k - m \in 1..n
      BY <3>1
    <3>3. k - Len(f.prep) \in DOMAIN f.steps
      BY <2>1, <3>2 DEF m, n
    <3>4. c = <<>>
      BY <2>3, <2>5, <3>3, FilesAssumption DEF Shaped
    <3> QED
      BY <3>4
  <2> QED
    BY <2>4, <2>5
<1>5. \A i \in DOMAIN c : c[i].id \in AllChoices
  BY DEF AllChoices
<1> QED
  BY <1>1, <1>2, <1>3, <1>4, <1>5 DEF Gotos

-----------------------------------------------------------------------------
(***************************************************************************)
(* The engine over an accepted file: where a move goes, and what session it *)
(* makes.                                                                   *)
(***************************************************************************)
LEMMA ListsInEngine ==
    ASSUME NEW f \in Files, NEW s \in Ids(f)
    PROVE  /\ \A e : Assaut(f)!Matches(s, e) =
                       {i \in DOMAIN StepOf(f, s).transitions : StepOf(f, s).transitions[i].when = e}
           /\ \A c : Assaut(f)!ChoiceMatches(s, c) =
                       {i \in DOMAIN StepOf(f, s).choices : StepOf(f, s).choices[i].id = c}
  BY SMT DEF Assaut!Matches, Assaut!ChoiceMatches

\* advance() lands on a step of the file or ends the flow.
LEMMA AdvanceInFile ==
    ASSUME NEW f \in Files, Accepted(f), NEW s \in Ids(f), NEW e
    PROVE  /\ Assaut(f)!NextStep(s, e) \in Ids(f) \cup {NoStep}
           /\ Assaut(f)!EventDelta(s, e) \in -100..100
<1> DEFINE t == StepOf(f, s).transitions
           m == Assaut(f)!Matches(s, e)
           i == Assaut(f)!FirstOf(m)
<1>1. BoundedDeltas(t) /\ \A j \in DOMAIN t : t[j].goto \in Ids(f)
  BY ListsOfStep
<1>2. m = {j \in DOMAIN t : t[j].when = e}
  BY ListsInEngine
<1>3. Assaut(f)!NextStep(s, e) = IF e # NoEvent /\ m # {} THEN t[i].goto ELSE Assaut(f)!LinearNext(s)
  BY SMT DEF Assaut!NextStep
<1>4. Assaut(f)!EventDelta(s, e) = IF e # NoEvent /\ m # {} THEN t[i].delta ELSE 0
  BY SMT DEF Assaut!EventDelta
<1>5. m # {} => i \in DOMAIN t
  <2>1. m \subseteq DOMAIN t
    BY <1>2
  <2>2. DOMAIN t \subseteq Nat
    BY <1>1, ListFacts DEF BoundedDeltas
  <2> HIDE DEF m, t
  <2> QED
    BY <2>1, <2>2, FirstFound
<1>6. Assaut(f)!LinearNext(s) \in Ids(f) \cup {NoStep}
  BY NextInFile
<1> HIDE DEF m, t, i
<1> QED
  BY <1>1, <1>3, <1>4, <1>5, <1>6 DEF BoundedDeltas

\* applyChoice() lands on a step of the file or ends the flow.
LEMMA ChoiceInFile ==
    ASSUME NEW f \in Files, Accepted(f), NEW s \in Ids(f), NEW c, Assaut(f)!ChoiceMatches(s, c) # {}
    PROVE  /\ Assaut(f)!ChoiceTarget(s, c) \in Ids(f) \cup {NoStep}
           /\ Assaut(f)!ChosenOption(s, c).delta \in -100..100
           /\ c \in AllChoices
<1> DEFINE t == StepOf(f, s).choices
           m == Assaut(f)!ChoiceMatches(s, c)
           i == Assaut(f)!FirstOf(m)
<1>1. /\ BoundedDeltas(t) /\ \A j \in DOMAIN t : t[j].goto \in Ids(f) \cup {NoStep}
      /\ \A j \in DOMAIN t : t[j].id \in AllChoices
  BY ListsOfStep
<1>2. m = {j \in DOMAIN t : t[j].id = c}
  BY ListsInEngine
<1>3. Assaut(f)!ChosenOption(s, c) = t[i]
  BY SMT DEF Assaut!ChosenOption
<1>4. Assaut(f)!ChoiceTarget(s, c) = IF Assaut(f)!ChosenOption(s, c).goto # NoStep
                                     THEN Assaut(f)!ChosenOption(s, c).goto
                                     ELSE Assaut(f)!LinearNext(s)
  BY SMT DEF Assaut!ChoiceTarget
<1>5. i \in m /\ i \in DOMAIN t
  <2>1. m \subseteq DOMAIN t
    BY <1>2
  <2>2. DOMAIN t \subseteq Nat
    BY <1>1, ListFacts DEF BoundedDeltas
  <2>3. m # {}
    OBVIOUS
  <2> HIDE DEF m, t
  <2> QED
    BY <2>1, <2>2, <2>3, FirstFound
<1>6. Assaut(f)!LinearNext(s) \in Ids(f) \cup {NoStep}
  BY NextInFile
<1> HIDE DEF m, t, i
<1> QED
  BY <1>1, <1>2, <1>3, <1>4, <1>5, <1>6 DEF BoundedDeltas

\* A session as the engine hands it over, its visits not yet cut to the last.
Whole(s) == s \in Sessions /\ (s.step = NoStep <=> s.phase = "complete") /\ Len(s.visited) >= 1

\* An id of a file is one of all of them.
LEMMA IdsKnown ==
    ASSUME NEW f \in Files PROVE Ids(f) \subseteq AllIds /\ NoStep \notin Ids(f)
  BY FilesAssumption DEF AllIds

LEMMA SessionFields ==
    ASSUME NEW s \in Sessions
    PROVE  /\ s.phase \in {"prep", "assault", "complete"} /\ s.step \in AllIds \cup {NoStep}
           /\ s.choices \in UNION {[S -> AllChoices] : S \in SUBSET AllIds}
           /\ s.percent \in 0..100 /\ s.visited \in Seq(AllIds) /\ Len(s.visited) \in Nat
<1>1. s.visited \in Seq(AllIds)
  BY DEF Sessions
<1>2. Len(s.visited) \in Nat
  BY <1>1, LenProperties
<1> QED
  BY <1>1, <1>2 DEF Sessions

LEMMA ClampBounds ==
    ASSUME NEW f, NEW n \in Int PROVE Assaut(f)!ClampPercent(n) \in 0..100
  BY SMT DEF Assaut!ClampPercent

LEMMA PhaseOfStep ==
    ASSUME NEW f, NEW s PROVE Assaut(f)!PhaseOf(s) \in {"prep", "assault"}
  BY SMT DEF Assaut!PhaseOf

\* A move makes a session.
LEMMA MoveMakesSession ==
    ASSUME NEW f \in Files, NEW s, Whole(s), NEW target \in Ids(f) \cup {NoStep},
           NEW delta \in -100..100
    PROVE  LET m == Assaut(f)!MoveTo(s, target, delta)
           IN  Whole(m) /\ m.step = target /\ m.choices = s.choices
<1> DEFINE p == Assaut(f)!ClampPercent(s.percent + delta)
           ph == Assaut(f)!PhaseOf(target)
           scored == [s EXCEPT !.percent = p]
<1>1. /\ s.phase \in {"prep", "assault", "complete"} /\ s.step \in AllIds \cup {NoStep}
      /\ s.choices \in UNION {[S -> AllChoices] : S \in SUBSET AllIds}
      /\ s.percent \in 0..100 /\ s.visited \in Seq(AllIds) /\ Len(s.visited) \in Nat
      /\ s \in Sessions /\ Len(s.visited) >= 1
  BY SessionFields DEF Whole
<1>2. p \in 0..100
  <2>1. s.percent \in Int
    <3> DEFINE n == s.percent
    <3>1. n \in 0..100
      BY <1>1
    <3> HIDE DEF n
    <3>2. n \in Int
      BY <3>1
    <3> QED
      BY <3>2 DEF n
  <2>2. delta \in Int
    OBVIOUS
  <2>3. s.percent + delta \in Int
    BY <2>1, <2>2
  <2> QED
    BY <2>3, ClampBounds
<1>3. ph \in {"prep", "assault"}
  BY PhaseOfStep
<1>4. Assaut(f)!MoveTo(s, target, delta) =
          IF target = NoStep THEN [scored EXCEPT !.phase = "complete", !.step = NoStep]
          ELSE [scored EXCEPT !.phase = ph, !.step = target, !.visited = Append(@, target)]
  BY SMT DEF Assaut!MoveTo
<1> HIDE DEF p, ph
<1>5. scored \in Sessions /\ scored.visited = s.visited /\ scored.choices = s.choices
  BY <1>1, <1>2 DEF Sessions
<1> HIDE DEF scored
<1>6. CASE target = NoStep
  <2> DEFINE m == [scored EXCEPT !.phase = "complete", !.step = NoStep]
  <2>1. /\ m \in Sessions /\ m.step = NoStep /\ m.phase = "complete"
        /\ m.visited = s.visited /\ m.choices = s.choices
    BY <1>5 DEF Sessions
  <2>2. Assaut(f)!MoveTo(s, target, delta) = m
    BY <1>4, <1>6
  <2> HIDE DEF m
  <2> QED
    BY <1>1, <1>6, <2>1, <2>2 DEF Whole
<1>7. CASE target # NoStep
  <2> DEFINE v == Append(s.visited, target)
             m == [scored EXCEPT !.phase = ph, !.step = target, !.visited = v]
  <2>1. target \in AllIds
    BY <1>7, IdsKnown
  <2>2. v \in Seq(AllIds) /\ Len(v) = Len(s.visited) + 1
    BY <1>1, <2>1, AppendProperties
  <2>3. Assaut(f)!MoveTo(s, target, delta) = m
    BY <1>4, <1>5, <1>7
  <2> HIDE DEF v
  <2>4. /\ m \in Sessions /\ m.step = target /\ m.phase = ph
        /\ m.visited = v /\ m.choices = s.choices
    BY <1>3, <1>5, <2>1, <2>2 DEF Sessions
  <2> HIDE DEF m
  <2>5. Len(v) >= 1 /\ ph # "complete"
    BY <1>1, <1>3, <2>2
  <2> QED
    BY <1>7, <2>3, <2>4, <2>5 DEF Whole
<1> QED
  BY <1>6, <1>7

\* What commit() makes of a whole session: the session kept, and the step projected.
LEMMA LastVisitKept ==
    ASSUME NEW s, Whole(s)
    PROVE  IsSession(LastVisit(s)) /\ LastVisit(s).step = s.step
<1>1. s \in Sessions /\ s.visited \in Seq(AllIds) /\ Len(s.visited) \in Nat /\ Len(s.visited) >= 1
  BY SessionFields DEF Whole
<1> DEFINE v == <<s.visited[Len(s.visited)]>>
<1>2. s.visited[Len(s.visited)] \in AllIds
  <2>1. Len(s.visited) \in 1..Len(s.visited)
    BY <1>1
  <2> QED
    BY <1>1, <2>1, ElementOfSeq
<1>3. v \in Seq(AllIds) /\ Len(v) = 1
  BY <1>2
<1>4. LastVisit(s) = [s EXCEPT !.visited = v]
  BY DEF LastVisit
<1> HIDE DEF v
<1>5. /\ [s EXCEPT !.visited = v] \in Sessions
      /\ [s EXCEPT !.visited = v].step = s.step /\ [s EXCEPT !.visited = v].phase = s.phase
      /\ [s EXCEPT !.visited = v].visited = v
  BY <1>1, <1>3 DEF Sessions
<1> QED
  BY <1>3, <1>4, <1>5 DEF IsSession, Whole

\* projectToGameState(): the step stored is one of some file, at the end the last visited.
LEMMA ProjectedStep ==
    ASSUME NEW f, NEW s, Whole(s), NEW before PROVE Assaut(f)!ProjectStep(s, before) \in AllIds
<1>1. s.step \in AllIds \cup {NoStep} /\ s.visited \in Seq(AllIds) /\ Len(s.visited) \in Nat
      /\ Len(s.visited) >= 1
  BY SessionFields DEF Whole
<1>2. s.visited[Len(s.visited)] \in AllIds
  <2>1. Len(s.visited) \in 1..Len(s.visited)
    BY <1>1
  <2> QED
    BY <1>1, <2>1, ElementOfSeq
<1>3. s.visited # <<>>
  BY <1>1
<1>4. Assaut(f)!ProjectStep(s, before) =
         IF s.step # NoStep THEN s.step
         ELSE IF s.visited # <<>> THEN s.visited[Len(s.visited)] ELSE before
  BY SMT DEF Assaut!ProjectStep
<1> QED
  BY <1>1, <1>2, <1>3, <1>4

\* submit() and choose().
LEMMA AdvanceWhole ==
    ASSUME NEW f \in Files, Accepted(f), NEW s, IsSession(s), s.step \in Ids(f), NEW e
    PROVE  Whole(Assaut(f)!Advance(s, e)) /\ Assaut(f)!Advance(s, e).step \in Ids(f) \cup {NoStep}
<1>1. Whole(s)
  BY DEF Whole, IsSession
<1> DEFINE target == Assaut(f)!NextStep(s.step, e)
           delta == Assaut(f)!EventDelta(s.step, e)
<1>2. target \in Ids(f) \cup {NoStep} /\ delta \in -100..100
  BY AdvanceInFile
<1>3. Assaut(f)!Advance(s, e) = Assaut(f)!MoveTo(s, target, delta)
  BY Zenon DEF Assaut!Advance
<1>4. Whole(Assaut(f)!MoveTo(s, target, delta)) /\ Assaut(f)!MoveTo(s, target, delta).step = target
  <2> HIDE DEF target, delta
  <2> QED
    BY <1>1, <1>2, MoveMakesSession
<1> HIDE DEF target, delta
<1> QED
  BY <1>2, <1>3, <1>4

\* applyChoice() does as well.
LEMMA ApplyWhole ==
    ASSUME NEW f \in Files, Accepted(f), NEW s, IsSession(s), s.step \in Ids(f), NEW c,
           Assaut(f)!ChoiceMatches(s.step, c) # {}
    PROVE  /\ Whole(Assaut(f)!ApplyChoice(s, c))
           /\ Assaut(f)!ApplyChoice(s, c).step \in Ids(f) \cup {NoStep}
<1>1. Whole(s)
  BY DEF Whole, IsSession
<1> DEFINE target == Assaut(f)!ChoiceTarget(s.step, c)
           delta == Assaut(f)!ChosenOption(s.step, c).delta
<1>2. target \in Ids(f) \cup {NoStep} /\ delta \in -100..100 /\ c \in AllChoices
  BY ChoiceInFile
<1> DEFINE m == Assaut(f)!MoveTo(s, target, delta)
           g == [x \in DOMAIN m.choices \cup {s.step} |-> IF x = s.step THEN c ELSE m.choices[x]]
<1>3. Whole(m) /\ m.step = target
  <2> HIDE DEF target, delta
  <2> QED
    BY <1>1, <1>2, MoveMakesSession
<1>4. Assaut(f)!ApplyChoice(s, c) = [m EXCEPT !.choices = g]
  BY SMT DEF Assaut!ApplyChoice
<1> HIDE DEF m
<1>5. g \in UNION {[S -> AllChoices] : S \in SUBSET AllIds}
  <2>1. m.choices \in UNION {[S -> AllChoices] : S \in SUBSET AllIds}
    BY <1>3, SessionFields DEF Whole
  <2>2. PICK D \in SUBSET AllIds : m.choices \in [D -> AllChoices]
    BY <2>1
  <2>3. s.step \in AllIds
    BY IdsKnown
  <2>4. g \in [D \cup {s.step} -> AllChoices]
    BY <1>2, <2>2
  <2> HIDE DEF g
  <2>5. D \cup {s.step} \in SUBSET AllIds
    BY <2>3
  <2> QED
    BY <2>4, <2>5
<1> HIDE DEF g
<1>6. /\ [m EXCEPT !.choices = g] \in Sessions
      /\ [m EXCEPT !.choices = g].step = m.step /\ [m EXCEPT !.choices = g].phase = m.phase
      /\ [m EXCEPT !.choices = g].visited = m.visited
  BY <1>3, <1>5 DEF Sessions, Whole
<1> QED
  BY <1>2, <1>3, <1>4, <1>6 DEF Whole

\* restoreSession() and createSession() start on a step of the file.
LEMMA StartedAt ==
    ASSUME NEW f \in Files, NEW step \in Ids(f), NEW n \in Int
    PROVE  IsSession([phase |-> Assaut(f)!PhaseOf(step), step |-> step,
                      choices |-> Assaut(f)!EmptyChoices,
                      percent |-> Assaut(f)!ClampPercent(n), visited |-> <<step>>])
<1>1. Assaut(f)!PhaseOf(step) \in {"prep", "assault"} /\ Assaut(f)!ClampPercent(n) \in 0..100
  BY PhaseOfStep, ClampBounds
<1>2. step \in AllIds /\ step # NoStep
  BY IdsKnown
<1>3. Assaut(f)!EmptyChoices \in UNION {[S -> AllChoices] : S \in SUBSET AllIds}
  <2>1. Assaut(f)!EmptyChoices = [x \in {} |-> NoStep]
    BY SMT DEF Assaut!EmptyChoices
  <2>2. [x \in {} |-> NoStep] \in [{} -> AllChoices]
    OBVIOUS
  <2> QED
    BY <2>1, <2>2
<1>4. <<step>> \in Seq(AllIds) /\ Len(<<step>>) = 1
  BY <1>2
<1> QED
  BY <1>1, <1>2, <1>3, <1>4 DEF IsSession, Sessions

\* What initialSession() makes of any blob and any GameState is on the file just parsed.
LEMMA InitialSessionOK ==
    ASSUME NEW f \in Files, Accepted(f), NEW b, NEW has \in BOOLEAN, has => IsSession(b),
           NEW step, NEW score \in 0..100
    PROVE  LET s == Assaut(f)!InitialSession(has, b, step, score)
           IN  IsSession(s) /\ s.step \in Ids(f) \cup {NoStep}
<1>1. Assaut(f)!StepIds = Ids(f)
  BY StepIdsAreIds, Zenon
<1>2. \A x : Assaut(f)!HasStep(x) <=> x \in Ids(f)
  BY <1>1, SMT DEF Assaut!HasStep
<1> DEFINE first == Assaut(f)!Flow[1]
<1>3. first \in Ids(f)
  <2>1. /\ Assaut(f)!Flow = [i \in DOMAIN FlowOf(f) |-> FlowOf(f)[i].id]
        /\ Len(FlowOf(f)) \in Nat /\ Len(FlowOf(f)) = Len(f.prep) + Len(f.steps)
        /\ DOMAIN FlowOf(f) = 1..Len(FlowOf(f))
    BY FlowFacts, Zenon
  <2>2. Len(f.prep) \in Nat /\ Len(f.steps) \in Nat /\ Len(f.steps) >= 1
    <3>1. IsList(f.prep) /\ IsList(f.steps) /\ Len(f.steps) \in 1..32
      BY FilesAssumption DEF Shaped, Accepted
    <3>2. Len(f.prep) \in Nat /\ Len(f.steps) \in Nat
      BY <3>1, ListFacts
    <3> DEFINE n == Len(f.steps)
    <3>3. n \in Nat /\ n \in 1..32
      BY <3>1, <3>2
    <3> HIDE DEF n
    <3>4. n >= 1
      BY <3>3
    <3> QED
      BY <3>2, <3>4 DEF n
  <2>3. 1 \in DOMAIN FlowOf(f)
    <3> DEFINE m == Len(f.prep)
               n == Len(f.steps)
    <3>1. m \in Nat /\ n \in Nat /\ n >= 1 /\ DOMAIN FlowOf(f) = 1..m + n
      BY <2>1, <2>2
    <3> HIDE DEF m, n
    <3> QED
      BY <3>1
  <2> QED
    BY <2>1, <2>3 DEF Ids
<1> DEFINE Start(x, n) == [phase |-> Assaut(f)!PhaseOf(x), step |-> x,
                           choices |-> Assaut(f)!EmptyChoices,
                           percent |-> Assaut(f)!ClampPercent(n), visited |-> <<x>>]
<1>4. Assaut(f)!CreateSession = Start(first, 0)
  BY SMT DEF Assaut!CreateSession
<1>5. Assaut(f)!InitialSession(has, b, step, score) =
         IF has /\ (b.step = NoStep \/ Assaut(f)!HasStep(b.step)) THEN b
         ELSE IF Assaut(f)!HasStep(step) THEN Start(step, score) ELSE Assaut(f)!CreateSession
  BY SMT DEF Assaut!InitialSession, Assaut!RestoreSession
<1>6. \A x \in Ids(f), n \in Int : IsSession(Start(x, n)) /\ Start(x, n).step = x
  BY StartedAt
<1> HIDE DEF Start, first
<1>7. score \in Int /\ 0 \in Int
  OBVIOUS
<1> QED
  BY <1>2, <1>3, <1>4, <1>5, <1>6, <1>7

-----------------------------------------------------------------------------
(***************************************************************************)
(* The invariant.  A session in memory, on its way to the disk and on it is *)
(* one that some version of the file made; that of memory stands on a step  *)
(* of the file loaded, which the parser accepted, and nothing is loaded     *)
(* before a boot.                                                           *)
(***************************************************************************)
KeptWrites ==
    [kind : {"session"}, value : {s \in Sessions : IsSession(s)}]
    \cup [kind : {"game"}, value : [step : AllIds \cup {InitStep}, score : 0..100]]

FileInv ==
    /\ file \in Files /\ started \in BOOLEAN /\ edits \in 0..MaxEdits
    /\ loaded \in Files \cup {NoFile} /\ (~started => loaded = NoFile)
    /\ loaded = NoFile => session = NoBlob
    /\ loaded # NoFile =>
          Accepted(loaded) /\ IsSession(session) /\ session.step \in Ids(loaded) \cup {NoStep}
    /\ kept = NoBlob \/ IsSession(kept)
    /\ game \in [step : AllIds \cup {InitStep}, score : 0..100]
    /\ behind \in Seq(KeptWrites)

\* FileInv holds before the first boot.
LEMMA FileInvInit == FileInit => FileInv
<1>1. <<>> \in Seq(KeptWrites)
  BY EmptySeq
<1>2. MaxEdits \in Nat => 0 \in 0..MaxEdits
  OBVIOUS
<1>3. [step |-> InitStep, score |-> 0] \in [step : AllIds \cup {InitStep}, score : 0..100]
  OBVIOUS
<1> QED
  BY <1>1, <1>2, <1>3, FilesAssumption DEF FileInit, FileInv

\* A commit keeps the invariant, whatever whole session it is given.
LEMMA CommitKeeps ==
    ASSUME FileInv, loaded # NoFile, NEW next, Whole(next), next.step \in Ids(loaded) \cup {NoStep},
           Commit(next)
    PROVE  FileInv'
<1>1. /\ loaded \in Files /\ game \in [step : AllIds \cup {InitStep}, score : 0..100]
      /\ behind \in Seq(KeptWrites)
  BY DEF FileInv
<1>2. session' = LastVisit(next) /\ IsSession(session') /\ session'.step = next.step
  BY LastVisitKept DEF Commit
<1> DEFINE w == [kind |-> "session", value |-> session']
           g == [kind |-> "game",
                 value |-> [step |-> Assaut(loaded)!ProjectStep(next, game.step),
                            score |-> next.percent]]
<1>3. behind' = behind \o <<w, g>>
  BY DEF Commit
<1>4. w \in KeptWrites
  BY <1>2 DEF KeptWrites, IsSession
<1>5. g \in KeptWrites
  <2>1. next.percent \in 0..100
    BY SessionFields DEF Whole
  <2>2. Assaut(loaded)!ProjectStep(next, game.step) \in AllIds
    BY ProjectedStep
  <2> QED
    BY <2>1, <2>2 DEF KeptWrites
<1> HIDE DEF w, g
<1>6. behind' \in Seq(KeptWrites)
  <2>1. <<w, g>> \in Seq(KeptWrites)
    BY <1>4, <1>5
  <2> QED
    BY <1>1, <1>3, <2>1, ConcatProperties
<1>7. UNCHANGED <<file, started, loaded, kept, game, edits>>
  BY DEF Commit
<1> QED
  BY <1>2, <1>6, <1>7 DEF FileInv

\* Every step keeps FileInv: a boot makes a session of the file, a commit moves within it.
LEMMA FileInvNext == FileInv /\ [FileNext]_fileVars => FileInv'
<1> SUFFICES ASSUME FileInv, [FileNext]_fileVars PROVE FileInv'
  OBVIOUS
<1>1. CASE Boot
  <2>1. /\ file \in Files /\ loaded = NoFile /\ session = NoBlob
        /\ game \in [step : AllIds \cup {InitStep}, score : 0..100]
        /\ kept = NoBlob \/ IsSession(kept)
    BY <1>1 DEF Boot, FileInv
  <2>2. started' = TRUE /\ UNCHANGED <<file, kept, game, behind, edits>>
    BY <1>1 DEF Boot
  <2>3. CASE Accepted(file)
    <3> DEFINE s == Assaut(file)!InitialSession(kept # NoBlob, kept, game.step, game.score)
    <3>1. loaded' = file /\ session' = s
      BY <1>1, <2>3 DEF Boot
    <3>2. (kept # NoBlob) \in BOOLEAN /\ (kept # NoBlob => IsSession(kept)) /\ game.score \in 0..100
      BY <2>1
    <3>3. IsSession(s) /\ s.step \in Ids(file) \cup {NoStep}
      BY <2>1, <2>3, <3>2, InitialSessionOK
    <3> HIDE DEF s
    <3>4. file # NoFile
      BY <2>1, FilesAssumption
    <3> QED
      BY <2>1, <2>2, <2>3, <3>1, <3>3, <3>4 DEF FileInv
  <2>4. CASE ~Accepted(file)
    <3>1. UNCHANGED <<loaded, session>>
      BY <1>1, <2>4 DEF Boot
    <3> QED
      BY <2>1, <2>2, <3>1 DEF FileInv
  <2> QED
    BY <2>3, <2>4
<1>2. CASE Submit
  <2>1. loaded # NoFile /\ loaded \in Files /\ Accepted(loaded) /\ IsSession(session)
        /\ session.step \in Ids(loaded) \cup {NoStep}
    BY <1>2 DEF Submit, Active, FileInv
  <2>2. session.step # NoStep
    <3>1. ~Assaut(loaded)!AdvanceThrows(session.step)
      BY <1>2 DEF Submit
    <3> QED
      BY <3>1, SMT DEF Assaut!AdvanceThrows
  <2>3. PICK e \in Events \cup {NoEvent} : Commit(Assaut(loaded)!Advance(session, e))
    BY <1>2 DEF Submit
  <2>4. /\ Whole(Assaut(loaded)!Advance(session, e))
        /\ Assaut(loaded)!Advance(session, e).step \in Ids(loaded) \cup {NoStep}
    BY <2>1, <2>2, AdvanceWhole
  <2> QED
    BY <2>1, <2>3, <2>4, CommitKeeps
<1>3. CASE Choose
  <2>1. loaded # NoFile /\ loaded \in Files /\ Accepted(loaded) /\ IsSession(session)
        /\ session.step \in Ids(loaded)
    BY <1>3 DEF Choose, Active, FileInv
  <2>2. PICK c \in Assaut(loaded)!ChoiceIds :
           /\ ~Assaut(loaded)!ChoiceThrows(session.step, c)
           /\ Commit(Assaut(loaded)!ApplyChoice(session, c))
    BY <1>3 DEF Choose
  <2>3. Assaut(loaded)!ChoiceMatches(session.step, c) # {}
    BY <2>2, SMT DEF Assaut!ChoiceThrows
  <2>4. /\ Whole(Assaut(loaded)!ApplyChoice(session, c))
        /\ Assaut(loaded)!ApplyChoice(session, c).step \in Ids(loaded) \cup {NoStep}
    BY <2>1, <2>3, ApplyWhole
  <2> QED
    BY <2>1, <2>2, <2>4, CommitKeeps
<1>4. CASE Write
  <2>1. behind \in Seq(KeptWrites) /\ behind # <<>>
    BY <1>4 DEF Write, FileInv
  <2>2. Head(behind) \in KeptWrites /\ Tail(behind) \in Seq(KeptWrites)
    BY <2>1, HeadTailProperties
  <2>3. /\ IF Head(behind).kind = "session" THEN kept' = Head(behind).value /\ UNCHANGED game
           ELSE game' = Head(behind).value /\ UNCHANGED kept
        /\ behind' = Tail(behind)
        /\ UNCHANGED <<file, started, loaded, session, edits>>
    BY <1>4 DEF Write
  <2>4. CASE Head(behind).kind = "session"
    <3>1. IsSession(kept') /\ UNCHANGED game
      BY <2>2, <2>3, <2>4 DEF KeptWrites
    <3> QED
      BY <2>2, <2>3, <3>1 DEF FileInv
  <2>5. CASE Head(behind).kind # "session"
    <3>1. game' \in [step : AllIds \cup {InitStep}, score : 0..100] /\ UNCHANGED kept
      BY <2>2, <2>3, <2>5 DEF KeptWrites
    <3> QED
      BY <2>2, <2>3, <3>1 DEF FileInv
  <2> QED
    BY <2>4, <2>5
<1>5. CASE Quit
  <2>1. <<>> \in Seq(KeptWrites)
    BY EmptySeq
  <2> QED
    BY <1>5, <2>1 DEF Quit, FileInv
<1>6. CASE Edit
  <2>1. edits' \in 0..MaxEdits
    BY <1>6, FilesAssumption DEF Edit, FileInv
  <2> QED
    BY <1>6, <2>1 DEF Edit, FileInv
<1>7. CASE UNCHANGED fileVars
  BY <1>7 DEF fileVars, FileInv
<1> QED
  BY <1>1, <1>2, <1>3, <1>4, <1>5, <1>6, <1>7 DEF FileNext

\* FileInv gives the property.
LEMMA FileInvStands == FileInv => StandsOnStep
<1> SUFFICES ASSUME FileInv PROVE StandsOnStep
  OBVIOUS
<1>1. FileTypeOK
  <2>1. IsSession(session) => session # NoBlob
    BY FilesAssumption DEF IsSession
  <2>2. game.step \in AllIds \cup {InitStep} /\ game.score \in 0..100
    BY DEF FileInv
  <2>3. \A i \in DOMAIN behind : behind[i].kind = "session" => IsSession(behind[i].value)
    <3>1. behind \in Seq(KeptWrites)
      BY DEF FileInv
    <3>2. \A i \in DOMAIN behind : behind[i] \in KeptWrites
      BY <3>1
    <3> QED
      BY <3>2 DEF KeptWrites
  <2> QED
    BY <2>1, <2>2, <2>3 DEF FileTypeOK, FileInv
<1>2. loaded # NoFile => session.step \in Assaut(loaded)!StepIds \cup {NoStep}
  <2>1. loaded # NoFile => loaded \in Files /\ session.step \in Ids(loaded) \cup {NoStep}
    BY DEF FileInv
  <2> QED
    BY <2>1, StepIdsAreIds
<1> QED
  BY <1>1, <1>2 DEF StandsOnStep

\* Whatever was edited between two boots, and whatever the parser refused, a team stands
\* on a step of the file its engine runs, or is at the end of the flow.
THEOREM AlwaysOnStep == FileSpec => []StandsOnStep
<1>1. FileSpec => []FileInv
  BY FileInvInit, FileInvNext, PTL DEF FileSpec
<1> QED
  BY <1>1, FileInvStands, PTL

-----------------------------------------------------------------------------
(***************************************************************************)
(* ParcoursContent.                                                         *)
(***************************************************************************)
\* The steps of the variant that is played.
Played(c) == c.variants[First(c.variants, "A")].steps

LEMMA ContentLists ==
    ASSUME NEW c \in Contents
    PROVE  /\ Len(c.variants) \in Nat /\ DOMAIN c.variants = 1..Len(c.variants)
           /\ Len(c.mails) \in Nat /\ DOMAIN c.mails = 1..Len(c.mails)
<1>1. c.variants \in Seq(Elements(c.variants)) /\ c.mails \in Seq(Elements(c.mails))
  BY ContentAssumption
<1> QED
  BY <1>1, LenProperties

\* Array.find finds the first of those there are.
LEMMA FirstIsThere ==
    ASSUME NEW n \in Nat, NEW list, DOMAIN list = 1..n,
           NEW id, \E i \in DOMAIN list : list[i].id = id
    PROVE  First(list, id) \in DOMAIN list /\ list[First(list, id)].id = id
<1> DEFINE S == {i \in DOMAIN list : list[i].id = id}
<1>1. S \subseteq Nat /\ S # {}
  OBVIOUS
<1>2. IsWellFoundedOn(OpToRel(<, Nat), Nat)
  BY NatLessThanWellFounded
<1>3. PICK x \in S : \A y \in S : ~ (<<y, x>> \in OpToRel(<, Nat))
  <2> HIDE DEF S
  <2> QED
    BY <1>1, <1>2, WFMin, Zenon
<1>4. \A j \in 1..x-1 : list[j].id # id
  <2>1. TAKE j \in 1..x-1
  <2>2. x \in Nat /\ x \in 1..n /\ j \in 1..n /\ j \in Nat /\ j < x
    BY <1>1
  <2>3. j \notin S
    BY <1>3, <2>2 DEF OpToRel
  <2> QED
    BY <2>2, <2>3
<1> QED
  BY <1>3, <1>4 DEF First

\* The steps played are a list.
LEMMA PlayedSteps ==
    ASSUME NEW c \in Contents, "A" \in VariantIds(c)
    PROVE  /\ Played(c) \in Seq(DOMAIN Kind)
           /\ Len(Played(c)) \in Nat /\ DOMAIN Played(c) = 1..Len(Played(c))
<1>1. \E i \in DOMAIN c.variants : c.variants[i].id = "A"
  BY DEF VariantIds
<1>2. First(c.variants, "A") \in DOMAIN c.variants
  BY <1>1, ContentLists, FirstIsThere
<1>3. Played(c) \in Seq(DOMAIN Kind)
  BY <1>2, ContentAssumption DEF Played
<1> QED
  BY <1>3, LenProperties

\* A content the app starts on has the default variant, with 1 to 32 steps.
LEMMA StartableSteps ==
    ASSUME NEW c \in Contents, Startable(c)
    PROVE  "A" \in VariantIds(c) /\ Len(Played(c)) \in 1..32
<1>1. \E i \in DOMAIN c.variants : c.variants[i].id = "A"
  BY DEF Startable
<1>2. First(c.variants, "A") \in DOMAIN c.variants
  BY <1>1, ContentLists, FirstIsThere
<1> QED
  BY <1>1, <1>2 DEF Startable, ParcoursAccepted, VariantIds, Played

-----------------------------------------------------------------------------
(***************************************************************************)
(* The engine over a content, on flows of the variant played.               *)
(***************************************************************************)
LEMMA EnginePhases ==
    ASSUME NEW c PROVE Engine(c)!Phases = {"single", "accueil", "loading", "saisie", "success",
                                           "error", "inbox", "reading", "phishing"}
  BY Zenon DEF Engine!Phases

\* The engine's reading of a flow, over the steps played.
LEMMA EngineSteps ==
    ASSUME NEW c \in Contents, "A" \in VariantIds(c), NEW s, s.variant = "A"
    PROVE  /\ Engine(c)!VariantSteps(s) = Played(c)
           /\ Engine(c)!InEnigme(s) <=> s.section = "enigmes" /\ s.cursor \in DOMAIN Played(c)
           /\ Engine(c)!CurrentStep(s) = Played(c)[s.cursor]
<1>1. Engine(c)!VariantSteps(s) = Played(c)
  BY SMT DEF Engine!VariantSteps, Played
<1>2. Engine(c)!InEnigme(s) <=> s.section = "enigmes" /\ s.cursor \in DOMAIN Engine(c)!VariantSteps(s)
  BY SMT DEF Engine!InEnigme
<1>3. Engine(c)!CurrentStep(s) = Engine(c)!VariantSteps(s)[s.cursor]
  BY SMT DEF Engine!CurrentStep
<1> QED
  BY <1>1, <1>2, <1>3

KindAt(c, s) == Kind[Played(c)[s.cursor]]

\* PhaseOK over the steps played.
InPhase(c, s) ==
    IF ~(s.section = "enigmes" /\ s.cursor \in DOMAIN Played(c)) THEN s.phase = "single"
    ELSE IF KindAt(c, s) = "mailbox" THEN s.phase \in {"inbox", "reading", "phishing"}
    ELSE IF KindAt(c, s) = "piratage" THEN s.phase = "single"
    ELSE \/ s.phase \in {"accueil", "saisie", "success", "error"}
         \/ s.phase = "loading" /\ KindAt(c, s) = "bdd"

\* InPhase is the PhaseOK of the engine.
LEMMA PhaseInEngine ==
    ASSUME NEW c \in Contents, "A" \in VariantIds(c), NEW s, s.variant = "A"
    PROVE  Engine(c)!PhaseOK(s) <=> InPhase(c, s)
<1>1. /\ Engine(c)!InEnigme(s) <=> s.section = "enigmes" /\ s.cursor \in DOMAIN Played(c)
      /\ Engine(c)!CurrentStep(s) = Played(c)[s.cursor]
  BY EngineSteps
<1> QED
  BY <1>1, SMT DEF Engine!PhaseOK, InPhase, KindAt

\* The mails a flow may have open, of any content.
OpenIds == (UNION {MailIds(d) : d \in Contents}) \cup {NoMail}

\* What Fits says of a flow of the variant played.
OnNode(c, s) ==
    /\ s \in FlowsOver(c)
    /\ s.section = "enigmes" => s.cursor \in DOMAIN Played(c)
    /\ InPhase(c, s)
    /\ s.openedMailId \in MailIds(c) \cup {NoMail}

\* r is a flow, on a node if s is.
Keeps(c, s, r) == r \in FlowsOver(c) /\ (OnNode(c, s) => OnNode(c, r))

\* OnNode is Fits, for a flow of the variant played.
LEMMA OnNodeFits ==
    ASSUME NEW c \in Contents, "A" \in VariantIds(c), NEW s \in FlowsOver(c)
    PROVE  OnNode(c, s) <=> Fits(c, s)
<1>1. s.variant = "A"
  BY DEF FlowsOver
<1> QED
  BY <1>1, EngineSteps, PhaseInEngine DEF OnNode, Fits

\* The fields of a flow, on a node or not.
LEMMA FlowFields ==
    ASSUME NEW c \in Contents, NEW s \in FlowsOver(c)
    PROVE  /\ s.section \in {"prologue", "enigmes", "epilogue"} /\ s.variant = "A"
           /\ s.cursor \in 1..32 /\ s.cursor \in Nat /\ s.phase \in Engine(c)!Phases
           /\ s.attempts \in 0..MaxWrong /\ s.attempts \in Nat
           /\ s.openedMailId \in OpenIds /\ s.score = 0 /\ s.log = <<>>
           /\ 0 \in 0..MaxWrong /\ 1 \in 1..32
<1>2. /\ s.section \in {"prologue", "enigmes", "epilogue"} /\ s.variant = "A"
      /\ s.cursor \in 1..32 /\ s.phase \in Engine(c)!Phases
      /\ s.attempts \in 0..MaxWrong /\ s.log = <<>> /\ s.score = 0
      /\ s.openedMailId \in OpenIds
  BY DEF FlowsOver, OpenIds
<1>3. s.cursor \in Nat /\ 1 \in 1..32
  <2>1. \A i \in 1..32 : i \in Nat
    OBVIOUS
  <2>2. s.cursor \in 1..32
    BY <1>2
  <2> QED
    BY <2>1, <2>2
<1>4. s.attempts \in Nat /\ 0 \in 0..MaxWrong
  BY <1>2, ContentAssumption
<1> QED
  BY <1>2, <1>3, <1>4

\* A mail of the content is one a flow may have open.
LEMMA MailsOpen == ASSUME NEW c \in Contents PROVE MailIds(c) \cup {NoMail} \subseteq OpenIds
<1> DEFINE U == {MailIds(d) : d \in Contents}
<1>1. MailIds(c) \in U
  OBVIOUS
<1> HIDE DEF U
<1>2. MailIds(c) \cup {NoMail} \subseteq (UNION U) \cup {NoMail}
  BY <1>1, Zenon
<1> QED
  BY <1>2, Zenon DEF U, OpenIds

\* A flow is a record of the fields of its type.
LEMMA FlowRecord ==
    ASSUME NEW c \in Contents, NEW s \in FlowsOver(c), NEW g \in {"prologue", "enigmes", "epilogue"},
           NEW i \in 1..32, NEW p \in Engine(c)!Phases, NEW a \in 0..MaxWrong,
           NEW m \in OpenIds
    PROVE  [s EXCEPT !.section = g, !.cursor = i, !.phase = p, !.attempts = a, !.openedMailId = m]
             \in FlowsOver(c)
<1> DEFINE Ph == Engine(c)!Phases
           At == 0..MaxWrong
           Cu == 1..32
           F == [section : {"prologue", "enigmes", "epilogue"}, variant : {"A"}, cursor : Cu,
                 phase : Ph, score : {0}, attempts : At, openedMailId : OpenIds, log : {<<>>}]
<1>1. FlowsOver(c) = F
  BY Zenon DEF FlowsOver, OpenIds
<1>2. p \in Ph /\ a \in At /\ i \in Cu
  OBVIOUS
<1> HIDE DEF Ph, At, Cu
<1>3. s \in F
  BY <1>1
<1> QED
  BY <1>1, <1>2, <1>3

\* A kept flow has no log to leave out.
LEMMA UnloggedSame ==
    ASSUME NEW c \in Contents, NEW s \in FlowsOver(c) PROVE Unlogged(s) = s
  BY DEF FlowsOver, Unlogged

\* enterEnigmes() and enterEpilogue().
LEMMA EnterFits ==
    ASSUME NEW c \in Contents, Startable(c), NEW s \in FlowsOver(c), NEW i \in DOMAIN Played(c)
    PROVE  OnNode(c, Unlogged(Engine(c)!EnterStep(s, i)))
<1> DEFINE k == Kind[Played(c)[i]]
           p == Engine(c)!InitialPhase(k)
           r == [s EXCEPT !.section = "enigmes", !.cursor = i, !.phase = p, !.attempts = 0,
                          !.openedMailId = NoMail]
<1>1. /\ s.variant = "A" /\ "A" \in VariantIds(c) /\ s \in FlowsOver(c) /\ 0 \in 0..MaxWrong
      /\ NoMail \in OpenIds
  BY FlowFields, StartableSteps, MailsOpen
<1>2. i \in 1..32
  <2> DEFINE n == Len(Played(c))
  <2>1. n \in 1..32 /\ i \in 1..n
    BY <1>1, StartableSteps, PlayedSteps
  <2> HIDE DEF n
  <2> QED
    BY <2>1
<1>3. Engine(c)!VariantSteps(s) = Played(c)
  BY <1>1, EngineSteps
<1>4. Engine(c)!EnterStep(s, i) = r
  BY <1>3, SMT DEF Engine!EnterStep
<1>5. p = IF k = "mailbox" THEN "inbox" ELSE IF k = "piratage" THEN "single" ELSE "accueil"
  BY SMT DEF Engine!InitialPhase
<1>6. p \in Engine(c)!Phases
  BY <1>5, EnginePhases
<1> HIDE DEF p
<1>7. r \in FlowsOver(c)
  BY <1>1, <1>2, <1>6, FlowRecord
<1>10. r.section = "enigmes" /\ r.cursor = i /\ r.phase = p /\ r.openedMailId = NoMail
  BY <1>1 DEF FlowsOver
<1> HIDE DEF r
<1>8. KindAt(c, r) = k
  BY <1>10 DEF KindAt
<1> HIDE DEF k
<1>9. InPhase(c, r)
  BY <1>5, <1>10, <1>8 DEF InPhase
<1> QED
  BY <1>4, <1>7, <1>9, <1>10, UnloggedSame DEF OnNode

\* enterEpilogue().
LEMMA EpilogueFits ==
    ASSUME NEW c \in Contents, NEW s \in FlowsOver(c)
    PROVE  OnNode(c, Unlogged(Engine(c)!EnterEpilogue(s)))
<1> DEFINE r == [s EXCEPT !.section = "epilogue", !.cursor = 1, !.phase = "single", !.attempts = 0,
                          !.openedMailId = NoMail]
           l == Engine(c)!Logged(s, "session-complete", s.score, 0)
<1>1. /\ s \in FlowsOver(c) /\ s.log = <<>> /\ 0 \in 0..MaxWrong /\ 1 \in 1..32
      /\ NoMail \in OpenIds
  BY FlowFields, MailsOpen
<1>2. "single" \in Engine(c)!Phases
  BY EnginePhases
<1>3. Engine(c)!EnterEpilogue(s) = [r EXCEPT !.log = l]
  BY SMT DEF Engine!EnterEpilogue
<1>7. r \in FlowsOver(c)
  BY <1>1, <1>2, FlowRecord
<1>4. /\ r \in FlowsOver(c) /\ r.section = "epilogue" /\ r.phase = "single"
      /\ r.openedMailId = NoMail /\ r.log = <<>>
  BY <1>1, <1>7 DEF FlowsOver
<1> HIDE DEF r, l
<1>5. Unlogged([r EXCEPT !.log = l]) = r
  BY <1>4 DEF Unlogged, FlowsOver
<1>6. InPhase(c, r)
  BY <1>4 DEF InPhase
<1> QED
  BY <1>3, <1>4, <1>5, <1>6 DEF OnNode

\* nextOuter(): within the prologue, to a step, to the final screen.
LEMMA NextOuterFits ==
    ASSUME NEW c \in Contents, Startable(c), NEW s \in FlowsOver(c)
    PROVE  Keeps(c, s, Unlogged(Engine(c)!NextOuter(s)))
<1> DEFINE n == Len(Played(c))
<1>1. /\ s.variant = "A" /\ "A" \in VariantIds(c) /\ s.cursor \in Nat /\ s.cursor \in 1..32
      /\ s.section \in {"prologue", "enigmes", "epilogue"} /\ s \in FlowsOver(c)
  BY FlowFields, StartableSteps
<1>2. n \in 1..32 /\ n \in Nat /\ DOMAIN Played(c) = 1..n
  BY <1>1, StartableSteps, PlayedSteps
<1>3. Engine(c)!VariantSteps(s) = Played(c)
  BY <1>1, EngineSteps
<1> DEFINE first == Engine(c)!EnterStep(s, 1)
           next == Engine(c)!EnterStep(s, s.cursor + 1)
           last == Engine(c)!EnterEpilogue(s)
           more == [s EXCEPT !.cursor = @ + 1, !.phase = "single"]
<1>4. Engine(c)!NextOuter(s) =
        CASE s.section = "prologue" /\ s.cursor < Len(<<"connexion">>) -> more
          [] s.section = "prologue" /\ s.cursor >= Len(<<"connexion">>) -> first
          [] s.section = "enigmes" /\ s.cursor < Len(Engine(c)!VariantSteps(s)) -> next
          [] s.section = "enigmes" /\ s.cursor >= Len(Engine(c)!VariantSteps(s)) -> last
          [] OTHER -> s
  BY Zenon DEF Engine!NextOuter
<1> DEFINE out == Engine(c)!NextOuter(s)
<1>9. /\ s.section = "prologue" => out = first
      /\ s.section = "enigmes" /\ s.cursor < n => out = next
      /\ s.section = "enigmes" /\ ~(s.cursor < n) => out = last
      /\ s.section = "epilogue" => out = s
  <2>1. Len(<<"connexion">>) = 1 /\ Len(Engine(c)!VariantSteps(s)) = n
    BY <1>3
  <2>2. ~(s.cursor < 1) /\ s.cursor >= 1 /\ (s.cursor >= n <=> ~(s.cursor < n))
    <3>1. s.cursor \in 1..32 /\ n \in Nat
      BY <1>1, <1>2
    <3> HIDE DEF n
    <3>2. \A i \in 1..32 : \A k \in Nat : ~(i < 1) /\ i >= 1 /\ (i >= k <=> ~(i < k))
      OBVIOUS
    <3> QED
      BY <3>1, <3>2
  <2> HIDE DEF first, next, last, more, out, n
  <2> QED
    BY <1>4, <2>1, <2>2 DEF out
<1> HIDE DEF n
<1>5. CASE s.section = "prologue"
  <2>1. Engine(c)!NextOuter(s) = Engine(c)!EnterStep(s, 1)
    BY <1>9, <1>5
  <2>2. 1 \in DOMAIN Played(c)
    BY <1>2
  <2> QED
    BY <2>1, <2>2, EnterFits DEF Keeps, OnNode
<1>6. CASE s.section = "enigmes" /\ s.cursor < n
  <2>1. Engine(c)!NextOuter(s) = Engine(c)!EnterStep(s, s.cursor + 1)
    BY <1>9, <1>6
  <2>2. s.cursor + 1 \in DOMAIN Played(c)
    BY <1>1, <1>2, <1>6
  <2> QED
    BY <2>1, <2>2, EnterFits DEF Keeps, OnNode
<1>7. CASE s.section = "enigmes" /\ ~(s.cursor < n)
  <2>1. Engine(c)!NextOuter(s) = Engine(c)!EnterEpilogue(s)
    BY <1>9, <1>7
  <2> QED
    BY <2>1, EpilogueFits DEF Keeps, OnNode
<1>8. CASE s.section = "epilogue"
  BY <1>1, <1>9, <1>8, UnloggedSame DEF Keeps
<1> QED
  BY <1>1, <1>5, <1>6, <1>7, <1>8

\* A change of the phase, and of what goes with it, on the step the flow is on.
LEMMA PhaseChangeFits ==
    ASSUME NEW c \in Contents, NEW s \in FlowsOver(c), NEW p \in Engine(c)!Phases,
           NEW a \in 0..MaxWrong, NEW m \in OpenIds, NEW l,
           OnNode(c, s) => InPhase(c, [s EXCEPT !.phase = p]) /\ m \in MailIds(c) \cup {NoMail}
    PROVE  Keeps(c, s, Unlogged([s EXCEPT !.phase = p, !.attempts = a, !.openedMailId = m, !.log = l]))
<1> DEFINE r == [s EXCEPT !.section = s.section, !.cursor = s.cursor, !.phase = p, !.attempts = a,
                          !.openedMailId = m]
           q == [s EXCEPT !.phase = p]
<1>1. s.section \in {"prologue", "enigmes", "epilogue"} /\ s.cursor \in 1..32 /\ s.log = <<>>
  BY FlowFields
<1>2. r \in FlowsOver(c)
  BY <1>1, FlowRecord
<1>3. Unlogged([s EXCEPT !.phase = p, !.attempts = a, !.openedMailId = m, !.log = l]) = r
  BY <1>1 DEF FlowsOver, Unlogged
<1>4. /\ r.section = s.section /\ r.cursor = s.cursor /\ r.phase = p /\ r.openedMailId = m
      /\ q.section = s.section /\ q.cursor = s.cursor /\ q.phase = p
  BY <1>1 DEF FlowsOver
<1>5. KindAt(c, r) = KindAt(c, q)
  BY <1>4 DEF KindAt
<1>6. OnNode(c, s) => InPhase(c, q) /\ m \in MailIds(c) \cup {NoMail}
  BY DEF q
<1> HIDE DEF r, q
<1>7. InPhase(c, q) => InPhase(c, r)
  BY <1>4, <1>5 DEF InPhase
<1>8. OnNode(c, s) => (r.section = "enigmes" => r.cursor \in DOMAIN Played(c))
  BY <1>4 DEF OnNode
<1>9. OnNode(c, s) => OnNode(c, r)
  BY <1>2, <1>4, <1>6, <1>7, <1>8 DEF OnNode
<1> QED
  BY <1>2, <1>3, <1>9 DEF Keeps

\* A flow with another phase is on the same step.
LEMMA OnPhase ==
    ASSUME NEW c \in Contents, NEW s \in FlowsOver(c), NEW p \in Engine(c)!Phases
    PROVE  /\ [s EXCEPT !.phase = p].phase = p
           /\ [s EXCEPT !.phase = p].section = s.section /\ [s EXCEPT !.phase = p].cursor = s.cursor
           /\ KindAt(c, [s EXCEPT !.phase = p]) = KindAt(c, s)
<1>2. /\ [s EXCEPT !.phase = p].phase = p
      /\ [s EXCEPT !.phase = p].section = s.section /\ [s EXCEPT !.phase = p].cursor = s.cursor
  BY DEF FlowsOver
<1> DEFINE q == [s EXCEPT !.phase = p]
<1>3. q.cursor = s.cursor
  BY <1>2
<1> HIDE DEF q
<1>4. KindAt(c, q) = KindAt(c, s)
  BY <1>3 DEF KindAt
<1> QED
  BY <1>2, <1>4 DEF q

\* A mail closed by the back key or by Continuer.
LEMMA ClosedFits ==
    ASSUME NEW c \in Contents, NEW s \in FlowsOver(c), s.phase \in {"reading", "phishing"}
    PROVE  Keeps(c, s, Unlogged(Engine(c)!Closed(s)))
<1>1. /\ s.attempts \in 0..MaxWrong /\ s.log = <<>>
      /\ "inbox" \in Engine(c)!Phases
  BY FlowFields, EnginePhases
<1>2. OnNode(c, s) => s.section = "enigmes" /\ s.cursor \in DOMAIN Played(c) /\ KindAt(c, s) = "mailbox"
  BY DEF OnNode, InPhase
<1>3. OnNode(c, s) => InPhase(c, [s EXCEPT !.phase = "inbox"])
  BY <1>1, <1>2, OnPhase DEF InPhase
<1>4. Engine(c)!Closed(s) =
        [s EXCEPT !.phase = "inbox", !.attempts = s.attempts, !.openedMailId = NoMail, !.log = s.log]
  <2>1. Engine(c)!Closed(s) = [s EXCEPT !.phase = "inbox", !.openedMailId = NoMail]
    BY Zenon DEF Engine!Closed
  <2> QED
    BY <1>1, <2>1 DEF FlowsOver
<1>5. Keeps(c, s, Unlogged([s EXCEPT !.phase = "inbox", !.attempts = s.attempts,
                                     !.openedMailId = NoMail, !.log = s.log]))
  <2>1. NoMail \in MailIds(c) \cup {NoMail} /\ NoMail \in OpenIds
    BY MailsOpen
  <2> QED
    BY <1>1, <1>3, <2>1, PhaseChangeFits, Zenon
<1> QED
  BY <1>4, <1>5, Zenon

\* The back key: out of a mail, elsewhere nothing.
LEMMA BackFits ==
    ASSUME NEW c \in Contents, NEW s \in FlowsOver(c)
    PROVE  Keeps(c, s, Unlogged(Engine(c)!Dispatch(s, Engine(c)!Back)))
<1> DEFINE e == Engine(c)!Back
<1>1. e.type = "BACK"
  BY SMT DEF Engine!Back
<1> HIDE DEF e
<1>2. Engine(c)!Accepts(s, e)
  BY <1>1, SMT DEF Engine!Accepts
<1>3. Engine(c)!Dispatch(s, e) = IF s.phase \in {"reading", "phishing"} THEN Engine(c)!Closed(s) ELSE s
  BY <1>1, <1>2, SMT DEF Engine!Dispatch
<1> QED
  BY <1>3, ClosedFits, UnloggedSame DEF e, Keeps

\* Recommencer.
LEMMA RetryFits ==
    ASSUME NEW c \in Contents, NEW s \in FlowsOver(c)
    PROVE  Keeps(c, s, Unlogged(Engine(c)!Dispatch(s, Engine(c)!Retry)))
<1> DEFINE e == Engine(c)!Retry
<1>1. e.type = "RETRY"
  BY SMT DEF Engine!Retry
<1> HIDE DEF e
<1>2. Engine(c)!Accepts(s, e) <=> s.phase = "error"
  BY <1>1, SMT DEF Engine!Accepts
<1>3. Engine(c)!Dispatch(s, e) = IF s.phase = "error" THEN [s EXCEPT !.phase = "saisie"] ELSE s
  <2>1. Engine(c)!Retried(s) = [s EXCEPT !.phase = "saisie"]
    BY Zenon DEF Engine!Retried
  <2> QED
    BY <1>1, <1>2, <2>1, SMT DEF Engine!Dispatch
<1>4. /\ s \in FlowsOver(c) /\ s.attempts \in 0..MaxWrong /\ s.log = <<>>
      /\ "saisie" \in Engine(c)!Phases
      /\ s.openedMailId \in OpenIds
  BY FlowFields, EnginePhases
<1>5. CASE s.phase = "error"
  <2>1. OnNode(c, s) => InPhase(c, [s EXCEPT !.phase = "saisie"]) /\ s.openedMailId \in MailIds(c) \cup {NoMail}
    BY <1>4, <1>5, OnPhase DEF InPhase, OnNode
  <2>2. [s EXCEPT !.phase = "saisie"] =
          [s EXCEPT !.phase = "saisie", !.attempts = s.attempts,
                    !.openedMailId = s.openedMailId, !.log = s.log]
    BY <1>4 DEF FlowsOver
  <2>3. Keeps(c, s, Unlogged([s EXCEPT !.phase = "saisie", !.attempts = s.attempts,
                                       !.openedMailId = s.openedMailId, !.log = s.log]))
    BY <1>4, <2>1, PhaseChangeFits, Zenon
  <2> QED
    BY <1>3, <1>5, <2>2, <2>3, Zenon DEF e
<1> QED
  BY <1>3, <1>4, <1>5, UnloggedSame DEF e, Keeps

\* A mail of the inbox: one marked phishing opens on its own screen.
Traps(c) == {c.mails[i].id : i \in {j \in DOMAIN c.mails : c.mails[j].phishing}}

OpenPhase(c, m) == IF m \in Traps(c) THEN "phishing" ELSE "reading"

\* The flow on a phase of the step it is on.
OnPhaseWith(s, p, a, m, l) == [s EXCEPT !.phase = p, !.attempts = a, !.openedMailId = m, !.log = l]

\* OPEN_MAIL, refused but in an inbox.
LEMMA OpenIs ==
    ASSUME NEW c \in Contents, NEW s \in FlowsOver(c), NEW m
    PROVE  /\ Engine(c)!OpenMail(m).type = "OPEN_MAIL" /\ Engine(c)!OpenMail(m).mail = m
           /\ s.phase # "inbox" => Engine(c)!Dispatch(s, Engine(c)!OpenMail(m)) = s
           /\ s.phase = "inbox" =>
                 \E l : Engine(c)!Dispatch(s, Engine(c)!OpenMail(m)) =
                        OnPhaseWith(s, OpenPhase(c, m), s.attempts, m, l)
<1> DEFINE e == Engine(c)!OpenMail(m)
           l == Engine(c)!Logged(s, "phishing-clicked", m, 0)
<1>1. e.type = "OPEN_MAIL" /\ e.mail = m
  BY SMT DEF Engine!OpenMail
<1> HIDE DEF e
<1>2. Engine(c)!Accepts(s, e) <=> s.phase = "inbox"
  BY <1>1, SMT DEF Engine!Accepts
<1>3. Engine(c)!Dispatch(s, e) = IF s.phase = "inbox" THEN Engine(c)!Opened(s, m) ELSE s
  BY <1>1, <1>2, SMT DEF Engine!Dispatch
<1>4. Engine(c)!Opened(s, m) =
        IF m \in Traps(c) THEN [s EXCEPT !.phase = "phishing", !.openedMailId = m, !.log = l]
        ELSE [s EXCEPT !.phase = "reading", !.openedMailId = m]
  BY Zenon DEF Engine!Opened, Traps
<1> HIDE DEF l
<1>6. CASE m \in Traps(c)
  <2>1. [s EXCEPT !.phase = "phishing", !.openedMailId = m, !.log = l] =
          [s EXCEPT !.phase = "phishing", !.attempts = s.attempts, !.openedMailId = m, !.log = l]
    BY DEF FlowsOver
  <2> QED
    BY <1>1, <1>3, <1>4, <1>6, <2>1 DEF e, OpenPhase, OnPhaseWith
<1>7. CASE m \notin Traps(c)
  <2>1. [s EXCEPT !.phase = "reading", !.openedMailId = m] =
          [s EXCEPT !.phase = "reading", !.attempts = s.attempts, !.openedMailId = m, !.log = s.log]
    BY DEF FlowsOver
  <2> QED
    BY <1>1, <1>3, <1>4, <1>7, <2>1 DEF e, OpenPhase, OnPhaseWith
<1> QED
  BY <1>6, <1>7

\* A mail tapped leaves the flow on its mailbox.
LEMMA OpenFits ==
    ASSUME NEW c \in Contents, NEW s \in FlowsOver(c), NEW m \in MailIds(c)
    PROVE  Keeps(c, s, Unlogged(Engine(c)!Dispatch(s, Engine(c)!OpenMail(m))))
<1> DEFINE p == OpenPhase(c, m)
<1>1. s \in FlowsOver(c) /\ s.attempts \in 0..MaxWrong /\ p \in Engine(c)!Phases
      /\ p \in {"phishing", "reading"}
  BY FlowFields, EnginePhases DEF OpenPhase
<1>4. /\ s.phase # "inbox" => Engine(c)!Dispatch(s, Engine(c)!OpenMail(m)) = s
      /\ s.phase = "inbox" =>
            \E l : Engine(c)!Dispatch(s, Engine(c)!OpenMail(m)) =
                   OnPhaseWith(s, p, s.attempts, m, l)
  BY OpenIs
<1> HIDE DEF p
<1>2. CASE s.phase # "inbox"
  <2>1. Engine(c)!Dispatch(s, Engine(c)!OpenMail(m)) = s
    BY <1>2, <1>4
  <2> QED
    BY <1>1, <2>1, UnloggedSame DEF Keeps
<1>3. CASE s.phase = "inbox"
  <2>1. PICK l : Engine(c)!Dispatch(s, Engine(c)!OpenMail(m)) =
                   OnPhaseWith(s, p, s.attempts, m, l)
    BY <1>3, <1>4
  <2>2. OnNode(c, s) => InPhase(c, [s EXCEPT !.phase = p])
    BY <1>1, <1>3, OnPhase DEF InPhase, OnNode
  <2>3. m \in MailIds(c) \cup {NoMail} /\ m \in OpenIds
    BY MailsOpen
  <2>4. Keeps(c, s, Unlogged([s EXCEPT !.phase = p, !.attempts = s.attempts, !.openedMailId = m, !.log = l]))
    BY <1>1, <2>2, <2>3, PhaseChangeFits, Zenon
  <2> QED
    BY <2>1, <2>4, Zenon DEF OnPhaseWith
<1> QED
  BY <1>2, <1>3

\* Valider, with attempts below the bound.
LEMMA AnswerFits ==
    ASSUME NEW c \in Contents, "A" \in VariantIds(c), NEW s \in FlowsOver(c), NEW input,
           Engine(c)!Dispatch(s, Engine(c)!Answer(input)).attempts <= MaxWrong
    PROVE  Keeps(c, s, Unlogged(Engine(c)!Dispatch(s, Engine(c)!Answer(input))))
<1> DEFINE e == Engine(c)!Answer(input)
           d == Engine(c)!Dispatch(s, e)
           step == Engine(c)!CurrentStep(s)
           ls == Engine(c)!Logged(s, "enigme-solved", step, s.attempts + 1)
           le == Engine(c)!Logged(s, "enigme-error", step, s.attempts + 1)
           ok == Engine(c)!IsCorrect(step, input)
<1>1. e.type = "ANSWER" /\ e.input = input
  BY SMT DEF Engine!Answer
<1>2. /\ s \in FlowsOver(c) /\ s.variant = "A" /\ s.score = 0 /\ s.attempts \in 0..MaxWrong
      /\ s.attempts \in Nat /\ s.openedMailId \in OpenIds
      /\ {"success", "error"} \subseteq Engine(c)!Phases
  BY FlowFields, EnginePhases
<1>3. Engine(c)!InEnigme(s) <=> s.section = "enigmes" /\ s.cursor \in DOMAIN Played(c)
  BY <1>2, EngineSteps
<1>4. step \in DOMAIN Kind \/ ~Engine(c)!InEnigme(s)
  <2>1. Played(c) \in Seq(DOMAIN Kind)
    BY PlayedSteps
  <2>2. s.cursor \in DOMAIN Played(c) => Played(c)[s.cursor] \in DOMAIN Kind
    BY <2>1, ElementOfSeq
  <2> QED
    BY <1>2, <1>3, <2>2, EngineSteps
<1> HIDE DEF e
<1>5. Engine(c)!Accepts(s, e) <=> s.phase = "saisie" /\ Engine(c)!InEnigme(s)
  BY <1>1, SMT DEF Engine!Accepts
<1>6. d = IF s.phase = "saisie" /\ Engine(c)!InEnigme(s) THEN Engine(c)!Answered(s, input) ELSE s
  BY <1>1, <1>5, SMT DEF Engine!Dispatch
<1>7. Engine(c)!Answered(s, input) =
        IF ok THEN [s EXCEPT !.phase = "success", !.score = @ + [x \in DOMAIN Kind |-> 0][step],
                             !.log = ls]
        ELSE [s EXCEPT !.phase = "error", !.attempts = @ + 1, !.log = le]
  BY Zenon DEF Engine!Answered
<1>8. d.attempts <= MaxWrong
  BY DEF e
<1> HIDE DEF d, ls, le, ok, step
<1>9. CASE ~(s.phase = "saisie" /\ Engine(c)!InEnigme(s))
  BY <1>2, <1>6, <1>9, UnloggedSame DEF d, e, Keeps
<1>10. CASE s.phase = "saisie" /\ Engine(c)!InEnigme(s) /\ ok
  <2>1. d = [s EXCEPT !.phase = "success", !.attempts = s.attempts,
                      !.openedMailId = s.openedMailId, !.log = ls]
    <3>1. [x \in DOMAIN Kind |-> 0][step] = 0
      BY <1>4, <1>10
    <3>2. d = [s EXCEPT !.phase = "success", !.score = 0, !.log = ls]
      <4> DEFINE pts == [x \in DOMAIN Kind |-> 0][step]
      <4>1. d = [s EXCEPT !.phase = "success", !.score = @ + pts, !.log = ls]
        BY <1>6, <1>7, <1>10, Zenon
      <4>2. pts = 0
        BY <3>1
      <4> HIDE DEF pts
      <4> QED
        BY <1>2, <4>1, <4>2
    <3> QED
      BY <1>2, <3>2 DEF FlowsOver
  <2>2. OnNode(c, s) => InPhase(c, [s EXCEPT !.phase = "success"]) /\ s.openedMailId \in MailIds(c) \cup {NoMail}
    BY <1>2, <1>10, OnPhase DEF InPhase, OnNode
  <2>3. Keeps(c, s, Unlogged([s EXCEPT !.phase = "success", !.attempts = s.attempts,
                                     !.openedMailId = s.openedMailId, !.log = ls]))
    <3>1. "success" \in Engine(c)!Phases
      BY <1>2
    <3> QED
      BY <1>2, <2>2, <3>1, PhaseChangeFits, Zenon
  <2> QED
    BY <2>1, <2>3, Zenon DEF d, e
<1>11. CASE s.phase = "saisie" /\ Engine(c)!InEnigme(s) /\ ~ok
  <2> DEFINE a == s.attempts + 1
  <2>1. d = [s EXCEPT !.phase = "error", !.attempts = a, !.openedMailId = s.openedMailId, !.log = le]
    <3>1. d = [s EXCEPT !.phase = "error", !.attempts = a, !.log = le]
      BY <1>6, <1>7, <1>11
    <3> HIDE DEF a
    <3> QED
      BY <1>2, <3>1 DEF FlowsOver
  <2>2. OnNode(c, s) => InPhase(c, [s EXCEPT !.phase = "error"]) /\ s.openedMailId \in MailIds(c) \cup {NoMail}
    BY <1>2, <1>11, OnPhase DEF InPhase, OnNode
  <2>3. a \in 0..MaxWrong
    <3>1. d.attempts = a
      <4> HIDE DEF a
      <4> QED
        BY <1>2, <2>1 DEF FlowsOver
    <3> QED
      BY <1>2, <1>8, <3>1, ContentAssumption
  <2> HIDE DEF a
  <2>4. Keeps(c, s, Unlogged([s EXCEPT !.phase = "error", !.attempts = a,
                                     !.openedMailId = s.openedMailId, !.log = le]))
    <3>1. "error" \in Engine(c)!Phases
      BY <1>2
    <3> QED
      BY <1>2, <2>2, <2>3, <3>1, PhaseChangeFits, Zenon
  <2> QED
    BY <2>1, <2>4, Zenon DEF d, e
<1> QED
  BY <1>9, <1>10, <1>11
\* Continuer: into the next phase of a briefing, out of a mail, or to the next node.
LEMMA ContinueFits ==
    ASSUME NEW c \in Contents, Startable(c), NEW s \in FlowsOver(c)
    PROVE  Keeps(c, s, Unlogged(Engine(c)!Dispatch(s, Engine(c)!Continue)))
<1> DEFINE e == Engine(c)!Continue
           ok == Engine(c)!Accepts(s, e)
           d == Engine(c)!Dispatch(s, e)
           p == Engine(c)!NextIntroPhase(Kind[Engine(c)!CurrentStep(s)], s.phase)
           out == Engine(c)!NextOuter(s)
           shut == Engine(c)!Closed(s)
           go == Engine(c)!Continued(s)
<1>1. /\ s \in FlowsOver(c) /\ s.variant = "A" /\ "A" \in VariantIds(c) /\ s.log = <<>>
      /\ s.attempts \in 0..MaxWrong /\ s.openedMailId \in OpenIds
  BY FlowFields, StartableSteps
<1>2. e.type = "CONTINUE"
  BY SMT DEF Engine!Continue
<1>3. d = IF ok THEN go ELSE s
  <2> HIDE DEF e, ok
  <2> QED
    BY <1>2, SMT DEF Engine!Dispatch, ok
<1>4. go = CASE s.section = "enigmes" /\ s.phase \in {"accueil", "loading"} -> [s EXCEPT !.phase = p]
             [] s.section = "enigmes" /\ s.phase \in {"reading", "phishing"} -> shut
             [] OTHER -> out
  BY Zenon DEF Engine!Continued
<1>5. Keeps(c, s, Unlogged(out))
  BY NextOuterFits
<1>6. s.phase \in {"reading", "phishing"} => Keeps(c, s, Unlogged(shut))
  BY ClosedFits
<1>7. Engine(c)!CurrentStep(s) = Played(c)[s.cursor]
  BY <1>1, EngineSteps
<1>8. p = IF KindAt(c, s) = "bdd" /\ s.phase = "accueil" THEN "loading" ELSE "saisie"
  BY <1>7, SMT DEF Engine!NextIntroPhase, KindAt
<1>9. {"loading", "saisie"} \subseteq Engine(c)!Phases
  BY EnginePhases
<1> HIDE DEF e, ok, d, p, out, shut, go
<1>10. ASSUME s.section = "enigmes", s.phase \in {"accueil", "loading"}
       PROVE  Keeps(c, s, Unlogged([s EXCEPT !.phase = p]))
  <2>1. p \in Engine(c)!Phases
    BY <1>8, <1>9
  <2>2. OnNode(c, s) => InPhase(c, [s EXCEPT !.phase = p]) /\ s.openedMailId \in MailIds(c) \cup {NoMail}
    <3>1. OnNode(c, s) => /\ s.cursor \in DOMAIN Played(c) /\ KindAt(c, s) # "mailbox" /\ KindAt(c, s) # "piratage"
      BY <1>10 DEF OnNode, InPhase
    <3> QED
      BY <1>8, <1>10, <2>1, <3>1, OnPhase DEF InPhase, OnNode
  <2>3. Keeps(c, s, Unlogged([s EXCEPT !.phase = p, !.attempts = s.attempts,
                                     !.openedMailId = s.openedMailId, !.log = s.log]))
    BY <1>1, <2>1, <2>2, PhaseChangeFits, Zenon
  <2>4. [s EXCEPT !.phase = p] =
          [s EXCEPT !.phase = p, !.attempts = s.attempts,
                    !.openedMailId = s.openedMailId, !.log = s.log]
    BY <1>1 DEF FlowsOver
  <2> QED
    BY <2>3, <2>4, Zenon
<1>11. Keeps(c, s, Unlogged(go))
  <2>1. CASE s.section = "enigmes" /\ s.phase \in {"accueil", "loading"}
    <3>1. go = [s EXCEPT !.phase = p]
      BY <1>4, <2>1
    <3> QED
      BY <1>10, <2>1, <3>1, Zenon
  <2>2. CASE s.section = "enigmes" /\ s.phase \in {"reading", "phishing"}
    <3>1. go = shut
      BY <1>4, <2>2
    <3> QED
      BY <1>6, <2>2, <3>1
  <2>3. CASE ~(s.section = "enigmes" /\ s.phase \in {"accueil", "loading", "reading", "phishing"})
    <3>1. go = out
      BY <1>4, <2>3
    <3> QED
      BY <1>5, <3>1
  <2> QED
    BY <2>1, <2>2, <2>3
<1>12. d = go \/ d = s
  BY <1>3
<1>13. Unlogged(s) = s
  BY <1>1, UnloggedSame
<1> QED
  BY <1>11, <1>12, <1>13, Zenon DEF d, e, Keeps

-----------------------------------------------------------------------------
(***************************************************************************)
(* The events of a screen.                                                  *)
(***************************************************************************)
LEMMA EventTypes ==
    ASSUME NEW c
    PROVE  /\ Engine(c)!Continue.type # "OPEN_MAIL" /\ Engine(c)!Back.type # "OPEN_MAIL"
           /\ Engine(c)!Retry.type # "OPEN_MAIL"
           /\ \A input : Engine(c)!Answer(input).type # "OPEN_MAIL"
<1>1. Engine(c)!Continue.type # "OPEN_MAIL"
  BY SMT DEF Engine!Continue
<1>2. Engine(c)!Back.type # "OPEN_MAIL"
  BY SMT DEF Engine!Back
<1>3. Engine(c)!Retry.type # "OPEN_MAIL"
  BY SMT DEF Engine!Retry
<1>4. ASSUME NEW input PROVE Engine(c)!Answer(input).type # "OPEN_MAIL"
  BY SMT DEF Engine!Answer
<1> QED
  BY <1>1, <1>2, <1>3, <1>4

\* The events renderView() wires.
LEMMA WiredEvents ==
    ASSUME NEW c, NEW s, NEW e \in Wired(c, s)
    PROVE  \/ e = Engine(c)!Continue \/ e = Engine(c)!Retry
           \/ \E m \in MailIds(c) : e = Engine(c)!OpenMail(m)
           \/ \E input : e = Engine(c)!Answer(input)
<1>1. e \in Engine(c)!ErrorEvents(s) => e = Engine(c)!Continue \/ e = Engine(c)!Retry
  BY Zenon DEF Engine!ErrorEvents
<1> QED
  BY <1>1, Zenon DEF Wired

\* Whatever the screen or the back key dispatches keeps the flow on a node.
LEMMA TapFits ==
    ASSUME NEW c \in Contents, Startable(c), NEW s \in FlowsOver(c),
           NEW e \in Wired(c, s) \cup {Engine(c)!Back},
           Unlogged(Engine(c)!Dispatch(s, e)).attempts <= MaxWrong
    PROVE  Keeps(c, s, Unlogged(Engine(c)!Dispatch(s, e)))
<1>1. CASE e = Engine(c)!Continue
  BY <1>1, ContinueFits
<1>2. CASE e = Engine(c)!Retry
  BY <1>2, RetryFits
<1>3. CASE \E m \in MailIds(c) : e = Engine(c)!OpenMail(m)
  BY <1>3, OpenFits
<1>4. CASE \E input : e = Engine(c)!Answer(input)
  <2>1. PICK input : e = Engine(c)!Answer(input)
    BY <1>4
  <2> DEFINE d == Engine(c)!Dispatch(s, e)
  <2>2. d.attempts <= MaxWrong
    <3>1. "A" \in VariantIds(c)
      BY StartableSteps
    <3>2. Unlogged(d).attempts <= MaxWrong
      OBVIOUS
    <3> HIDE DEF d
    <3> QED
      BY <3>2 DEF Unlogged
  <2> QED
    BY <2>1, <2>2, AnswerFits, StartableSteps
<1>5. CASE e = Engine(c)!Back
  BY <1>5, BackFits
<1> QED
  BY <1>1, <1>2, <1>3, <1>4, <1>5, WiredEvents

\* The mail on the screen is the one that was tapped, on the screen meant for it.
MailShown(c, s, i) ==
    /\ i \in DOMAIN c.mails /\ c.mails[i].id = s.openedMailId
    /\ s.phase = "phishing" <=> c.mails[i].phishing

\* The mail opened is the one tapped: the parser refuses two of one id.
LEMMA TapShows ==
    ASSUME NEW c \in Contents, Startable(c), NEW s \in FlowsOver(c),
           NEW e \in Wired(c, s) \cup {Engine(c)!Back}, e.type = "OPEN_MAIL",
           Unlogged(Engine(c)!Dispatch(s, e)) # s,
           NEW i \in DOMAIN c.mails, c.mails[i].id = e.mail
    PROVE  MailShown(c, Unlogged(Engine(c)!Dispatch(s, e)), i)
<1>1. PICK m \in MailIds(c) : e = Engine(c)!OpenMail(m)
  BY EventTypes, WiredEvents
<1>2. e.mail = m
  BY <1>1, OpenIs
<1>3. s \in FlowsOver(c) /\ Unlogged(s) = s
  BY UnloggedSame
<1>4. /\ s.phase # "inbox" => Engine(c)!Dispatch(s, e) = s
      /\ s.phase = "inbox" =>
            \E l : Engine(c)!Dispatch(s, e) = OnPhaseWith(s, OpenPhase(c, m), s.attempts, m, l)
  BY <1>1, OpenIs
<1>5. s.phase = "inbox"
  BY <1>3, <1>4
<1>6. PICK l : Engine(c)!Dispatch(s, e) = OnPhaseWith(s, OpenPhase(c, m), s.attempts, m, l)
  BY <1>4, <1>5
<1> DEFINE r == Unlogged(Engine(c)!Dispatch(s, e))
<1>7. r.phase = OpenPhase(c, m) /\ r.openedMailId = m
  BY <1>3, <1>6 DEF OnPhaseWith, Unlogged, FlowsOver
<1> HIDE DEF r
<1>8. m \in Traps(c) <=> c.mails[i].phishing
  <2>1. IdsUnique(c.mails)
    BY DEF Startable, MailboxAccepted
  <2> QED
    BY <1>2, <2>1 DEF Traps, IdsUnique
<1>9. OpenPhase(c, m) = "phishing" <=> m \in Traps(c)
  BY DEF OpenPhase
<1> QED
  BY <1>2, <1>7, <1>8, <1>9 DEF MailShown, r
-----------------------------------------------------------------------------
(***************************************************************************)
(* A content added to: what was there is where it was.                      *)
(***************************************************************************)
LEMMA FlowsOverAny ==
    ASSUME NEW c, NEW d PROVE FlowsOver(c) = FlowsOver(d)
<1>1. Engine(c)!Phases = Engine(d)!Phases
  BY EnginePhases
<1> QED
  BY <1>1, Zenon DEF FlowsOver

\* A flow that fits a content fits what is added to it.
LEMMA AddedFits ==
    ASSUME NEW c \in Contents, NEW d \in Contents, Adds(c, d), "A" \in VariantIds(c),
           NEW s, OnNode(c, s)
    PROVE  "A" \in VariantIds(d) /\ OnNode(d, s)
<1>1. "A" \in VariantIds(d) /\ IsPrefixOf(Played(c), Played(d)) /\ IsPrefixOf(c.mails, d.mails)
  BY DEF Adds, Played
<1>2. s \in FlowsOver(d)
  BY FlowsOverAny DEF OnNode
<1>3. \A i \in DOMAIN Played(c) : i \in DOMAIN Played(d) /\ Played(d)[i] = Played(c)[i]
  <2> DEFINE n == Len(Played(c))
             k == Len(Played(d))
  <2>1. n \in Nat /\ k \in Nat /\ DOMAIN Played(c) = 1..n /\ DOMAIN Played(d) = 1..k
    BY <1>1, PlayedSteps
  <2>2. n <= k
    BY <1>1 DEF IsPrefixOf
  <2> HIDE DEF n, k
  <2>3. \A i \in 1..n : i \in 1..k
    BY <2>1, <2>2
  <2> QED
    BY <1>1, <2>1, <2>3 DEF IsPrefixOf
<1>4. MailIds(c) \subseteq MailIds(d)
  <2> DEFINE n == Len(c.mails)
             k == Len(d.mails)
  <2>1. n \in Nat /\ k \in Nat /\ DOMAIN c.mails = 1..n /\ DOMAIN d.mails = 1..k
    BY ContentLists
  <2>2. n <= k
    BY <1>1 DEF IsPrefixOf
  <2> HIDE DEF n, k
  <2>3. \A i \in 1..n : i \in 1..k
    BY <2>1, <2>2
  <2> QED
    BY <1>1, <2>1, <2>3 DEF IsPrefixOf, MailIds
<1>5. s.section = "enigmes" => s.cursor \in DOMAIN Played(d) /\ KindAt(d, s) = KindAt(c, s)
  BY <1>3 DEF OnNode, KindAt
<1>6. InPhase(d, s)
  BY <1>5 DEF OnNode, InPhase
<1> QED
  BY <1>1, <1>2, <1>4, <1>5, <1>6 DEF OnNode

-----------------------------------------------------------------------------
(***************************************************************************)
(* The invariant: a flow in play fits where the blob it is kept in does.    *)
(***************************************************************************)
ContentInv ==
    /\ content \in Contents /\ on \in BOOLEAN
    /\ on <=> flow # NoFlow
    /\ on => Startable(content) /\ flow \in FlowsOver(content)
    /\ on /\ ~skewed => OnNode(content, flow)
    /\ blob # NoFlow => blob \in FlowsOver(content)
    /\ on /\ blob # NoFlow /\ OnNode(content, blob) => OnNode(content, flow)
    /\ tapped # 0 => on /\ MailShown(content, flow, tapped)

\* createFlow() fits.
LEMMA FreshFits ==
    ASSUME NEW c \in Contents PROVE OnNode(c, Engine(c)!CreateFlow)
<1> DEFINE r == Engine(c)!CreateFlow
<1>1. r = [section |-> "prologue", variant |-> "A", cursor |-> 1, phase |-> "single", score |-> 0,
           attempts |-> 0, openedMailId |-> NoMail, log |-> <<>>]
  BY Zenon DEF Engine!CreateFlow
<1> HIDE DEF r
<1>2. 0 \in 0..MaxWrong /\ 1 \in 1..32
  BY ContentAssumption
<1>3. "single" \in Engine(c)!Phases
  BY EnginePhases
<1>4. r \in FlowsOver(c)
  BY <1>1, <1>2, <1>3 DEF FlowsOver
<1>5. InPhase(c, r)
  BY <1>1 DEF InPhase
<1> QED
  BY <1>1, <1>4, <1>5 DEF OnNode, r

\* A flow is not the absence of one.
LEMMA FlowIsThere ==
    ASSUME NEW c \in Contents, NEW s \in FlowsOver(c) PROVE s # NoFlow
BY ContentAssumption

\* A launch, over whatever blob there is.
LEMMA LaunchStep ==
    ASSUME ContentInv, Launch PROVE ContentInv'
<1> USE DEF ContentInv
<1>1. /\ Startable(content) /\ "A" \in VariantIds(content) /\ content' = content /\ blob' = blob
      /\ on' = TRUE /\ flow' = Hydrated /\ tapped' = 0
      /\ skewed' = (blob # NoFlow /\ ~Fits(content, blob))
  BY StartableSteps DEF Launch
<1>2. CASE blob = NoFlow
  <2>1. Hydrated = Engine(content)!CreateFlow
    BY <1>2 DEF Hydrated
  <2>2. OnNode(content, Hydrated) /\ Hydrated \in FlowsOver(content)
    BY <2>1, FreshFits DEF OnNode
  <2> QED
    BY <1>1, <1>2, <2>2, FlowIsThere
<1>3. CASE blob # NoFlow
  <2>1. Hydrated = blob /\ blob \in FlowsOver(content)
    BY <1>3 DEF Hydrated
  <2>2. Fits(content, blob) => OnNode(content, blob)
    BY <1>1, <2>1, OnNodeFits
  <2> QED
    BY <1>1, <1>3, <2>1, <2>2, FlowIsThere
<1> QED
  BY <1>2, <1>3

LEMMA ContentStep ==
    ASSUME ContentInv, [Next]_vars PROVE ContentInv'
<1> USE DEF ContentInv
<1>1. CASE Launch
  BY <1>1, LaunchStep
<1>2. CASE Play
  <2>1. PICK e \in Wired(content, flow) \cup {Engine(content)!Back} : Tap(e)
    BY <1>2 DEF Play
  <2> DEFINE s == Unlogged(Engine(content)!Dispatch(flow, e))
  <2>2. /\ on /\ on' = on /\ content' = content /\ blob' = blob /\ skewed' = skewed
        /\ flow' = s /\ s # flow /\ s.attempts <= MaxWrong
        /\ tapped' \in IF e.type # "OPEN_MAIL" THEN {0}
                       ELSE {i \in DOMAIN content.mails : content.mails[i].id = e.mail}
    BY <2>1 DEF Tap
  <2>3. Keeps(content, flow, s)
    BY <2>2, TapFits
  <2>4. tapped' # 0 => MailShown(content, s, tapped')
    BY <2>2, TapShows
  <2> HIDE DEF s
  <2>5. s \in FlowsOver(content) /\ (OnNode(content, flow) => OnNode(content, s))
    BY <2>3 DEF Keeps
  <2> QED
    BY <2>2, <2>4, <2>5, FlowIsThere
<1>3. CASE Flush
  BY <1>3 DEF Flush
<1>4. CASE Kill
  BY <1>4 DEF Kill
<1>5. CASE Update
  <2>1. /\ content' \in Contents /\ on' = FALSE /\ flow' = NoFlow /\ blob' = blob
        /\ tapped' = 0
    BY <1>5 DEF Update
  <2>2. blob # NoFlow => blob \in FlowsOver(content')
    BY <2>1, FlowsOverAny
  <2> QED
    BY <2>1, <2>2
<1>6. CASE UNCHANGED vars
  BY <1>6 DEF vars
<1> QED
  BY <1>1, <1>2, <1>3, <1>4, <1>5, <1>6 DEF Next

\* The invariant gives the property.
LEMMA ContentFits == ContentInv => FlowFits
<1> SUFFICES ASSUME ContentInv PROVE FlowFits
  OBVIOUS
<1> USE DEF ContentInv
<1>1. TypeOK
  BY DEF TypeOK
<1>2. on /\ ~skewed => Fits(content, flow)
  BY OnNodeFits, StartableSteps
<1>3. MailAsTapped
  <2> SUFFICES ASSUME tapped # 0
               PROVE  /\ First(content.mails, flow.openedMailId) = tapped
                      /\ flow.phase = "phishing" <=> content.mails[tapped].phishing
    BY DEF MailAsTapped
  <2>1. MailShown(content, flow, tapped) /\ IdsUnique(content.mails)
    BY DEF Startable, MailboxAccepted
  <2>2. LET i == First(content.mails, flow.openedMailId)
        IN  i \in DOMAIN content.mails /\ content.mails[i].id = flow.openedMailId
    BY <2>1, ContentLists, FirstIsThere DEF MailShown
  <2> QED
    BY <2>1, <2>2 DEF MailShown, IdsUnique
<1> QED
  BY <1>1, <1>2, <1>3 DEF FlowFits, SkewFallsBack

LEMMA ContentStart == Init => ContentInv
BY DEF Init, ContentInv

\* FlowFits, for any contents and any updates: a flow that starts afresh or from a blob
\* that fits is played on the nodes of the installed content, and every flow shows the
\* mail that was tapped.
THEOREM FlowAlwaysFits == Spec => []FlowFits
<1> QED
  BY ContentStart, ContentStep, ContentFits, PTL DEF Spec

\* What the disk holds goes on fitting, however long the game and however many updates,
\* as long as they add.
THEOREM AlwaysStaysFit == Spec => StaysFit
<1>1. ASSUME ContentInv, ContentInv', [Next]_vars, Startable(content), Adds(content, content'),
             blob # NoFlow, Fits(content, blob)
      PROVE  Fits(content', blob')
  <2>1. /\ content \in Contents /\ content' \in Contents /\ "A" \in VariantIds(content)
        /\ blob \in FlowsOver(content)
    BY <1>1, StartableSteps DEF ContentInv
  <2>2. OnNode(content, blob)
    BY <1>1, <2>1, OnNodeFits
  <2>3. blob' = blob \/ (on /\ blob' = flow /\ content' = content)
    BY <1>1 DEF Next, Launch, Play, Tap, Flush, Kill, Update, vars
  <2>4. OnNode(content, blob') /\ blob' # NoFlow
    <3>1. CASE blob' = blob
      BY <1>1, <2>2, <3>1
    <3>2. CASE on /\ blob' = flow
      BY <1>1, <2>2, <3>2 DEF ContentInv
    <3> QED
      BY <2>3, <3>1, <3>2
  <2>5. "A" \in VariantIds(content') /\ OnNode(content', blob')
    BY <1>1, <2>1, <2>4, AddedFits
  <2>6. blob' \in FlowsOver(content')
    BY <1>1, <2>4 DEF ContentInv
  <2> QED
    BY <2>1, <2>5, <2>6, OnNodeFits
<1>2. ContentInv /\ ContentInv' /\ [Next]_vars =>
         [Startable(content) /\ Adds(content, content') /\ blob # NoFlow /\ Fits(content, blob) =>
             Fits(content', blob')]_vars
  BY <1>1
<1> QED
  BY <1>2, ContentStart, ContentStep, PTL DEF Spec, StaysFit
=============================================================================
