------------------------------ MODULE BotsFlow ------------------------------
(***************************************************************************)
(* The flow engine of Attaque de Bots (bots-flow.ts, flow-templates.ts): a  *)
(* pure reducer over a prologue, the énigmes of a variant, and the final    *)
(* screen.  Each énigme is a small machine of phases given by its kind.     *)
(*                                                                          *)
(* A FlowState is the record of the code; `cursor' counts from 1.  An       *)
(* answer is abstracted to what isCorrect() tells apart: blank, right or    *)
(* wrong.  An event of the log keeps its kind, the step, mail or score it   *)
(* is about, and the number of the attempt, 0 where it has none.            *)
(***************************************************************************)
EXTENDS Integers, Sequences, FiniteSetsExt

CONSTANTS
    Prologue,        \* PROLOGUE_NODES
    Variants,        \* ids of the variants of the config
    DefaultVariant,  \* createFlow's default, "A"
    Parcours,        \* variant -> ids of its steps, in order
    Kind,            \* step -> its kind
    Points,          \* step -> score of a solve
    Cap,             \* step -> maxAttempts, 0 when absent (the schema wants it positive)
    Unauthored,      \* steps without a solution
    Mails,           \* mails of the inbox
    Trap,            \* the mails marked phishing
    NoMail           \* openedMailId null

EnigmeKinds == {"mdp", "telephone", "reseau", "serveurs", "disques-durs",
                "disques-durs-2", "bdd", "lecteur-carte", "finale"}
Kinds == EnigmeKinds \cup {"mailbox", "piratage"}
StepIds == DOMAIN Kind
Inputs == {"blank", "right", "wrong"}
Phases == {"single", "accueil", "loading", "saisie", "success", "error",
           "inbox", "reading", "phishing"}

(* What parseParcoursConfig and parseMailboxConfig let through, and what they do
   not look at but the shipped parcours has: ids of steps unique within a variant. *)
ASSUME ParcoursAssumption ==
    /\ Prologue \in Seq(STRING) /\ Len(Prologue) > 0 /\ Prologue[1] = "connexion"
    /\ IsFiniteSet(Variants) /\ DefaultVariant \in Variants
    /\ Parcours \in [Variants -> Seq(StepIds) \ {<<>>}]
    /\ \A v \in Variants : \A i, j \in DOMAIN Parcours[v] :
          Parcours[v][i] = Parcours[v][j] => i = j
    /\ Kind \in [StepIds -> Kinds]
    /\ Points \in [StepIds -> Nat]
    /\ Cap \in [StepIds -> Nat]
    /\ Unauthored \subseteq StepIds
    /\ Trap \subseteq Mails /\ NoMail \notin Mails

-----------------------------------------------------------------------------
(***************************************************************************)
(* Templates of phases.                                                     *)
(***************************************************************************)
\* Variant (mistake): a mailbox opens on a briefing.
InitialPhaseBriefed(kind) == IF kind = "piratage" THEN "single" ELSE "accueil"

InitialPhase(kind) ==
    CASE kind = "mailbox" -> "inbox"
      [] kind = "piratage" -> "single"
      [] OTHER -> "accueil"

\* Variant (mistake): every briefing is followed by the loading screen.
NextIntroPhaseLoading(kind, phase) == IF phase = "accueil" THEN "loading" ELSE "saisie"

NextIntroPhase(kind, phase) ==
    IF kind = "bdd" /\ phase = "accueil" THEN "loading" ELSE "saisie"

-----------------------------------------------------------------------------
(***************************************************************************)
(* Reading a state.                                                         *)
(***************************************************************************)
VariantSteps(s) == Parcours[s.variant]

InEnigme(s) == s.section = "enigmes" /\ s.cursor \in DOMAIN VariantSteps(s)

CurrentStep(s) == VariantSteps(s)[s.cursor]

NodeId(s) ==
    CASE s.section = "prologue" -> Prologue[s.cursor]
      [] InEnigme(s) -> CurrentStep(s)
      [] OTHER -> "fin"

IsComplete(s) == s.section = "epilogue"

\* Variant (mistake): a step without maxAttempts allows none.
CanRetryCapped(s) ==
    s.phase = "error" /\ InEnigme(s) /\ s.attempts < Cap[CurrentStep(s)]

CanRetry(s) ==
    /\ s.phase = "error"
    /\ InEnigme(s) /\ Cap[CurrentStep(s)] > 0 => s.attempts < Cap[CurrentStep(s)]

\* Without a solution any input that is not blank is taken.
IsCorrect(step, input) ==
    IF step \in Unauthored THEN input # "blank" ELSE input = "right"

-----------------------------------------------------------------------------
(***************************************************************************)
(* Moves between nodes.                                                     *)
(***************************************************************************)
Logged(s, kind, about, attempts) ==
    Append(s.log, [kind |-> kind, about |-> about, attempts |-> attempts])

EnterStep(s, i) ==
    [s EXCEPT !.section = "enigmes", !.cursor = i,
              !.phase = InitialPhase(Kind[VariantSteps(s)[i]]),
              !.attempts = 0, !.openedMailId = NoMail]

EnterEpilogue(s) ==
    [s EXCEPT !.section = "epilogue", !.cursor = 1, !.phase = "single",
              !.attempts = 0, !.openedMailId = NoMail,
              !.log = Logged(s, "session-complete", s.score, 0)]

\* Variant (mistake): the final screen is not terminal.
NextOuterNotTerminal(s) ==
    CASE s.section = "prologue" /\ s.cursor < Len(Prologue) ->
             [s EXCEPT !.cursor = @ + 1, !.phase = "single"]
      [] s.section = "prologue" /\ s.cursor >= Len(Prologue) -> EnterStep(s, 1)
      [] s.section = "enigmes" /\ s.cursor < Len(VariantSteps(s)) ->
             EnterStep(s, s.cursor + 1)
      [] OTHER -> EnterEpilogue(s)

NextOuter(s) ==
    CASE s.section = "prologue" /\ s.cursor < Len(Prologue) ->
             [s EXCEPT !.cursor = @ + 1, !.phase = "single"]
      [] s.section = "prologue" /\ s.cursor >= Len(Prologue) -> EnterStep(s, 1)
      [] s.section = "enigmes" /\ s.cursor < Len(VariantSteps(s)) ->
             EnterStep(s, s.cursor + 1)
      [] s.section = "enigmes" /\ s.cursor >= Len(VariantSteps(s)) -> EnterEpilogue(s)
      [] OTHER -> s

-----------------------------------------------------------------------------
(***************************************************************************)
(* The reducer.  Accepts is false where dispatch() throws a                 *)
(* FlowEngineError, which leaves the state as it was.                       *)
(***************************************************************************)
Accepts(s, e) ==
    CASE e.type = "SET_VARIANT" -> s.section = "prologue" /\ e.variant \in Variants
      [] e.type = "RETRY" -> s.phase = "error"
      [] e.type = "OPEN_MAIL" -> s.phase = "inbox"
      [] e.type = "ANSWER" -> s.phase = "saisie" /\ InEnigme(s)
      [] e.type = "CONTINUE" ->
             s.section = "enigmes" => InEnigme(s) /\ s.phase # "saisie" /\ ~CanRetry(s)
      [] OTHER -> TRUE

Closed(s) == [s EXCEPT !.phase = "inbox", !.openedMailId = NoMail]

Opened(s, mail) ==
    IF mail \in Trap
    THEN [s EXCEPT !.phase = "phishing", !.openedMailId = mail,
                   !.log = Logged(s, "phishing-clicked", mail, 0)]
    ELSE [s EXCEPT !.phase = "reading", !.openedMailId = mail]

\* Variant (mistake): a success screen can be answered again.
AnsweredStays(s, input) ==
    LET step == CurrentStep(s)
    IN  IF IsCorrect(step, input)
        THEN [s EXCEPT !.score = @ + Points[step],
                       !.log = Logged(s, "enigme-solved", step, s.attempts + 1)]
        ELSE [s EXCEPT !.phase = "error", !.attempts = @ + 1,
                       !.log = Logged(s, "enigme-error", step, s.attempts + 1)]

Answered(s, input) ==
    LET step == CurrentStep(s)
    IN  IF IsCorrect(step, input)
        THEN [s EXCEPT !.phase = "success", !.score = @ + Points[step],
                       !.log = Logged(s, "enigme-solved", step, s.attempts + 1)]
        ELSE [s EXCEPT !.phase = "error", !.attempts = @ + 1,
                       !.log = Logged(s, "enigme-error", step, s.attempts + 1)]

Continued(s) ==
    CASE s.section = "enigmes" /\ s.phase \in {"accueil", "loading"} ->
             [s EXCEPT !.phase = NextIntroPhase(Kind[CurrentStep(s)], s.phase)]
      [] s.section = "enigmes" /\ s.phase \in {"reading", "phishing"} -> Closed(s)
      [] OTHER -> NextOuter(s)

\* Variant (mistake): RETRY starts the count of attempts again.
RetriedAnew(s) == [s EXCEPT !.phase = "saisie", !.attempts = 0]

Retried(s) == [s EXCEPT !.phase = "saisie"]

Dispatch(s, e) ==
    IF ~Accepts(s, e) THEN s
    ELSE CASE e.type = "SET_VARIANT" -> [s EXCEPT !.variant = e.variant]
           [] e.type = "BACK" -> IF s.phase \in {"reading", "phishing"} THEN Closed(s) ELSE s
           [] e.type = "RETRY" -> Retried(s)
           [] e.type = "OPEN_MAIL" -> Opened(s, e.mail)
           [] e.type = "ANSWER" -> Answered(s, e.input)
           [] e.type = "CONTINUE" -> Continued(s)

CreateFlow ==
    [section |-> "prologue", variant |-> DefaultVariant, cursor |-> 1,
     phase |-> "single", score |-> 0, attempts |-> 0, openedMailId |-> NoMail,
     log |-> <<>>]

-----------------------------------------------------------------------------
(***************************************************************************)
(* The screens: what renderView() wires for each view.  The hardware back   *)
(* key dispatches BACK on all of them.                                      *)
(***************************************************************************)
Continue == [type |-> "CONTINUE"]
Back == [type |-> "BACK"]
Retry == [type |-> "RETRY"]
OpenMail(mail) == [type |-> "OPEN_MAIL", mail |-> mail]
Answer(input) == [type |-> "ANSWER", input |-> input]

InboxEvents == {OpenMail(mail) : mail \in Mails} \cup {Continue}

\* « Recommencer », or « Continuer » once attempts are capped.
ErrorEvents(s) == IF CanRetry(s) THEN {Retry} ELSE {Continue}

\* A timer, and a tap that skips the wait.
TimedEvents == {Continue}

OnConnexion(s) == s.section = "prologue" /\ NodeId(s) = "connexion"

\* Events a screen's buttons and timers dispatch as they are, and the hardware back;
\* « Valider » of a saisie, which needs the typed value, and of connexion are apart.
ScreenEvents(s) ==
    {Back} \cup
    CASE OnConnexion(s) \/ s.section = "epilogue" \/ s.phase = "saisie" -> {}
      [] s.phase = "inbox" -> InboxEvents
      [] s.phase \in {"reading", "phishing"} -> {}
      [] s.phase = "error" -> ErrorEvents(s)
      [] InEnigme(s) /\ s.phase \in {"single", "loading"} -> TimedEvents
      [] OTHER -> {Continue}

-----------------------------------------------------------------------------
(***************************************************************************)
(* The log.                                                                 *)
(***************************************************************************)
Occurrences(log, kind, about) ==
    Cardinality({i \in DOMAIN log : log[i].kind = kind /\ log[i].about = about})

Solved(log, step) == Occurrences(log, "enigme-solved", step) > 0

\* What a set of steps is worth.
Worth(steps) == MapThenSumSet(LAMBDA step : Points[step], steps)

Mistakes(s) ==
    Cardinality({i \in DOMAIN s.log : s.log[i].kind \in {"enigme-error", "phishing-clicked"}})

PhaseOK(s) ==
    IF ~InEnigme(s) THEN s.phase = "single"
    ELSE CASE Kind[CurrentStep(s)] = "mailbox" -> s.phase \in {"inbox", "reading", "phishing"}
           [] Kind[CurrentStep(s)] = "piratage" -> s.phase = "single"
           [] OTHER -> \/ s.phase \in {"accueil", "saisie", "success", "error"}
                       \/ s.phase = "loading" /\ Kind[CurrentStep(s)] = "bdd"

Events ==
    [kind : {"enigme-solved", "enigme-error"}, about : StepIds, attempts : Nat \ {0}]
    \cup [kind : {"phishing-clicked"}, about : Trap, attempts : {0}]
    \cup [kind : {"session-complete"}, about : Nat, attempts : {0}]

FlowStates ==
    [section : {"prologue", "enigmes", "epilogue"}, variant : Variants,
     cursor : Nat \ {0}, phase : Phases, score : Nat, attempts : Nat,
     openedMailId : Mails \cup {NoMail}, log : Seq(Events)]
=============================================================================
