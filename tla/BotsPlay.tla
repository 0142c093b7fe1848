------------------------------ MODULE BotsPlay ------------------------------
(***************************************************************************)
(* A tablet of Attaque de Bots being played: the flow of useFlow, the       *)
(* screen React last rendered, and the answer being composed on it.         *)
(*                                                                          *)
(* Covered: taps and timers that fire on a screen the flow has already left *)
(* (a double tap, a timer racing a tap), as handlers dispatch to the latest *)
(* flow; what a screen keeps of an answer from one attempt to the next.     *)
(***************************************************************************)
EXTENDS BotsFlow

CONSTANT MaxSlips  \* bound: wrong answers and trapped mails

ASSUME PlayAssumption == MaxSlips \in Nat

VARIABLES
    current,  \* flowRef
    screen,   \* the flow state of the screen on display
    value,    \* useState of the saisie screen: what « Valider » sends
    marks     \* what the player sees entered: the field, or the re-keyed widget

playVars == <<current, screen, value, marks>>

\* Kinds with a field that shows `value'; on the others the widget alone shows what
\* was entered.
FieldKinds == {"mdp", "telephone", "lecteur-carte", "finale"}

ShowsValue(s) == Kind[CurrentStep(s)] \in FieldKinds

\* Screens drawn by the same component, whose useState therefore survives.
BodyPhases == {"saisie", "success", "error"}
\* Variant (mistake): one component for all the phases of an énigme and for all kinds.
SameBodyAlways(a, b) == InEnigme(a) /\ InEnigme(b)

SameBody(a, b) ==
    /\ InEnigme(a) /\ InEnigme(b)
    /\ a.phase \in BodyPhases /\ b.phase \in BodyPhases
    /\ Kind[CurrentStep(a)] = Kind[CurrentStep(b)]

\* The widget is mounted on the saisie only, under the key `attempts'.
SameWidget(a, b) ==
    /\ SameBody(a, b)
    /\ a.phase = "saisie" /\ b.phase = "saisie" /\ a.attempts = b.attempts

PlayTypeOK ==
    /\ current \in FlowStates /\ PhaseOK(current)
    /\ screen \in FlowStates /\ PhaseOK(screen)
    /\ value \in Inputs /\ marks \in Inputs
    /\ current.openedMailId # NoMail <=> current.phase \in {"reading", "phishing"}

PlayInit ==
    /\ current = CreateFlow /\ screen = CreateFlow
    /\ value = "blank" /\ marks = "blank"

-----------------------------------------------------------------------------
\* A button or timer of the screen on display; useFlow.dispatch drops events
\* that throw or change nothing.
Tap ==
    /\ \E e \in ScreenEvents(screen) : current' = Dispatch(current, e)
    /\ Mistakes(current') <= MaxSlips
    /\ UNCHANGED <<screen, value, marks>>

\* submitTeam: any number is a team; the flow's part of it is a CONTINUE.
SubmitAnyTeam ==
    /\ OnConnexion(screen)
    /\ current' = Dispatch(current, Continue)
    /\ UNCHANGED <<screen, value, marks>>

\* A change of the widget or the field; blank is where both start.
Enter ==
    /\ InEnigme(screen) /\ screen.phase = "saisie"
    /\ \E input \in {"right", "wrong"} : value' = input /\ marks' = input
    /\ UNCHANGED <<current, screen>>

\* « Valider » sends the screen's value.
Validate ==
    /\ InEnigme(screen) /\ screen.phase = "saisie"
    /\ current' = Dispatch(current, Answer(value))
    /\ Mistakes(current') <= MaxSlips
    /\ UNCHANGED <<screen, value, marks>>

\* React draws the latest flow: a new component starts blank, a re-keyed widget too.
Draw ==
    /\ screen # current
    /\ screen' = current
    /\ value' = IF SameBody(screen, current) THEN value ELSE "blank"
    /\ marks' = IF SameBody(screen, current) /\ ShowsValue(current) THEN value
                ELSE IF SameWidget(screen, current) THEN marks ELSE "blank"
    /\ UNCHANGED current

PlayNext == Tap \/ SubmitAnyTeam \/ Enter \/ Validate \/ Draw

PlaySpec == PlayInit /\ [][PlayNext]_playVars

-----------------------------------------------------------------------------
(***************************************************************************)
(* Safety.                                                                  *)
(***************************************************************************)
\* Steps the flow has left behind.
Passed(s) ==
    CASE s.section = "prologue" -> {}
      [] s.section = "epilogue" -> {VariantSteps(s)[i] : i \in DOMAIN VariantSteps(s)}
      [] OTHER -> {VariantSteps(s)[i] : i \in 1..(s.cursor - 1)}

Errors(s, step) == Occurrences(s.log, "enigme-error", step)

\* "Guards against advancing past an unsolved énigme while retries are still
\* available" (dispatch): whatever is tapped twice, an énigme left behind was solved
\* or its attempts were used up.
NoEnigmeSkipped ==
    \A step \in Passed(current) :
        Kind[step] \in EnigmeKinds =>
            \/ Solved(current.log, step)
            \/ Cap[step] > 0 /\ Errors(current, step) = Cap[step]

\* "cap on saisie attempts" (configs.ts): no énigme is answered wrong more often
\* than its maxAttempts, however RETRY and leaving the screen interleave.
CapRespected ==
    /\ PlayTypeOK
    /\ \A step \in StepIds : Cap[step] > 0 => Errors(current, step) <= Cap[step]

\* The score on screen and the log the GM's statistics are made from agree: each
\* énigme pays at most once, and the score is what the solved ones are worth.
ScoreIsLogged ==
    /\ \A step \in StepIds : Occurrences(current.log, "enigme-solved", step) <= 1
    /\ current.score = Worth({step \in StepIds : Solved(current.log, step)})

\* The log is closed once: session-complete is its last event, written on the way
\* into the final screen, with the score shown there.
LogClosedAtEnd ==
    /\ IsComplete(current) <=> \E i \in DOMAIN current.log : current.log[i].kind = "session-complete"
    /\ \A i \in DOMAIN current.log :
          current.log[i].kind = "session-complete" =>
              i = Len(current.log) /\ current.log[i].about = current.score

\* Two énigmes of one kind that shows no value are never neighbours: one of another
\* kind is played between them, and its body takes the place of theirs.  The content
\* shipped is so; parseParcoursConfig does not ask for it.
TwinsApart ==
    \A v \in Variants : \A i, j \in DOMAIN Parcours[v] :
        /\ i < j
        /\ Kind[Parcours[v][i]] = Kind[Parcours[v][j]]
        /\ Kind[Parcours[v][i]] \in EnigmeKinds \ FieldKinds
        => \E k \in i + 1..j - 1 : Kind[Parcours[v][k]] \in EnigmeKinds

\* "Re-keys the input widget so a Recommencer clears prior taps" (types.ts): what
\* « Valider » would send is what the screen shows entered.  After a mistake the
\* code has it only where a field shows the value.
AnswerAsShown ==
    InEnigme(screen) /\ screen.phase = "saisie" /\ (ShowsValue(screen) \/ screen.attempts = 0) =>
        value = marks
=============================================================================
