--------------------------- MODULE AssautSequence ---------------------------
(***************************************************************************)
(* The pure Assaut engine (assaut-sequence.ts): sessions that move over a   *)
(* flow described by data.  The flow is the parsed sequence.json; here it   *)
(* is the module's parameters.  No state: the modules that run the engine   *)
(* (AssautDevice, AccessLoop) extend this one.                              *)
(***************************************************************************)
EXTENDS Integers, Sequences, FiniteSets

CONSTANTS
    Prep,          \* ids of the preparation steps, in order
    Steps,         \* ids of the assault steps, in order
    Transitions,   \* step id -> sequence of [when, goto, delta]
    Choices,       \* step id -> sequence of [id, goto, delta]
    Responses,     \* step id -> set of answers its screen offers ({}: a single button)
    StartPercent,  \* scoring.startPercent
    PointEntree, PointValide, PointRefus,  \* the steps of the access-point screens
    NoStep,        \* null step id: the flow is over, or a choice without goto
    NoEvent        \* submit() called without an event

Flow == Prep \o Steps
StepIds == {Flow[i] : i \in DOMAIN Flow}
PrepIds == {Prep[i] : i \in DOMAIN Prep}
ChoiceIds == UNION {{Choices[s][i].id : i \in DOMAIN Choices[s]} : s \in StepIds}

(***************************************************************************)
(* What parseAssautSequenceConfig guarantees of every config it returns:    *)
(* at least one assault step, ids unique over the whole flow, every goto    *)
(* names a step, choices on preparation steps only.                         *)
(***************************************************************************)
IsSequence(f) == Len(f) \in Nat /\ DOMAIN f = 1..Len(f)

ASSUME FlowAssumption ==
    /\ Prep \in Seq(PrepIds)
    /\ Steps \in Seq({Steps[i] : i \in DOMAIN Steps})
    /\ Len(Steps) >= 1
    /\ \A i, j \in DOMAIN Flow : Flow[i] = Flow[j] => i = j
    /\ NoStep \notin StepIds

ASSUME ConfigAssumption ==
    /\ StartPercent \in 0..100
    /\ {PointEntree, PointValide, PointRefus} \subseteq StepIds
    /\ PointEntree \notin {PointValide, PointRefus} /\ PointValide # PointRefus
    /\ \A s \in StepIds : IsSequence(Transitions[s]) /\ IsSequence(Choices[s])
    /\ \A s \in StepIds : \A i \in DOMAIN Transitions[s] :
          /\ Transitions[s][i].when # NoEvent
          /\ Transitions[s][i].goto \in StepIds
          /\ Transitions[s][i].delta \in -100..100
    /\ \A s \in StepIds : \A i \in DOMAIN Choices[s] :
          /\ s \in PrepIds
          /\ Choices[s][i].goto \in StepIds \cup {NoStep}
          /\ Choices[s][i].delta \in -100..100

-----------------------------------------------------------------------------
ClampPercent(n) == IF n < 0 THEN 0 ELSE IF n > 100 THEN 100 ELSE n

PhaseOf(s) == IF s \in PrepIds THEN "prep" ELSE "assault"

HasStep(s) == s \in StepIds

\* order[order.indexOf(stepId) + 1] ?? null
LinearNext(s) ==
    LET i == CHOOSE i \in DOMAIN Flow : Flow[i] = s
    IN  IF i < Len(Flow) THEN Flow[i + 1] ELSE NoStep

Matches(s, event) == {i \in DOMAIN Transitions[s] : Transitions[s][i].when = event}

\* Array.find: the first transition (or choice) of those that match.
FirstOf(S) == CHOOSE i \in S : \A j \in S : i <= j

HasChoices(s) == Choices[s] # <<>>

(***************************************************************************)
(* Where advance() goes from step s on an event: the first matching         *)
(* transition, else, whatever the event was, the next step of the flow.     *)
(***************************************************************************)
NextStep(s, event) ==
    IF event # NoEvent /\ Matches(s, event) # {}
    THEN Transitions[s][FirstOf(Matches(s, event))].goto
    ELSE LinearNext(s)

EventDelta(s, event) ==
    IF event # NoEvent /\ Matches(s, event) # {}
    THEN Transitions[s][FirstOf(Matches(s, event))].delta
    ELSE 0

ChoiceMatches(s, c) == {i \in DOMAIN Choices[s] : Choices[s][i].id = c}
ChosenOption(s, c) == Choices[s][FirstOf(ChoiceMatches(s, c))]

ChoiceTarget(s, c) ==
    IF ChosenOption(s, c).goto # NoStep THEN ChosenOption(s, c).goto ELSE LinearNext(s)

\* The events that the buttons of any other screen dispatch.
OtherEvents(s) ==
    IF HasChoices(s) THEN {} ELSE IF Responses[s] # {} THEN Responses[s] ELSE {NoEvent}

\* Variant (mistake): the entry-point button advances instead of submitting.
ButtonEventsNoWait(s) ==
    IF s = PointValide THEN {"continue"} ELSE IF s = PointRefus THEN {"retry"}
    ELSE OtherEvents(s)

(***************************************************************************)
(* SequenceRunner: the events a screen's buttons pass to submit().  The     *)
(* entry-point screen has none (its button sends access-submit), nor has a  *)
(* step whose choices call applyChoice.                                     *)
(***************************************************************************)
ButtonEvents(s) ==
    IF s = PointEntree THEN {}
    ELSE IF s = PointValide THEN {"continue"} ELSE IF s = PointRefus THEN {"retry"}
    ELSE OtherEvents(s)

\* advance() throws on a completed session and on a step with choices left.
AdvanceThrows(s) == s = NoStep \/ HasChoices(s)

\* applyChoice() throws on a completed session and on an unknown choice.
ChoiceThrows(s, c) == s = NoStep \/ ChoiceMatches(s, c) = {}

-----------------------------------------------------------------------------
(***************************************************************************)
(* Sessions.                                                                *)
(***************************************************************************)
EmptyChoices == [s \in {} |-> NoStep]

\* AssautSession: the choices map answered steps to choice ids.
ChoiceMaps == UNION {[S -> ChoiceIds] : S \in SUBSET StepIds}

Sessions ==
    [phase : {"prep", "assault", "complete"}, step : StepIds \cup {NoStep},
     choices : ChoiceMaps, percent : 0..100, visited : Seq(StepIds)]

\* Variant (mistake): the phase is left as it was.
MoveToSamePhase(session, target, delta) ==
    LET scored == [session EXCEPT !.percent = ClampPercent(@ + delta)]
    IN  IF target = NoStep
        THEN [scored EXCEPT !.phase = "complete", !.step = NoStep]
        ELSE [scored EXCEPT !.step = target, !.visited = Append(@, target)]

\* moveTo(): to the target, or to the end when it is null.
MoveTo(session, target, delta) ==
    LET scored == [session EXCEPT !.percent = ClampPercent(@ + delta)]
    IN  IF target = NoStep
        THEN [scored EXCEPT !.phase = "complete", !.step = NoStep]
        ELSE [scored EXCEPT !.phase = PhaseOf(target), !.step = target,
                            !.visited = Append(@, target)]

CreateSession ==
    [phase |-> PhaseOf(Flow[1]), step |-> Flow[1], choices |-> EmptyChoices,
     percent |-> ClampPercent(StartPercent), visited |-> <<Flow[1]>>]

Advance(session, event) ==
    MoveTo(session, NextStep(session.step, event), EventDelta(session.step, event))

ApplyChoice(session, c) ==
    LET s == session.step
        moved == MoveTo(session, ChoiceTarget(s, c), ChosenOption(s, c).delta)
    IN  [moved EXCEPT !.choices =
            [x \in DOMAIN @ \cup {s} |-> IF x = s THEN c ELSE @[x]]]

(***************************************************************************)
(* session-bridge.ts: what the session looks like in the GameState, and     *)
(* the session rebuilt at boot from the blob, or else from the GameState.   *)
(***************************************************************************)
ProjectStep(session, prevStep) ==
    IF session.step # NoStep THEN session.step
    ELSE IF session.visited # <<>> THEN session.visited[Len(session.visited)]
    ELSE prevStep

RestoreSession(gsStep, gsScore) ==
    IF HasStep(gsStep)
    THEN [phase |-> PhaseOf(gsStep), step |-> gsStep, choices |-> EmptyChoices,
          percent |-> ClampPercent(gsScore), visited |-> <<gsStep>>]
    ELSE CreateSession

\* Variant (mistake): a blob without a current step is not trusted.
InitialSessionActiveOnly(hasBlob, blob, gsStep, gsScore) ==
    IF hasBlob /\ HasStep(blob.step) THEN blob ELSE RestoreSession(gsStep, gsScore)

InitialSession(hasBlob, blob, gsStep, gsScore) ==
    IF hasBlob /\ (blob.step = NoStep \/ HasStep(blob.step))
    THEN blob
    ELSE RestoreSession(gsStep, gsScore)
=============================================================================
