------------------------ MODULE AssautSequence_proofs ------------------------
(***************************************************************************)
(* Facts about the Assaut engine, for every flow the config parser accepts. *)
(***************************************************************************)
EXTENDS AssautSequence, SequenceTheorems, WellFoundedInduction, TLAPS

\* Array.find takes the first of the elements that match.
LEMMA FirstOfMember ==
    ASSUME NEW S, S \subseteq Nat, S # {}
    PROVE  FirstOf(S) \in S /\ \A j \in S : FirstOf(S) <= j
<1>1. IsWellFoundedOn(OpToRel(<, Nat), Nat)
  BY NatLessThanWellFounded
<1>2. PICK x \in S : \A y \in S : ~ (<<y, x>> \in OpToRel(<, Nat))
  BY <1>1, WFMin, Zenon
<1>3. \A y \in S : x <= y
  <2>1. TAKE y \in S
  <2>2. <<y, x>> \notin OpToRel(<, Nat)
    BY <1>2
  <2>3. x \in Nat /\ y \in Nat
    OBVIOUS
  <2>4. ~(y < x)
    BY <2>2, <2>3 DEF OpToRel
  <2> QED
    BY <2>3, <2>4
<1> QED
  BY <1>3 DEF FirstOf

-----------------------------------------------------------------------------
(***************************************************************************)
(* The flow is a non-empty sequence of distinct steps.                      *)
(***************************************************************************)
\* flowIds() lists the preparation steps, then the assault steps.
LEMMA FlowSequence ==
    /\ Flow \in Seq(StepIds)
    /\ Len(Flow) \in Nat /\ Len(Flow) >= 1
    /\ DOMAIN Flow = 1..Len(Flow)
<1> DEFINE AssaultIds == {Steps[i] : i \in DOMAIN Steps}
           All == PrepIds \cup AssaultIds
<1>1. Prep \in Seq(All) /\ Steps \in Seq(All)
  <2>1. Prep \in Seq(PrepIds) /\ Steps \in Seq(AssaultIds)
    BY FlowAssumption
  <2> QED
    BY <2>1, SeqMonotonic, Zenon
<1>2. Flow \in Seq(All) /\ Len(Flow) = Len(Prep) + Len(Steps)
  BY <1>1, ConcatProperties DEF Flow
<1>3. Len(Prep) \in Nat /\ Len(Steps) \in Nat /\ Len(Flow) \in Nat
      /\ DOMAIN Flow = 1..Len(Flow)
  BY <1>1, <1>2, LenProperties
<1>4. Len(Flow) >= 1
  BY <1>2, <1>3, FlowAssumption
<1>5. \A i \in 1..Len(Flow) : Flow[i] \in StepIds
  BY <1>3 DEF StepIds
<1>6. Flow \in Seq(StepIds)
  BY <1>2, <1>3, <1>5, IsASeq, ElementOfSeq
<1> QED
  BY <1>3, <1>4, <1>6

\* A step's place in the flow.
LEMMA StepPlace ==
    ASSUME NEW s \in StepIds
    PROVE  \E i \in 1..Len(Flow) :
              /\ Flow[i] = s
              /\ i = (CHOOSE j \in DOMAIN Flow : Flow[j] = s)
<1>1. \E i \in DOMAIN Flow : Flow[i] = s
  BY DEF StepIds
<1> QED
  BY <1>1, FlowSequence

\* linearNext() gives the step after, or null at the end.
LEMMA LinearNextType ==
    ASSUME NEW s \in StepIds
    PROVE  LinearNext(s) \in StepIds \cup {NoStep}
<1>1. PICK i \in 1..Len(Flow) : i = (CHOOSE j \in DOMAIN Flow : Flow[j] = s)
  BY StepPlace
<1>2. LinearNext(s) = IF i < Len(Flow) THEN Flow[i + 1] ELSE NoStep
  BY <1>1 DEF LinearNext
<1>3. i < Len(Flow) => i + 1 \in DOMAIN Flow
  BY FlowSequence
<1> QED
  BY <1>2, <1>3 DEF StepIds

-----------------------------------------------------------------------------
(***************************************************************************)
(* Where the engine may go, and by how much the percentage may change.      *)
(***************************************************************************)
\* The transition found for an event is one of the step's.
LEMMA MatchedTransition ==
    ASSUME NEW s \in StepIds, NEW e, Matches(s, e) # {}
    PROVE  FirstOf(Matches(s, e)) \in DOMAIN Transitions[s]
<1>1. Matches(s, e) \subseteq DOMAIN Transitions[s]
  BY DEF Matches
<1>2. DOMAIN Transitions[s] \subseteq Nat
  BY ConfigAssumption DEF IsSequence
<1>3. FirstOf(Matches(s, e)) \in Matches(s, e)
  BY <1>1, <1>2, FirstOfMember
<1> QED
  BY <1>1, <1>3

\* advance() lands on a step of the flow or ends it.
LEMMA NextStepType ==
    ASSUME NEW s \in StepIds, NEW e
    PROVE  NextStep(s, e) \in StepIds \cup {NoStep}
<1>1. CASE e # NoEvent /\ Matches(s, e) # {}
  <2>1. FirstOf(Matches(s, e)) \in DOMAIN Transitions[s]
    BY <1>1, MatchedTransition
  <2>2. Transitions[s][FirstOf(Matches(s, e))].goto \in StepIds
    BY <2>1, ConfigAssumption
  <2> QED
    BY <1>1, <2>2 DEF NextStep
<1>2. CASE ~(e # NoEvent /\ Matches(s, e) # {})
  BY <1>2, LinearNextType DEF NextStep
<1> QED
  BY <1>1, <1>2

\* The score change of advance() is one of the config's, or none.
LEMMA EventDeltaType ==
    ASSUME NEW s \in StepIds, NEW e
    PROVE  EventDelta(s, e) \in -100..100
<1>1. CASE e # NoEvent /\ Matches(s, e) # {}
  <2>1. FirstOf(Matches(s, e)) \in DOMAIN Transitions[s]
    BY <1>1, MatchedTransition
  <2>2. Transitions[s][FirstOf(Matches(s, e))].delta \in -100..100
    BY <2>1, ConfigAssumption
  <2> QED
    BY <1>1, <2>2 DEF EventDelta
<1>2. CASE ~(e # NoEvent /\ Matches(s, e) # {})
  BY <1>2 DEF EventDelta
<1> QED
  BY <1>1, <1>2

\* The choice found for an id is one of the step's, and has that id.
LEMMA MatchedChoice ==
    ASSUME NEW s \in StepIds, NEW c, ChoiceMatches(s, c) # {}
    PROVE  /\ FirstOf(ChoiceMatches(s, c)) \in DOMAIN Choices[s]
           /\ ChosenOption(s, c).id = c
<1>1. ChoiceMatches(s, c) \subseteq DOMAIN Choices[s]
  BY DEF ChoiceMatches
<1>2. DOMAIN Choices[s] \subseteq Nat
  BY ConfigAssumption DEF IsSequence
<1>3. FirstOf(ChoiceMatches(s, c)) \in ChoiceMatches(s, c)
  BY <1>1, <1>2, FirstOfMember
<1> QED
  BY <1>1, <1>3 DEF ChosenOption, ChoiceMatches

\* applyChoice() lands on a step of the flow or ends it.
LEMMA ChoiceTargetType ==
    ASSUME NEW s \in StepIds, NEW c, ChoiceMatches(s, c) # {}
    PROVE  /\ ChoiceTarget(s, c) \in StepIds \cup {NoStep}
           /\ ChosenOption(s, c).delta \in -100..100
<1>1. FirstOf(ChoiceMatches(s, c)) \in DOMAIN Choices[s]
  BY MatchedChoice
<1>2. ChosenOption(s, c).goto \in StepIds \cup {NoStep}
      /\ ChosenOption(s, c).delta \in -100..100
  BY <1>1, ConfigAssumption DEF ChosenOption
<1> QED
  BY <1>2, LinearNextType DEF ChoiceTarget

\* clampPercent() is the identity on 0..100 and always lands there.
LEMMA ClampPercentRange ==
    ASSUME NEW n \in Int
    PROVE  ClampPercent(n) \in 0..100 /\ (n \in 0..100 => ClampPercent(n) = n)
BY DEF ClampPercent
=============================================================================
