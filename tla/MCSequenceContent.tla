------------------------- MODULE MCSequenceContent -------------------------
(* Files of at most one preparation and two assault steps, sound or not.     *)
EXTENDS SequenceContent

Names == {"p", "q"}

Branches == {<<>>} \cup {<<[when |-> "go", goto |-> g, delta |-> 60]>> : g \in {"p", "q", "gone"}}
Options == {<<>>} \cup {<<[id |-> "c", goto |-> g, delta |-> -10]>> : g \in {NoStep, "q", "gone"}}

PrepSteps == [id : {"p"}, choices : Options, transitions : Branches]
AssaultSteps == [id : Names, choices : {<<>>}, transitions : Branches]

EditedFiles ==
    [prep : {<<>>} \cup {<<s>> : s \in PrepSteps},
     steps : {<<s>> : s \in AssaultSteps}
             \cup {<<[id |-> "q", choices |-> <<>>, transitions |-> b], s>> :
                       b \in {<<>>}, s \in [id : Names, choices : {<<>>}, transitions : {<<>>}]}]
=============================================================================
