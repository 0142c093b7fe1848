------------------------- MODULE MCParcoursContent -------------------------
(* Contents of up to two steps and two mails, well formed or not.            *)
EXTENDS ParcoursContent, TLC

KindOf == "mails" :> "mailbox" @@ "mdp" :> "mdp" @@ "bases" :> "bdd" @@ "pirate" :> "piratage"
CapOf == "mails" :> 0 @@ "mdp" :> 0 @@ "bases" :> 1 @@ "pirate" :> 0

StepLists == UNION {[1..n -> DOMAIN KindOf] : n \in 0..2}
A(steps) == [id |-> "A", steps |-> steps]

Variants ==
    {<<A(s)>> : s \in StepLists}
    \cup {<<>>, <<[id |-> "B", steps |-> <<"mdp">>]>>, <<A(<<"mdp">>), A(<<"pirate">>)>>}

Mail(id, trap) == [id |-> id, phishing |-> trap]
Mailboxes ==
    { <<Mail("m1", TRUE)>>, <<Mail("m1", FALSE), Mail("m2", TRUE)>>, <<Mail("m1", FALSE)>>,
      <<Mail("m1", FALSE), Mail("m1", TRUE)>>, <<Mail("m1", TRUE), Mail("m2", TRUE)>> }

EditedContents == [variants : Variants, mails : Mailboxes]
=============================================================================
