----------------------------- MODULE SequenceJson -----------------------------
(***************************************************************************)
(* The flow the Assaut application ships with                               *)
(* (apps/assaut/assets/config/sequence.json), as values for the parameters  *)
(* of AssautSequence, and a cut of it for the larger instances.             *)
(***************************************************************************)
EXTENDS Integers, Sequences

FullPrep ==
    <<"saisie-acces", "accueil", "preparation", "point-entree", "point-acces-valide",
      "point-acces-refus", "choix-approche", "attente-code-mg", "accueil-assaut", "tuto">>

FullSteps ==
    <<"debut", "general", "interaction", "perdus", "patrouille", "perdus2", "mcgyver",
      "mcgyver-photo", "rdv-indic", "couper-fil", "epilogue">>

\* The same flow without the screens that only lead to the next one, and with one of
\* those in front of the entry point.
ShortPrep == <<"point-entree", "point-acces-valide", "point-acces-refus", "choix-approche">>
GatePrep == <<"preparation">> \o ShortPrep
ShortSteps == <<"epilogue">>

Ids == {FullPrep[i] : i \in DOMAIN FullPrep} \cup {FullSteps[i] : i \in DOMAIN FullSteps}

FullTransitions ==
    [s \in Ids |->
        CASE s = "point-entree" ->
               <<[when |-> "approved", goto |-> "point-acces-valide", delta |-> 0],
                 [when |-> "refused", goto |-> "point-acces-refus", delta |-> 0]>>
          [] s = "point-acces-valide" ->
               <<[when |-> "continue", goto |-> "choix-approche", delta |-> 0]>>
          [] s = "point-acces-refus" ->
               <<[when |-> "retry", goto |-> "point-entree", delta |-> 0]>>
          [] s = "couper-fil" ->
               <<[when |-> "wire-correct", goto |-> "epilogue", delta |-> 0]>>
          [] OTHER -> <<>>]

FullChoices ==
    [s \in Ids |->
        IF s = "choix-approche"
        THEN <<[id |-> "frontale", goto |-> "none", delta |-> 0],
               [id |-> "furtive", goto |-> "none", delta |-> 0]>>
        ELSE <<>>]

\* extractResponses numbers the labels of config.responses.
FullResponses ==
    [s \in Ids |-> IF s = "interaction" THEN {"r1", "r2", "r3", "r4"} ELSE {}]
=============================================================================
