--------------------------- MODULE MCAssautDevice ---------------------------
(* An instance of AssautDevice for TLC: a flow with a loop, a choice that      *)
(* jumps, and deltas that reach both ends of the percentage.                   *)
EXTENDS AssautDevice

DevPrep == <<"point-entree", "point-acces-valide", "point-acces-refus", "choix-approche">>
DevSteps == <<"couper-fil", "epilogue">>
DevIds == {DevPrep[i] : i \in DOMAIN DevPrep} \cup {DevSteps[i] : i \in DOMAIN DevSteps}

DevTransitions ==
    [s \in DevIds |->
        CASE s = "point-entree" ->
               <<[when |-> "approved", goto |-> "point-acces-valide", delta |-> 40],
                 [when |-> "refused", goto |-> "point-acces-refus", delta |-> -30]>>
          [] s = "point-acces-valide" ->
               <<[when |-> "continue", goto |-> "choix-approche", delta |-> 0]>>
          [] s = "point-acces-refus" ->
               <<[when |-> "retry", goto |-> "point-entree", delta |-> -30]>>
          [] s = "couper-fil" ->
               <<[when |-> "r2", goto |-> "epilogue", delta |-> 80]>>
          [] OTHER -> <<>>]

DevChoices ==
    [s \in DevIds |->
        IF s = "choix-approche"
        THEN <<[id |-> "frontale", goto |-> "epilogue", delta |-> 30],
               [id |-> "furtive", goto |-> "none", delta |-> 30]>>
        ELSE <<>>]

DevResponses ==
    [s \in DevIds |-> IF s = "couper-fil" THEN {"r1", "r2"} ELSE {}]
=============================================================================
