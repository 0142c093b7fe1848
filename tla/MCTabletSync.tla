---------------------------- MODULE MCTabletSync ----------------------------
(* Tablets on a parcours cut to connexion and one énigme.                    *)
EXTENDS TabletSync, TLC

OneEnigme == "A" :> <<"mdp">>
KindOfOne == "mdp" :> "mdp"
PointsOfOne == "mdp" :> 10
NoCap == "mdp" :> 0
Connexion == <<"connexion">>
CONSTANTS d1, d2, t1, t2
NoSkew == [d \in Tablets |-> 0]
OneAhead == [d \in Tablets |-> IF d = d1 THEN 2 ELSE 0]
TeamSymmetry == Permutations(Teams)
=============================================================================
