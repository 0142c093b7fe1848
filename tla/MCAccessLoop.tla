---------------------------- MODULE MCAccessLoop ----------------------------
(* Instances of AccessLoop for TLC. *)
EXTENDS AccessLoop, SequenceJson, TLC

CONSTANTS a1, a2, g1, g2, t1, t2

OneAssaut == {a1}
TwoAssaut == {a1, a2}
OneGm == {g1}
TwoGms == {g1, g2}

TeamOfOne == a1 :> t1
\* a2 has no team yet.
TeamOfOneOfTwo == a1 :> t1 @@ a2 :> NoTeam
\* the installation as it leaves DEFAULT_GAME_STATE: no team.

GmSymmetry == Permutations(Gms)
=============================================================================
