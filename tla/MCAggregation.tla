---------------------------- MODULE MCAggregation ----------------------------
(* Instances of Aggregation for TLC: the teams are interchangeable. *)
EXTENDS Aggregation, TLC

TeamSymmetry == Permutations(Teams)
=============================================================================
