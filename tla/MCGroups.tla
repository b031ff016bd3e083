-------------------------------- MODULE MCGroups --------------------------------
(* An instance of Groups for TLC: two requests, which are alike. *)
EXTENDS Groups, TLC

CONSTANTS owner, x, r1, q1, q2

Alike == Permutations(Request)
=============================================================================
