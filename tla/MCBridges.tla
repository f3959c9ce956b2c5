----------------------------- MODULE MCBridges ------------------------------
(* Bridges for TLC: two preparations and two direct starts of one stream,   *)
(* and a stop request.                                                      *)
EXTENDS Bridges, TLC

CONSTANTS p1, p2, d1, d2, h1

Symmetry == Permutations(Staged) \cup Permutations(Direct)
=============================================================================
