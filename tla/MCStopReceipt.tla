---------------------------- MODULE MCStopReceipt ----------------------------
(* StopReceipt for TLC: two or three starts of one stream.                  *)
EXTENDS StopReceipt, TLC

CONSTANTS r1, r2, r3

RunSymmetry == Permutations(Run)
=============================================================================
