---------------------------- MODULE MCCoverApply ----------------------------
(* CoverApply for TLC.                                                     *)
EXTENDS CoverApply

CONSTANTS a1, a2, s1, s2, k1, k2
=============================================================================
