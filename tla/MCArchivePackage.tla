-------------------------- MODULE MCArchivePackage --------------------------
(* ArchivePackage for TLC: runs of two streams.                             *)
EXTENDS ArchivePackage

CONSTANTS a1, a2, b1, streamA, streamB

TwoStreams == [r \in Run |-> IF r = b1 THEN streamB ELSE streamA]
OwnNames == [s \in {TwoStreams[r] : r \in Run} |-> s]
=============================================================================
