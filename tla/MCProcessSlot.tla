---------------------------- MODULE MCProcessSlot ----------------------------
(* ProcessSlot for TLC: which start is for which stream.                    *)
EXTENDS ProcessSlot

CONSTANTS s1, s2, m1, m2, l1

TwoStreams == [a \in {m1, m2, l1} |-> IF a = m2 THEN s2 ELSE s1]

OneStream == [a \in {m1, m2} |-> s1]

ApartStreams == [a \in {m1, m2} |-> IF a = m1 THEN s1 ELSE s2]
=============================================================================
