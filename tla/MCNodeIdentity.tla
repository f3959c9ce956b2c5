--------------------------- MODULE MCNodeIdentity ---------------------------
(* NodeIdentity for TLC: a node that moves to another panel, and is then     *)
(* replaced by a second node.                                                *)
EXTENDS NodeIdentity

CONSTANTS v1, p1, main

MCIssued ==
  <<[id |-> "a", panel |-> "x"], [id |-> "a", panel |-> "y"], [id |-> "b", panel |-> "y"]>>
=============================================================================
