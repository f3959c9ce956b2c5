----------------------------- MODULE MCImageFeed -----------------------------
(* ImageFeed for TLC: two callers of one feed.                              *)
EXTENDS ImageFeed

CONSTANTS u1, u2
=============================================================================
