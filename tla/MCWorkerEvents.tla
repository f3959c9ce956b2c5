--------------------------- MODULE MCWorkerEvents ---------------------------
(* WorkerEvents for TLC: a caption that is also delivered under a second    *)
(* event id, a caption of the next generation, and an overlay event that    *)
(* carries no generation.                                                   *)
EXTENDS WorkerEvents

MCEvent ==
  {[id |-> "u1", key |-> "u1", generation |-> 1, time |-> 1, caption |-> TRUE],
   [id |-> "u2", key |-> "u1", generation |-> 1, time |-> 2, caption |-> TRUE],
   [id |-> "u3", key |-> "u3", generation |-> 2, time |-> 3, caption |-> TRUE],
   [id |-> "u4", key |-> "u4", generation |-> 0, time |-> 3, caption |-> FALSE]}
=============================================================================
