------------------------------ MODULE SlotLease ------------------------------
(***************************************************************************)
(* What the encoder promises about its one video slot, without saying how. *)
(*                                                                         *)
(* A start attempt leases the slot once and gives it back once.  A managed *)
(* (prepared) start is alone: it is granted the slot only while nobody     *)
(* holds it, and nobody is granted it while a managed start holds it.      *)
(* Legacy starts may share the encoder, one for each stream.               *)
(*                                                                         *)
(* ProcessSlot, the model of internal/streamproc, is shown to implement    *)
(* this module.                                                            *)
(***************************************************************************)
CONSTANTS
  Stream,    \* stream ids
  Managed,   \* start attempts made through the start-preparation routes
  Legacy,    \* start attempts made through POST /streams/start
  StreamOf   \* the stream each attempt is for

VARIABLES
  holders,   \* attempts that hold the slot
  released   \* attempts that held it and gave it back

leaseVars == <<holders, released>>

LeaseAttempts == Managed \cup Legacy

Compatible(a) ==
  /\ holders \cap Managed = {}
  /\ a \in Managed => holders = {}
  /\ \A h \in holders : StreamOf[h] # StreamOf[a]

Init ==
  /\ holders = {}
  /\ released = {}

Acquire(a) ==
  /\ a \notin holders \cup released
  /\ Compatible(a)
  /\ holders' = holders \cup {a}
  /\ UNCHANGED released

Release(a) ==
  /\ a \in holders
  /\ holders' = holders \ {a}
  /\ released' = released \cup {a}

Next == \E a \in LeaseAttempts : Acquire(a) \/ Release(a)

Spec == Init /\ [][Next]_leaseVars

=============================================================================
