----------------------------- MODULE ProcessSlot -----------------------------
(***************************************************************************)
(* The process manager of internal/streamproc: who owns the video slot,    *)
(* and who is responsible for the FFmpeg child that runs in it.            *)
(*                                                                         *)
(* An attempt is one request to start a stream.  A legacy attempt reserves *)
(* the slot, spawns FFmpeg and publishes it "running" in one call.  A      *)
(* managed attempt is prepared first (begin, spawn, install), then         *)
(* committed, aborted or expired.  Each attempt has its own trackedProcess *)
(* object, so the attempt names the object: slot[s] = a says that          *)
(* Manager.processes[s] points to the object of a.                         *)
(*                                                                         *)
(* One action is one stretch of code between two points where the mutex    *)
(* Manager.mu is released or a goroutine blocks.  The goroutines that can  *)
(* be in flight for an attempt have a place each:                          *)
(*   owner    the request that calls startProcess                          *)
(*   wait     Manager.wait, which observes the exit of the child           *)
(*   abort    the one abortPreparation that got past abortStarted          *)
(*   decider  the commit or the expiry timer, whichever took "prepared"    *)
(*   cleanup  the goroutine of cleanupPreparationResources                 *)
(* A request that is refused changes nothing and is not an action.         *)
(***************************************************************************)
EXTENDS Naturals

CONSTANTS
  Stream,           \* stream ids
  Managed,          \* start attempts made through the start-preparation routes
  Legacy,           \* start attempts made through POST /streams/start
  StreamOf,         \* the stream each attempt is for
  NoStart,          \* nil
  HasPackager,      \* is Manager.Packager configured?
  EagerCommits,     \* may a commit arrive before its prepare was answered?
  LateAborts,       \* may an abort arrive after its commit took effect?
  AbortsMayTimeOut  \* may an abort run out of its five seconds (or its caller
                    \* hang up) before what it waits for has happened?

Attempts == Managed \cup Legacy

ASSUME SlotAssumption ==
  /\ Managed \cap Legacy = {}
  /\ StreamOf \in [Attempts -> Stream]
  /\ NoStart \notin Attempts
  /\ HasPackager \in BOOLEAN
  /\ EagerCommits \in BOOLEAN
  /\ LateAborts \in BOOLEAN
  /\ AbortsMayTimeOut \in BOOLEAN

VARIABLES
  slot,        \* Manager.processes
  status,      \* trackedProcess.snapshot.Status ("none": no object yet)
  cleaning,    \* trackedProcess.cleaning
  phase,       \* StartPreparation.phase
  proc,        \* the FFmpeg child; "killed": told to end, not gone yet
  owner,       \* the goroutine that starts the attempt
  wait,        \* Manager.wait; not "none": the process is installed
  abort,       \* abortPreparation; not "none": abortStarted
  abortPhase,  \* the phase that abortPreparation will leave behind
  decider,     \* commit or expiry
  cleanup      \* cleanupOnce and cleanupDone

tracked == <<slot, status, cleaning>>
vars == <<slot, status, cleaning, phase, proc, owner, wait, abort, abortPhase,
          decider, cleanup>>

Status == {"none", "starting", "running", "stopping", "packaging", "stopped",
           "failed", "completed", "package_failed"}
Phase == {"none", "preparing", "prepared", "committing", "running", "failed",
          "aborted", "expired"}
Terminal == {"failed", "aborted", "expired"}

TypeOK ==
  /\ slot \in [Stream -> Attempts \cup {NoStart}]
  /\ status \in [Attempts -> Status]
  /\ cleaning \in [Attempts -> BOOLEAN]
  /\ phase \in [Managed -> Phase]
  /\ proc \in [Attempts -> {"none", "alive", "killed", "exited"}]
  /\ owner \in [Attempts -> {"idle", "preparing", "spawned", "installed",
                             "failing", "done"}]
  /\ wait \in [Attempts -> {"none", "waiting", "failing", "closing",
                            "closingToPackage", "handoff", "packaging", "done"}]
  /\ abort \in [Managed -> {"none", "prepare", "exit", "cleanup", "gaveUp",
                            "done"}]
  /\ abortPhase \in [Managed -> Phase]
  /\ decider \in [Managed -> {"none", "witness", "abortFailed", "abortExpired",
                              "done"}]
  /\ cleanup \in [Managed -> {"none", "running", "done"}]

Init ==
  /\ slot = [s \in Stream |-> NoStart]
  /\ status = [a \in Attempts |-> "none"]
  /\ cleaning = [a \in Attempts |-> FALSE]
  /\ phase = [a \in Managed |-> "none"]
  /\ proc = [a \in Attempts |-> "none"]
  /\ owner = [a \in Attempts |-> "idle"]
  /\ wait = [a \in Attempts |-> "none"]
  /\ abort = [a \in Managed |-> "none"]
  /\ abortPhase = [a \in Managed |-> "none"]
  /\ decider = [a \in Managed |-> "none"]
  /\ cleanup = [a \in Managed |-> "none"]

-----------------------------------------------------------------------------
(* What the code tests.                                                    *)

OwnsSlot(a) ==
  \/ cleaning[a]
  \/ status[a] \in {"starting", "running", "stopping", "packaging"}

Installed(a) == slot[StreamOf[a]] = a

Holds(a) == Installed(a) /\ OwnsSlot(a)

Occupied(s) == slot[s] # NoStart /\ OwnsSlot(slot[s])

PrepareDoneAlways(a) == TRUE

PrepareDone(a) == owner[a] \in {"failing", "done"}

Exited(a) == wait[a] \notin {"none", "waiting"}

\* The preparation got as far as "running"; its exit may since have been seen.
Committed(a) ==
  \/ phase[a] = "running"
  \/ wait[a] \in {"closing", "closingToPackage", "handoff", "packaging"}

CleanupStarts(a) ==
  cleanup' = IF cleanup[a] = "none" THEN [cleanup EXCEPT ![a] = "running"]
                                    ELSE cleanup

-----------------------------------------------------------------------------
(* Starting: BeginStartPreparation and startProcess.                       *)

SlotFreeOnOwnStream(s) == ~Occupied(s)

SlotFreeForManaged(s) == \A t \in Stream : ~Occupied(t)

SlotFreeForLegacy(s) ==
  \A t \in Stream : Occupied(t) => t # s /\ slot[t] \notin Managed

Reserve(a) ==
  /\ owner[a] = "idle"
  /\ slot' = [slot EXCEPT ![StreamOf[a]] = a]
  /\ status' = [status EXCEPT ![a] = "starting"]
  /\ owner' = [owner EXCEPT ![a] = "preparing"]
  /\ UNCHANGED <<cleaning, proc, wait, abort, abortPhase, decider, cleanup>>

BeginStartPreparation(a) ==
  /\ SlotFreeForManaged(StreamOf[a])
  /\ Reserve(a)
  /\ phase' = [phase EXCEPT ![a] = "preparing"]

ReserveLegacy(a) ==
  /\ SlotFreeForLegacy(StreamOf[a])
  /\ Reserve(a)
  /\ UNCHANGED phase

\* starter.Start.  A managed attempt first finds its reservation in place
\* and its context not cancelled; every abort and expiry cancels it.
Spawn(a) ==
  /\ owner[a] = "preparing"
  /\ a \in Managed => Installed(a) /\ phase[a] = "preparing"
  /\ proc' = [proc EXCEPT ![a] = "alive"]
  /\ owner' = [owner EXCEPT ![a] = "spawned"]
  /\ UNCHANGED <<tracked, phase, wait, abort, abortPhase, decider, cleanup>>

\* Runtime config, a bridge, the cleanup hook or startProcess failed.
PrepareFails(a) ==
  /\ owner[a] = "preparing"
  /\ owner' = [owner EXCEPT ![a] = "failing"]
  /\ UNCHANGED <<tracked, phase, proc, wait, abort, abortPhase, decider, cleanup>>

\* The child is installed whatever happened meanwhile; it is "prepared" only
\* when no abort came and the request is still there.
InstallPrepared(a) ==
  /\ owner[a] = "spawned"
  /\ status' = [status EXCEPT ![a] = "starting"]
  /\ wait' = [wait EXCEPT ![a] = "waiting"]
  /\ \/ /\ phase[a] = "preparing"
        /\ phase' = [phase EXCEPT ![a] = "prepared"]
        /\ owner' = [owner EXCEPT ![a] = "installed"]
     \/ /\ owner' = [owner EXCEPT ![a] = "failing"]
        /\ UNCHANGED phase
  /\ UNCHANGED <<slot, cleaning, proc, abort, abortPhase, decider, cleanup>>

\* Start metadata is written, FinishStartPreparation closes prepareDone and
\* the caller is answered; or the write fails and the attempt is failed.
AnswerPrepare(a) ==
  /\ owner[a] = "installed"
  /\ \/ owner' = [owner EXCEPT ![a] = "done"]
     \/ owner' = [owner EXCEPT ![a] = "failing"]
  /\ UNCHANGED <<tracked, phase, proc, wait, abort, abortPhase, decider, cleanup>>

DropReservation(a) ==
  slot' = IF Installed(a) THEN [slot EXCEPT ![StreamOf[a]] = NoStart] ELSE slot

LegacyStartFails(a) ==
  /\ owner[a] = "preparing"
  /\ DropReservation(a)
  /\ owner' = [owner EXCEPT ![a] = "done"]
  /\ UNCHANGED <<status, cleaning, phase, proc, wait, abort, abortPhase, decider,
                 cleanup>>

\* The initial cover witness or the metadata write failed: the child is
\* killed, and reaped by a goroutine that nobody waits for.
LegacyStartKills(a) ==
  /\ owner[a] = "spawned"
  /\ DropReservation(a)
  /\ owner' = [owner EXCEPT ![a] = "done"]
  /\ proc' = [proc EXCEPT ![a] = IF @ = "alive" THEN "killed" ELSE @]
  /\ UNCHANGED <<status, cleaning, phase, wait, abort, abortPhase, decider, cleanup>>

InstallLegacy(a) ==
  /\ owner[a] = "spawned"
  /\ slot' = [slot EXCEPT ![StreamOf[a]] = a]
  /\ status' = [status EXCEPT ![a] = "running"]
  /\ wait' = [wait EXCEPT ![a] = "waiting"]
  /\ owner' = [owner EXCEPT ![a] = "done"]
  /\ UNCHANGED <<cleaning, phase, proc, abort, abortPhase, decider, cleanup>>

-----------------------------------------------------------------------------
(* abortPreparation: reached from an abort request, a failed prepare, a    *)
(* failed commit and the expiry timer.  Only the first to set abortStarted *)
(* goes on; a preparation that is settled only changes its phase.          *)

Settled(a) == cleanup[a] = "done" /\ PrepareDone(a) /\ ~cleaning[a]

AbortPreparation(a, ph) ==
  \/ /\ Installed(a) /\ Settled(a)
     /\ phase' = [phase EXCEPT ![a] = ph]
     /\ UNCHANGED <<cleaning, abort, abortPhase>>
  \/ /\ Installed(a) /\ ~Settled(a) /\ abort[a] = "none"
     /\ abort' = [abort EXCEPT ![a] = "prepare"]
     /\ abortPhase' = [abortPhase EXCEPT ![a] = ph]
     /\ cleaning' = [cleaning EXCEPT ![a] = TRUE]
     /\ phase' = [phase EXCEPT ![a] = ph]
  \/ /\ ~Installed(a) \/ (~Settled(a) /\ abort[a] # "none")
     /\ UNCHANGED <<cleaning, abort, abortPhase, phase>>

\* POST .../abort, and StopAll for a preparation it finds "starting".
AbortStartPreparation(a) ==
  /\ phase[a] # "none"
  /\ ~(phase[a] = "aborted" /\ ~cleaning[a])
  /\ Committed(a) => LateAborts
  /\ AbortPreparation(a, "aborted")
  /\ UNCHANGED <<slot, status, proc, owner, wait, decider, cleanup>>

FailStartPreparation(a) ==
  /\ owner[a] = "failing"
  /\ owner' = [owner EXCEPT ![a] = "done"]
  /\ AbortPreparation(a, "failed")
  /\ UNCHANGED <<slot, status, proc, wait, decider, cleanup>>

AbortForgetsToKill(a) ==
  /\ abort[a] = "prepare"
  /\ PrepareDone(a)
  /\ abort' = [abort EXCEPT ![a] = IF wait[a] = "none" THEN "cleanup" ELSE "exit"]
  /\ IF wait[a] = "none" THEN CleanupStarts(a) ELSE UNCHANGED cleanup
  /\ UNCHANGED <<tracked, phase, proc, owner, wait, abortPhase, decider>>

\* After prepareDone the process field is final: kill what is installed and
\* not known to have exited, or go straight to the cleanup.
AbortSeesPrepareDone(a) ==
  /\ abort[a] = "prepare"
  /\ PrepareDone(a)
  /\ IF wait[a] = "none"
       THEN /\ abort' = [abort EXCEPT ![a] = "cleanup"]
            /\ CleanupStarts(a)
            /\ UNCHANGED proc
       ELSE /\ abort' = [abort EXCEPT ![a] = "exit"]
            /\ proc' = [proc EXCEPT ![a] = IF @ = "alive" THEN "killed" ELSE @]
            /\ UNCHANGED cleanup
  /\ UNCHANGED <<tracked, phase, owner, wait, abortPhase, decider>>

AbortSeesExit(a) ==
  /\ abort[a] = "exit"
  /\ Exited(a)
  /\ abort' = [abort EXCEPT ![a] = "cleanup"]
  /\ CleanupStarts(a)
  /\ UNCHANGED <<tracked, phase, proc, owner, wait, abortPhase, decider>>

AbortEnds(a) ==
  /\ abort[a] = "cleanup"
  /\ cleanup[a] = "done"
  /\ abort' = [abort EXCEPT ![a] = "done"]
  /\ IF Installed(a)
       THEN /\ status' = [status EXCEPT ![a] = "failed"]
            /\ cleaning' = [cleaning EXCEPT ![a] = FALSE]
            /\ phase' = [phase EXCEPT ![a] = abortPhase[a]]
       ELSE UNCHANGED <<status, cleaning, phase>>
  /\ UNCHANGED <<slot, proc, owner, wait, abortPhase, decider, cleanup>>

\* Five seconds passed, or the client that asked for the abort went away,
\* before the channel the abort waits on was closed.
AbortGivesUp(a) ==
  /\ AbortsMayTimeOut
  /\ \/ abort[a] = "prepare" /\ ~PrepareDone(a)
     \/ abort[a] = "exit" /\ ~Exited(a)
     \/ abort[a] = "cleanup" /\ cleanup[a] # "done"
  /\ abort' = [abort EXCEPT ![a] = "gaveUp"]
  /\ UNCHANGED <<tracked, phase, proc, owner, wait, abortPhase, decider, cleanup>>

CleanupEnds(a) ==
  /\ cleanup[a] = "running"
  /\ cleanup' = [cleanup EXCEPT ![a] = "done"]
  /\ UNCHANGED <<tracked, phase, proc, owner, wait, abort, abortPhase, decider>>

-----------------------------------------------------------------------------
(* Commit and expiry compete for a prepared start under Manager.mu.        *)

CommitBegins(a) ==
  /\ phase[a] = "prepared"
  /\ Installed(a)
  /\ owner[a] = "done" \/ EagerCommits
  /\ phase' = [phase EXCEPT ![a] = "committing"]
  /\ decider' = [decider EXCEPT ![a] = "witness"]
  /\ UNCHANGED <<tracked, proc, owner, wait, abort, abortPhase, cleanup>>

CommitWithoutRecheck(a) == TRUE

CommitStillValid(a) ==
  Installed(a) /\ phase[a] = "committing" /\ status[a] = "starting"

CommitSucceeds(a) ==
  /\ decider[a] = "witness"
  /\ CommitStillValid(a)
  /\ decider' = [decider EXCEPT ![a] = "done"]
  /\ status' = [status EXCEPT ![a] = "running"]
  /\ phase' = [phase EXCEPT ![a] = "running"]
  /\ UNCHANGED <<slot, cleaning, proc, owner, wait, abort, abortPhase, cleanup>>

CommitFailsWithoutAbort(a) ==
  /\ decider[a] = "witness"
  /\ decider' = [decider EXCEPT ![a] = "done"]
  /\ UNCHANGED <<tracked, phase, proc, owner, wait, abort, abortPhase, cleanup>>

\* The graph witness failed or the commit lost its preparation meanwhile.
CommitFails(a) ==
  /\ decider[a] = "witness"
  /\ decider' = [decider EXCEPT ![a] = "abortFailed"]
  /\ UNCHANGED <<tracked, phase, proc, owner, wait, abort, abortPhase, cleanup>>

ExpiryClaims(a) ==
  /\ owner[a] = "done"
  /\ phase[a] = "prepared"
  /\ Installed(a)
  /\ phase' = [phase EXCEPT ![a] = "expired"]
  /\ cleaning' = [cleaning EXCEPT ![a] = TRUE]
  /\ decider' = [decider EXCEPT ![a] = "abortExpired"]
  /\ UNCHANGED <<slot, status, proc, owner, wait, abort, abortPhase, cleanup>>

DeciderAborts(a) ==
  /\ \/ decider[a] = "abortFailed" /\ AbortPreparation(a, "failed")
     \/ decider[a] = "abortExpired" /\ AbortPreparation(a, "expired")
  /\ decider' = [decider EXCEPT ![a] = "done"]
  /\ UNCHANGED <<slot, status, proc, owner, wait, cleanup>>

-----------------------------------------------------------------------------
(* Stopping and the end of the child: Stop, Manager.wait, packageArchive.  *)
(* Manager.wait also has a branch for a child whose slot was taken over;   *)
(* LiveChildHoldsSlot says that it is never needed, and it has no action.  *)

StopOnlyPublishes(s) ==
  LET a == slot[s] IN
  /\ a # NoStart
  /\ status[a] = "running"
  /\ status' = [status EXCEPT ![a] = "stopping"]
  /\ UNCHANGED <<slot, cleaning, phase, proc, owner, wait, abort, abortPhase,
                 decider, cleanup>>

\* Stop publishes "stopping" under the lock, then asks the child to quit and
\* kills it when it does not.
Stop(s) ==
  LET a == slot[s] IN
  /\ a # NoStart
  /\ status[a] = "running"
  /\ status' = [status EXCEPT ![a] = "stopping"]
  /\ proc' = [proc EXCEPT ![a] = IF @ = "alive" THEN "killed" ELSE @]
  /\ UNCHANGED <<slot, cleaning, phase, owner, wait, abort, abortPhase, decider,
                 cleanup>>

ChildDies(a, from) ==
  /\ proc[a] = from
  /\ proc' = [proc EXCEPT ![a] = "exited"]
  /\ UNCHANGED <<tracked, phase, owner, wait, abort, abortPhase, decider, cleanup>>

KilledChildDies(a) == ChildDies(a, "killed")

ChildEndsByItself(a) == ChildDies(a, "alive")

WaitMayReleaseEarly(a) == PrepareDone(a)

WaitMayRelease(a) == PrepareDone(a) /\ cleanup[a] = "done"

\* A preparation that never ran: no packaging, only cleanup.
WaitSeesPreparationExit(a) ==
  /\ wait[a] = "waiting" /\ proc[a] = "exited" /\ Installed(a)
  /\ phase[a] # "running"
  /\ cleaning' = [cleaning EXCEPT ![a] = TRUE]
  /\ status' = [status EXCEPT ![a] = "failed"]
  /\ phase' = [phase EXCEPT ![a] = IF @ \in {"aborted", "expired"} THEN @ ELSE "failed"]
  /\ wait' = [wait EXCEPT ![a] = "failing"]
  /\ CleanupStarts(a)
  /\ UNCHANGED <<slot, proc, owner, abort, abortPhase, decider>>

WaitReleasesPreparation(a) ==
  /\ wait[a] = "failing"
  /\ WaitMayRelease(a)
  /\ cleaning' = [cleaning EXCEPT ![a] = FALSE]
  /\ wait' = [wait EXCEPT ![a] = "done"]
  /\ UNCHANGED <<slot, status, phase, proc, owner, abort, abortPhase, decider, cleanup>>

StatusIgnoringPackager(a, failed) ==
  IF failed /\ status[a] # "stopping" THEN "failed" ELSE "stopped"

StatusAfterExit(a, failed) ==
  IF failed /\ status[a] # "stopping" THEN "failed"
  ELSE IF HasPackager THEN "packaging" ELSE "stopped"

\* A run that was published: an exit nobody asked for that reports an error
\* is a failure, every other exit is packaged.
WaitSeesRunExit(a, failed) ==
  /\ wait[a] = "waiting" /\ proc[a] = "exited" /\ Installed(a)
  /\ a \in Managed => phase[a] = "running"
  /\ cleaning' = [cleaning EXCEPT ![a] = TRUE]
  /\ status' = [status EXCEPT ![a] = StatusAfterExit(a, failed)]
  /\ wait' = [wait EXCEPT ![a] =
                IF (failed /\ status[a] # "stopping") \/ ~HasPackager
                  THEN "closing" ELSE "closingToPackage"]
  /\ IF a \in Managed
       THEN CleanupStarts(a) /\ phase' = [phase EXCEPT ![a] = "failed"]
       ELSE UNCHANGED <<phase, cleanup>>
  /\ UNCHANGED <<slot, proc, owner, abort, abortPhase, decider>>

WaitCloses(a) ==
  /\ wait[a] \in {"closing", "closingToPackage"}
  /\ a \in Managed => cleanup[a] = "done"
  /\ cleaning' = [cleaning EXCEPT ![a] = FALSE]
  /\ wait' = [wait EXCEPT ![a] = IF @ = "closing" THEN "done" ELSE "handoff"]
  /\ UNCHANGED <<slot, status, phase, proc, owner, abort, abortPhase, decider, cleanup>>

\* packageArchive finds the object to update by stream id, before and after
\* the packaging itself.
PackageWrites(a, st) ==
  LET b == slot[StreamOf[a]] IN
  status' = IF b = NoStart THEN status ELSE [status EXCEPT ![b] = st]

PackageBegins(a) ==
  /\ wait[a] = "handoff"
  /\ PackageWrites(a, "packaging")
  /\ wait' = [wait EXCEPT ![a] = "packaging"]
  /\ UNCHANGED <<slot, cleaning, phase, proc, owner, abort, abortPhase, decider, cleanup>>

PackageEnds(a) ==
  /\ wait[a] = "packaging"
  /\ \E st \in {"completed", "package_failed"} : PackageWrites(a, st)
  /\ wait' = [wait EXCEPT ![a] = "done"]
  /\ UNCHANGED <<slot, cleaning, phase, proc, owner, abort, abortPhase, decider, cleanup>>

-----------------------------------------------------------------------------
Next ==
  \/ \E a \in Managed :
       \/ BeginStartPreparation(a) \/ PrepareFails(a) \/ InstallPrepared(a)
       \/ AnswerPrepare(a) \/ FailStartPreparation(a)
       \/ AbortStartPreparation(a) \/ AbortSeesPrepareDone(a)
       \/ AbortSeesExit(a) \/ AbortEnds(a) \/ AbortGivesUp(a) \/ CleanupEnds(a)
       \/ CommitBegins(a) \/ CommitSucceeds(a) \/ CommitFails(a)
       \/ ExpiryClaims(a) \/ DeciderAborts(a)
       \/ WaitSeesPreparationExit(a) \/ WaitReleasesPreparation(a)
  \/ \E a \in Legacy :
       \/ ReserveLegacy(a) \/ LegacyStartFails(a) \/ LegacyStartKills(a)
       \/ InstallLegacy(a)
  \/ \E a \in Attempts :
       \/ Spawn(a) \/ KilledChildDies(a) \/ ChildEndsByItself(a)
       \/ (\E f \in BOOLEAN : WaitSeesRunExit(a, f))
       \/ WaitCloses(a) \/ PackageBegins(a) \/ PackageEnds(a)
  \/ \E s \in Stream : Stop(s)

Spec == Init /\ [][Next]_vars

(***************************************************************************)
(* Goroutines are scheduled, so every step that waits for nobody outside   *)
(* the service is taken: startProcess works under a 15 second context, the *)
(* witness and the packaging under a timeout, the expiry timer fires, and  *)
(* a child that was told to end does.  Nothing is assumed of the control   *)
(* panel or of a child that was left alone.                                *)
(***************************************************************************)
Fairness ==
  /\ \A a \in Managed :
       /\ WF_vars(Spawn(a) \/ PrepareFails(a)) /\ WF_vars(InstallPrepared(a))
       /\ WF_vars(AnswerPrepare(a)) /\ WF_vars(FailStartPreparation(a))
       /\ WF_vars(AbortSeesPrepareDone(a)) /\ WF_vars(AbortSeesExit(a))
       /\ WF_vars(AbortEnds(a)) /\ WF_vars(CleanupEnds(a))
       /\ WF_vars(CommitSucceeds(a) \/ CommitFails(a))
       /\ WF_vars(ExpiryClaims(a)) /\ WF_vars(DeciderAborts(a))
       /\ WF_vars(WaitSeesPreparationExit(a)) /\ WF_vars(WaitReleasesPreparation(a))
  /\ \A a \in Attempts :
       /\ WF_vars(KilledChildDies(a)) /\ WF_vars(\E f \in BOOLEAN : WaitSeesRunExit(a, f))
       /\ WF_vars(WaitCloses(a)) /\ WF_vars(PackageBegins(a)) /\ WF_vars(PackageEnds(a))

FairSpec == Spec /\ Fairness

-----------------------------------------------------------------------------
(* Properties.                                                             *)

\* "Managed preparation owns the one video slot exclusively against every
\* start path" (manager.go:187-188): while a managed start holds the slot,
\* no attempt for another stream holds it too.
SlotExclusive ==
  \A s, t \in Stream :
    (s # t /\ Occupied(s) /\ Occupied(t)) => {slot[s], slot[t]} \cap Managed = {}

\* An FFmpeg child that nobody has told to end, and one whose exit its
\* Manager.wait has still to see, always has its own attempt in the slot: no
\* step of another attempt, and no cleanup of its own, can take the slot away
\* from under a running encoder (startProcess, wait, abort).
LiveChildHoldsSlot ==
  \A a \in Attempts :
    (proc[a] = "alive" \/ wait[a] = "waiting") => Holds(a)

\* "The slot stays owned until done" (start_preparation_commit.go:178): once
\* a managed start no longer holds the slot, its child has been reaped and
\* its bridges and feeds are closed, so a successor never meets them.
ReleasedMeansReaped ==
  \A a \in Managed :
    (owner[a] # "idle" /\ ~Holds(a)) =>
      /\ proc[a] \in {"none", "exited"}
      /\ cleanup[a] = "done"

\* packageArchive looks its object up by stream id (archive_package.go:26 and
\* 184): the attempt it then writes to is the attempt whose recording it packages.
PackageTargetsOwnRun ==
  \A a \in Attempts :
    wait[a] \in {"handoff", "packaging"} => Installed(a) /\ status[a] = "packaging"

\* A preparation that has ended - aborted, expired or failed - is never
\* committed afterwards, whatever the commit in flight had read before
\* (start_preparation_commit.go:50-53).
EndedNeverRuns ==
  [][\A a \in Managed : phase[a] \in Terminal => phase'[a] \in Terminal]_vars

\* The child of an aborted or failed start is always somebody's to reap:
\* "even that process must be installed and reaped" (manager.go:302-303).
\* Not so when aborts may time out: no run checks it, the README tells why.
NoStrandedChild ==
  \A a \in Managed :
    ~ /\ proc[a] = "alive"
      /\ cleaning[a]
      /\ owner[a] = "done"
      /\ abort[a] = "gaveUp"
      /\ decider[a] \in {"none", "done"}

\* The slot as a lease: each attempt acquires it once, when the others allow
\* it, and a start that gave it back never holds it again - not even for the
\* packaging of its recording.
Lease == INSTANCE SlotLease WITH
  holders <- {a \in Attempts : Holds(a)},
  released <- {a \in Attempts : owner[a] # "idle" /\ ~Holds(a)}

ImplementsLease == Lease!Spec

\* Every managed start that ended - aborted, expired, failed or run to its
\* end - gives the slot back, its recording packaged.
EndedReleases ==
  \A a \in Managed : (phase[a] \in Terminal) ~> ~Holds(a)

\* A prepared start does not wait for the control panel for ever: it runs or
\* it ends, even when neither commit nor abort ever arrives.
PreparationResolves ==
  \A a \in Managed :
    (phase[a] \in {"preparing", "prepared", "committing"}) ~>
      (phase[a] \in {"running"} \cup Terminal)

\* A stream that was told to stop gives its slot back.
StopReleases ==
  \A a \in Attempts : (status[a] = "stopping") ~> ~Holds(a)

=============================================================================
