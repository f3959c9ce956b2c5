----------------------------- MODULE StopReceipt -----------------------------
(***************************************************************************)
(* Stop requests for one stream and the receipt that remembers them across *)
(* a restart (internal/streamproc/stop_receipt.go, Stop, startProcess).    *)
(*                                                                         *)
(* A run is one start of the stream.  Its start first removes the receipt  *)
(* of an earlier stop, then (on the legacy route) reserves the slot; its   *)
(* stop waits until the child is gone, then writes a receipt and answers.  *)
(* The receipt file is replaced or removed in the directory first and the  *)
(* directory is synced afterwards; until then a power loss may keep either *)
(* state.  The slot rules are those of ProcessSlot, for one stream, with a  *)
(* packager configured.                                                    *)
(***************************************************************************)
EXTENDS FiniteSets

CONSTANTS
  Run,         \* starts of the stream, each made once
  NoRun

ASSUME ReceiptAssumption == NoRun \notin Run

VARIABLES
  entry,     \* Manager.processes of the stream
  status,    \* trackedProcess.snapshot.Status
  cleaning,  \* trackedProcess.cleaning
  exited,    \* has wait seen the child of the run exit?
  starter,   \* the start request
  stopper,   \* the stop request that found the run "running"
  receipt,   \* the run whose stop wrote the receipt file that is there now
  durable,   \* the same for the file a power loss leaves
  expired,   \* runs whose receipt has outlived its TTL
  inherited, \* history: receipts in the directory when the run was started
  synced,    \* history: starts that synced the removal of a receipt
  since      \* history: starts asked for since the run was told to stop

memory == <<entry, status, cleaning, exited>>
disk == <<receipt, durable>>
history == <<inherited, synced, since>>
vars == <<memory, starter, stopper, disk, expired, history>>

TypeOK ==
  /\ entry \in Run \cup {NoRun}
  /\ status \in [Run -> {"none", "starting", "running", "stopping", "packaging",
                         "failed", "completed", "package_failed"}]
  /\ cleaning \in [Run -> BOOLEAN] /\ exited \in [Run -> BOOLEAN]
  /\ starter \in [Run -> {"idle", "removed", "cleared", "reserved", "started", "over"}]
  /\ stopper \in [Run -> {"none", "waiting", "written", "answered", "over"}]
  /\ receipt \in Run \cup {NoRun} /\ durable \in Run \cup {NoRun}
  /\ expired \subseteq Run
  /\ synced \subseteq Run
  /\ inherited \in [Run -> SUBSET Run] /\ since \in [Run -> SUBSET Run]

Init ==
  /\ entry = NoRun
  /\ status = [r \in Run |-> "none"]
  /\ cleaning = [r \in Run |-> FALSE] /\ exited = [r \in Run |-> FALSE]
  /\ starter = [r \in Run |-> "idle"] /\ stopper = [r \in Run |-> "none"]
  /\ receipt = NoRun /\ durable = NoRun
  /\ expired = {}
  /\ synced = {}
  /\ inherited = [r \in Run |-> {}] /\ since = [r \in Run |-> {}]

-----------------------------------------------------------------------------
(* Starting.                                                               *)

Occupied ==
  /\ entry # NoRun
  /\ cleaning[entry] \/ status[entry] \in {"starting", "running", "stopping", "packaging"}

Starting(r) == starter[r] \in {"removed", "cleared", "reserved"}

\* clearStopReceipt finds no file and has nothing to sync, or removes the file ...
StartRemovesReceipt(r) ==
  /\ starter[r] = "idle"
  /\ starter' = [starter EXCEPT ![r] = IF receipt = NoRun THEN "cleared" ELSE "removed"]
  /\ receipt' = NoRun
  /\ inherited' = [inherited EXCEPT ![r] = {receipt, durable} \ {NoRun}]
  /\ since' = [q \in Run |-> since[q] \cup {r}]
  /\ UNCHANGED <<memory, stopper, durable, expired, synced>>

ClearWithoutSync(r) ==
  /\ starter[r] = "removed"
  /\ starter' = [starter EXCEPT ![r] = "cleared"]
  /\ synced' = synced \cup {r}
  /\ UNCHANGED <<memory, stopper, disk, expired, inherited, since>>

\* ... and syncs the directory, before the slot is looked at.
StartSyncsClear(r) ==
  /\ starter[r] = "removed"
  /\ starter' = [starter EXCEPT ![r] = "cleared"]
  /\ durable' = receipt
  /\ synced' = synced \cup {r}
  /\ UNCHANGED <<memory, stopper, receipt, expired, inherited, since>>

\* The sync failed: the start is given up, the file stays removed.
StartSyncFails(r) ==
  /\ starter[r] = "removed"
  /\ starter' = [starter EXCEPT ![r] = "over"]
  /\ UNCHANGED <<memory, stopper, disk, expired, history>>

StartReserves(r) ==
  /\ starter[r] = "cleared"
  /\ ~Occupied
  /\ starter' = [starter EXCEPT ![r] = "reserved"]
  /\ entry' = r
  /\ status' = [status EXCEPT ![r] = "starting"]
  /\ UNCHANGED <<cleaning, exited, stopper, disk, expired, history>>

\* ErrAlreadyRunning: the receipt has been removed all the same.
StartRefused(r) ==
  /\ starter[r] = "cleared"
  /\ Occupied
  /\ starter' = [starter EXCEPT ![r] = "over"]
  /\ UNCHANGED <<memory, stopper, disk, expired, history>>

StartFails(r) ==
  /\ starter[r] = "reserved"
  /\ starter' = [starter EXCEPT ![r] = "over"]
  /\ entry' = NoRun
  /\ UNCHANGED <<status, cleaning, exited, stopper, disk, expired, history>>

StartRuns(r) ==
  /\ starter[r] = "reserved"
  /\ starter' = [starter EXCEPT ![r] = "started"]
  /\ status' = [status EXCEPT ![r] = "running"]
  /\ UNCHANGED <<entry, cleaning, exited, stopper, disk, expired, history>>

-----------------------------------------------------------------------------
(* The end of a run: Manager.wait and packageArchive.                      *)

ChildExits(r, failed) ==
  /\ status[r] \in {"running", "stopping"}
  /\ status' = [status EXCEPT ![r] =
       IF failed /\ @ = "running" THEN "failed" ELSE "packaging"]
  /\ cleaning' = [cleaning EXCEPT ![r] = TRUE]
  /\ exited' = [exited EXCEPT ![r] = TRUE]
  /\ UNCHANGED <<entry, starter, stopper, disk, expired, history>>

CleaningEnds(r) ==
  /\ cleaning[r]
  /\ cleaning' = [cleaning EXCEPT ![r] = FALSE]
  /\ UNCHANGED <<entry, status, exited, starter, stopper, disk, expired, history>>

PackagingEnds(r) ==
  /\ status[r] = "packaging" /\ ~cleaning[r]
  /\ \E st \in {"completed", "package_failed"} : status' = [status EXCEPT ![r] = st]
  /\ UNCHANGED <<entry, cleaning, exited, starter, stopper, disk, expired, history>>

-----------------------------------------------------------------------------
(* Stopping.                                                               *)

StopBegins(r) ==
  /\ entry = r /\ status[r] = "running"
  /\ status' = [status EXCEPT ![r] = "stopping"]
  /\ stopper' = [stopper EXCEPT ![r] = "waiting"]
  /\ since' = [since EXCEPT ![r] = {q \in Run \ {r} : Starting(q)}]
  /\ UNCHANGED <<entry, cleaning, exited, starter, disk, expired, inherited, synced>>

ReceiptWithoutExit(r) == TRUE

\* "A durable stop receipt must only be written after the process wait has
\* observed exit."
MayWriteReceipt(r) == exited[r]

StopWritesReceipt(r) ==
  /\ stopper[r] = "waiting"
  /\ MayWriteReceipt(r)
  /\ stopper' = [stopper EXCEPT ![r] = "written"]
  /\ receipt' = r
  /\ UNCHANGED <<memory, starter, durable, expired, history>>

AnswerWithoutSync(r) ==
  /\ stopper[r] = "written"
  /\ stopper' = [stopper EXCEPT ![r] = "answered"]
  /\ UNCHANGED <<memory, starter, disk, expired, history>>

\* The directory is synced and the request answered 202.
StopAnswered(r) ==
  /\ stopper[r] = "written"
  /\ stopper' = [stopper EXCEPT ![r] = "answered"]
  /\ durable' = receipt
  /\ UNCHANGED <<memory, starter, receipt, expired, history>>

\* The child did not go, or the receipt could not be written or synced: 500.
StopFails(r) ==
  /\ stopper[r] \in {"waiting", "written"}
  /\ stopper' = [stopper EXCEPT ![r] = "over"]
  /\ UNCHANGED <<memory, starter, disk, expired, history>>

\* More than the TTL passes: every receipt written so far is too old.
ReceiptExpires ==
  /\ receipt # NoRun
  /\ expired' = expired \cup ({receipt, durable} \ {NoRun})
                       \cup {r \in Run : stopper[r] \in {"written", "answered"}}
  /\ UNCHANGED <<memory, starter, stopper, disk, history>>

\* The machine goes down and the service starts again: the children and what
\* the manager knew are gone, requests in flight are never answered, and an
\* unsynced directory may have kept either state.
Crash ==
  /\ entry' = NoRun
  /\ status' = [r \in Run |-> "none"]
  /\ cleaning' = [r \in Run |-> FALSE] /\ exited' = [r \in Run |-> FALSE]
  /\ starter' = [r \in Run |-> IF starter[r] \in {"idle", "started"} THEN starter[r] ELSE "over"]
  /\ stopper' = [r \in Run |-> IF stopper[r] \in {"waiting", "written"} THEN "over" ELSE stopper[r]]
  /\ \E d \in {receipt, durable} : receipt' = d /\ durable' = d
  /\ UNCHANGED <<expired, history>>

Next ==
  \/ \E r \in Run :
       \/ StartRemovesReceipt(r) \/ StartSyncsClear(r) \/ StartSyncFails(r)
       \/ StartReserves(r) \/ StartRefused(r) \/ StartFails(r) \/ StartRuns(r)
       \/ (\E f \in BOOLEAN : ChildExits(r, f)) \/ CleaningEnds(r) \/ PackagingEnds(r)
       \/ StopBegins(r) \/ StopWritesReceipt(r) \/ StopAnswered(r) \/ StopFails(r)
  \/ ReceiptExpires \/ Crash

Spec == Init /\ [][Next]_vars

-----------------------------------------------------------------------------
\* What Stop answers to a request that arrives now.
StopAnswer ==
  CASE entry = NoRun ->
         IF receipt # NoRun /\ receipt \notin expired THEN "already stopped" ELSE "not running"
    [] entry # NoRun /\ status[entry] = "running" -> "stops"
    [] entry # NoRun /\ status[entry] \in
         {"stopping", "packaging", "failed", "package_failed"} -> "already stopped"
    [] entry # NoRun /\ status[entry] = "starting" -> "starting"
    [] OTHER -> "not running"

\* A stop that was answered is answered "already stopped" again, by the process
\* that took it and by its successor after a crash, until the receipt expires or
\* the stream is started again (process_lifecycle_test.go:389 and 407).  Once
\* packaging has completed, Stop answers from a status it does not list instead.
AnsweredStopIsRemembered ==
  \A r \in Run :
    (stopper[r] = "answered" /\ since[r] = {} /\ r \notin expired) =>
      \/ StopAnswer = "already stopped"
      \/ entry = r /\ status[r] = "completed"

\* "A durable stop receipt must only be written after the process wait has
\* observed exit" (process_lifecycle.go:136-137): a receipt, on disk or coming
\* back after a power loss, never answers for a run whose child is still there.
ReceiptMeansExit ==
  \A r \in {receipt, durable} \ {NoRun} : status[r] \notin {"starting", "running", "stopping"}

\* "Sync the directory so a power loss cannot resurrect a stale receipt after
\* Start" (stop_receipt.go:180-181): a receipt whose removal a start has synced
\* is gone for good, whatever other starts and stops, failures and power losses
\* follow.
SyncedRemovalIsFinal ==
  \A r \in synced : inherited[r] \cap {receipt, durable} = {}

\* "A reused stream ID must never inherit an old stop receipt" (manager.go:163):
\* while a run is in the slot and was not told to stop, no receipt answers for it.
\* Not so when a stop is slow: no run checks it, the README tells why.
RunHasNoOldReceipt ==
  \A r \in Run :
    (entry = r /\ status[r] = "running") => receipt \in {NoRun, r} \cup expired
=============================================================================
