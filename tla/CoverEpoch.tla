------------------------------ MODULE CoverEpoch ------------------------------
(***************************************************************************)
(* The visual epochs of one stream: the pair (job generation, generation)  *)
(* that fences every later change of the video cover, and the record that  *)
(* makes it durable (internal/streamproc/cover_generation.go).             *)
(*                                                                         *)
(* A start for job generation j gets the epoch <<j, g>>.  The record of    *)
(* the stream is replaced by rename and made durable by syncing its        *)
(* directory, so between the two a power loss may keep either version.     *)
(* Start attempts of one stream do not overlap (ProcessSlot), and          *)
(* nextCoverGeneration holds Manager.mu across its file operations; only a *)
(* crash comes between its steps.                                          *)
(***************************************************************************)
EXTENDS Naturals, FiniteSets

CONSTANTS
  MaxJob,        \* job generations that occur: 1..MaxJob
  MaxGeneration, \* bound on the epochs of one job generation
  LegacyInOrder  \* does the control panel give legacy starts a job generation
                 \* that is never below that of an earlier start?

ASSUME EpochAssumption ==
  /\ MaxJob \in Nat \ {0}
  /\ MaxGeneration \in Nat \ {0}
  /\ LegacyInOrder \in BOOLEAN

Job == 1 .. MaxJob
NoEpoch == <<0, 0>>
Epochs == {NoEpoch} \cup (Job \X (1 .. MaxGeneration))

VARIABLES
  record,   \* the record as the file system shows it
  durable,  \* the record that a power loss leaves
  memory,   \* Manager.coverGenerations
  start,    \* the start in progress: its phase, its kind, its job, its epoch
  issued,   \* history: the epochs handed to a start
  asked     \* history: the highest job generation of any start

vars == <<record, durable, memory, start, issued, asked>>

Idle == [phase |-> "idle", managed |-> FALSE, job |-> 0, epoch |-> NoEpoch]

TypeOK ==
  /\ record \in Epochs /\ durable \in Epochs /\ memory \in Epochs
  /\ start \in [phase : {"idle", "begun", "renamed"}, managed : BOOLEAN,
                job : 0 .. MaxJob, epoch : Epochs]
  /\ issued \subseteq Epochs
  /\ asked \in 0 .. MaxJob

Init ==
  /\ record = NoEpoch /\ durable = NoEpoch /\ memory = NoEpoch
  /\ start = Idle
  /\ issued = {}
  /\ asked = 0

-----------------------------------------------------------------------------
Begin(j, managed) ==
  /\ start = Idle
  /\ start' = [phase |-> "begun", managed |-> managed, job |-> j, epoch |-> NoEpoch]
  /\ asked' = IF j > asked THEN j ELSE asked
  /\ UNCHANGED <<record, durable, memory, issued>>

\* A managed start must bring a job generation above that of the record.
Fenced(j) == record[1] < j

BeginManaged(j) == Fenced(j) /\ Begin(j, TRUE)

\* A legacy start that carries a video_cover_start is not compared with it.
BeginLegacy(j) == (LegacyInOrder => asked <= j) /\ Begin(j, FALSE)

\* The start failed before it asked for its epoch.
StartFails ==
  /\ start.phase = "begun"
  /\ start' = Idle
  /\ UNCHANGED <<record, durable, memory, issued, asked>>

Previous(j) ==
  IF memory[2] > record[2] /\ memory[1] = j THEN memory ELSE record

NextEpochIgnoringRecord(j) ==
  IF memory[1] = j THEN <<j, memory[2] + 1>> ELSE <<j, 1>>

NextEpoch(j) ==
  IF Previous(j)[1] = j THEN <<j, Previous(j)[2] + 1>> ELSE <<j, 1>>

\* writeCoverGeneration, up to and including the rename.
RecordRenamed ==
  /\ start.phase = "begun"
  /\ LET e == NextEpoch(start.job) IN
       /\ e[2] <= MaxGeneration
       /\ record' = e
       /\ start' = [start EXCEPT !.phase = "renamed", !.epoch = e]
  /\ UNCHANGED <<durable, memory, issued, asked>>

\* The directory is synced: the epoch goes to the start.
EpochIssued ==
  /\ start.phase = "renamed"
  /\ durable' = record
  /\ memory' = start.epoch
  /\ issued' = issued \cup {start.epoch}
  /\ start' = Idle
  /\ UNCHANGED <<record, asked>>

\* The sync failed: the start is refused, the renamed record stays.
SyncFails ==
  /\ start.phase = "renamed"
  /\ start' = Idle
  /\ UNCHANGED <<record, durable, memory, issued, asked>>

\* The service, and perhaps the machine, goes down: what was not synced may
\* or may not have reached the disk.
Crash ==
  /\ \E r \in {record, durable} : record' = r /\ durable' = r
  /\ memory' = NoEpoch
  /\ start' = Idle
  /\ UNCHANGED <<issued, asked>>

Next ==
  \/ \E j \in Job : BeginManaged(j) \/ BeginLegacy(j)
  \/ StartFails \/ RecordRenamed \/ EpochIssued \/ SyncFails \/ Crash

Spec == Init /\ [][Next]_vars

-----------------------------------------------------------------------------
Before(e, f) == e[1] < f[1] \/ (e[1] = f[1] /\ e[2] < f[2])

\* "A lost receipt/restart cannot permit reuse of an already issued visual
\* epoch" (start_preparation.go:85): an epoch is never handed out twice, and each
\* one is later than all before it, across failed starts, crashes and restarts,
\* so a cover change fenced by an epoch can only reach the start that got it.
EpochsIncrease ==
  [][issued' # issued \/ EpochIssued =>
       \A e \in issued : Before(e, start.epoch)]_vars

\* After a crash at any point the disk knows every epoch that was handed out,
\* so the next start of that job continues behind it (cover_generation.go).
IssuedIsRemembered ==
  \A e \in issued : e = durable \/ Before(e, durable)
=============================================================================
