# A TLA+ model of the Autostream encoder-recorder

The encoder-recorder runs one live FFmpeg pipeline for a control panel: it
prepares and commits a start, feeds images (a Cover and a Watermark) into the
running graph, ingests video and audio from workers, stops, packages the
recording and uploads it. What is hard about it is not any single handler but
that HTTP handlers, timers, waiter goroutines, the FFmpeg child and crashes
interleave around a few mutexes and a few files. These modules model that core,
TLC checks it on small instances, and TLAPS proves the parts that matter most
for any number of streams, starts, stops, callers, epochs, events and files.

All paths below are relative to `src/`; `streamproc` is `internal/streamproc`.

## Inventory of the system

| Component | State it keeps | Operations | Interacts with | What must be right |
|---|---|---|---|---|
| `streamproc`: start, preparation, commit, abort, wait, packaging hand-off | `Manager.processes` (stream -> tracked process), `Manager.preparations`, the phase, status and `cleaning` flags, the child | legacy start, begin / prepare / commit / abort / expire, stop, stop-all, the goroutine `wait`, `packageArchive` | FFmpeg, the feeds, the bridges (cleanup hook), stop receipts, the packager | one owner of the video slot; no child without an owner; a slot given back leaves nothing running; what began resolves |
| `streamproc`: stop receipts | one JSON file per stream | written by Stop, removed by Start, read by Stop | directory entries and their sync, crashes | an answered stop stays answered; no receipt for a child that is there |
| `streamproc`: cover generations | one JSON file per stream, a map in memory | fence of a managed start, next epoch | crashes, failed syncs | a visual epoch is never reused |
| `streamproc`: cover apply and runtime settings | cover state, watermark state, replay cache, three mutexes | `ApplyVideoCover`, `UpdateRuntimeSettings`, the scrub in `wait` | asset loader, feeds, the graph's progress file | what is called applied is shown; nothing is resent; no deadlock |
| `imagefeed`, `watermarkfeed` | current frame and version, the delivered version, a listener, a connection | update, wait, serve, close | FFmpeg's TCP input | no lost wakeup, no double close, Close returns |
| `videoingest` | the one bridge, SRT and loopback listeners | start, stop, stop-owned, mark-stop | `httpapi`, the cleanup hook | one bridge; a stop never detaches a successor |
| `audioingest` | bridges, seen packets, bounded queues, RTP counters | ingest, mix loop, start, stop | worker requests, FFmpeg | bounded latency, no packet twice, 16-bit sequence arithmetic |
| `workerevents` | seen keys, latest generation, log and caption files | ingest, recent | worker requests | a retry neither loses nor doubles an event |
| `lifecycle`, `archive` | final files, metadata, package locks, Drive folders and files | package, upload with retry, retention, migration | the file system, Google Drive | no recording is lost by a crash, a retry or retention |
| archive v2 migration | legacy files, run directories, a backup with its manifest | prepare, apply, verify, restore | the file system, other commands | no file is lost or overwritten; an interrupted migration goes on |
| `control`, `cmd` | node configuration in two files, the identity latch, heartbeats | configure, register, heartbeat, shutdown | control panel, operator | one process is one node |
| `httpapi` | none of its own | the handlers | all managers | handlers combine managers in a safe order |
| `ffmpeg`, `outputrelay`, `redaction`, `secrets`, `ingesttoken`, `videocover`, `observability`, `version` | none or a cache | conversions and checks | - | pure |

`PROJECT.json` lists every component with its files and its status, and the
hazards of the code with the line where each one bites.

## The modules

| Module | Models | Role |
|---|---|---|
| `SlotLease` | what is promised about the video slot | abstract specification |
| `ProcessSlot` | `streamproc` manager: start, preparation, commit, abort, expiry, stop, wait, packaging | implements `SlotLease` |
| `ProcessSlot_proofs` | - | theorems about `ProcessSlot` |
| `MCProcessSlot` | - | which start is for which stream, for TLC |
| `CoverEpoch` | `cover_generation.go` and the fence in `BeginStartPreparation` | its own TLC module |
| `CoverEpoch_proofs` | - | theorems about `CoverEpoch` |
| `StopReceipt`, `MCStopReceipt` | `stop_receipt.go` with `Stop` and the start that clears a receipt | |
| `StopReceipt_proofs` | - | theorems about `StopReceipt` |
| `CoverApply`, `MCCoverApply` | `cover_apply.go`, `cover_state.go`, `cover_witness.go`, `runtime_settings.go` and the end of `wait` | |
| `CoverApply_proofs` | - | theorems about `CoverApply` and, as its instance `Feed`, about `ImageFeed` |
| `FeedPromise`, `AudioPromise`, `ArchivePromise` | what the callers of a feed, the listeners of a stream and the owner of an archive may rely on | state and safety properties that `ImageFeed`, `AudioIngest` and `ArchivePackage` extend, and their proofs speak about |
| `ImageFeed`, `MCImageFeed` | `internal/imagefeed/source.go` | |
| `Bridges`, `MCBridges` | `internal/videoingest`, the map of `internal/audioingest`, and the start, preparation, abort and stop handlers around them | composes the two managers with the slot |
| `Bridges_proofs` | - | theorems about `Bridges` and, as its instance `Audio`, about `AudioIngest` |
| `AudioIngest`, `MCAudioIngest` | `internal/audioingest/manager.go` | |
| `WorkerEvents`, `MCWorkerEvents` | `internal/workerevents/manager.go` and its route | |
| `WorkerEvents_proofs` | - | theorems about `WorkerEvents` |
| `ArchivePackage`, `MCArchivePackage` | `internal/lifecycle`, the upload of `internal/archive`, the archive routes | |
| `ArchiveMigration`, `MCArchiveMigration` | `internal/archive/v2migration` | |
| `ArchiveMigration_proofs` | - | theorems about `ArchiveMigration` and, as its instance `Pack`, about `ArchivePackage` |
| `NodeIdentity`, `MCNodeIdentity` | `cmd/encoder-recorder/main.go`, node configuration of `internal/control`, the updater identity latch, the node checks of preparations | |
| `NodeIdentity_proofs` | - | theorems about `NodeIdentity` |

The modules share a boundary rather than variables. `ProcessSlot` shows that the
starts of one stream do not overlap, which is what `CoverEpoch` takes for
granted; `StopReceipt` repeats the slot rules for one stream because a receipt
relates them to a file; `CoverApply` sees a feed as "the frame was delivered",
which `ImageFeed` refines; `ProcessSlot` sees the closing of the feeds as one
cleanup that ends, which is `CloseEnds` of `ImageFeed`. `Bridges` has one
stream and keeps of its slot the owner, the status, `cleaning` and the goroutine that
waits for each child, with what that goroutine closes before it gives the slot
back; what happens between two streams, to the child itself and in packaging is
left to `ProcessSlot`. `ArchivePackage` begins where
the hand-off of `ProcessSlot` ends.

### ProcessSlot

An *attempt* is one request to start a stream, and it names the
`trackedProcess` object it creates: `slot[s] = a` is `Manager.processes[s]`
pointing to the object of `a`. One action is a stretch of code between two
points where `Manager.mu` is released or a goroutine blocks. The goroutines an
attempt can have are places in variables: `owner` (the handler that calls
`startProcess`), `wait`, `abort` (the one `abortPreparation` past
`abortStarted`), `decider` (the commit or the expiry timer that took
"prepared"), `cleanup`. `prepareDone`, `exited` and `cleanupDone` are the places
at which those goroutines have passed the point that closes the channel.

A request that the code refuses changes nothing and has no action. Errors of
`Terminate` and `Kill` are left to `StopReceipt` (`StopFails`). `wait` also has a
branch for a child whose slot was taken over (process_lifecycle.go:205-212);
`LiveChildHoldsSlot` shows that it is not needed.

Three constants are assumptions about the environment; the theorems name the
ones they rest on:

* `EagerCommits`: may a commit come before its prepare was answered?
* `LateAborts`: may an abort come after its commit took effect? (The control
  panel, or `StopAll` at shutdown with a list that has become stale.) With it
  `SlotExclusive` fails, see below.
* `AbortsMayTimeOut`: may an abort run out of its five seconds?

### CoverEpoch, StopReceipt

Both model a file replaced by rename (or removed) in a directory that is synced
afterwards: one variable is what the file system shows, one what a power loss
leaves, and `Crash` picks either. `nextCoverGeneration` holds `Manager.mu`, so
only a crash comes between its steps. In `StopReceipt` several starts and stops
of one stream overlap, as they do in the code, which takes no lock around the
file. History variables (`issued`, `inherited`, `synced`, `since`) record what
properties speak about and influence nothing.

### CoverApply

The three mutexes are variables, and each caller's place says which of them it
holds. `ApplyVideoCover` takes `coverMu` while it holds `Manager.mu` and keeps
it to the end; `wait` takes `coverMu` twice under `Manager.mu`;
`UpdateRuntimeSettings` takes `runtimeMu`, then `coverMu`, then, after giving that
back, `Manager.mu`. The graph takes the frame in a feed whenever it gets to it,
also after its witness gave up. A witness that succeeds is taken to mean that
the frame is shown: the code's evidence is a complete socket write followed by
output progress (cover_witness.go:89-107), and that FFmpeg's graph has then used
the frame is an assumption about FFmpeg. The status "stopping" is not modelled
here: it only makes a request answer earlier. Revisions stand for the frames,
and one flag stands for the two generations that fence a request.

### ImageFeed

`deliveredCh` is a number: which of the channels created so far is the current
one. `closedOnce` collects the closed ones, and closing one of them again sets
`panicked`. The accept queue of the listener is part of the connection's state,
since a connection can be reset before it is accepted.

A write to a peer that has just closed its end fails at once in the model; a socket may
take one such write before it fails.

### Bridges

A start names its bridges, as it names its tracked process in `ProcessSlot`. The
maps of the two managers hold a start, `closing` the video bridges that
`stopBridge` has taken out and not yet closed. A handler is a place per step of
the code that another handler can see: opening the video bridge, the audio
bridge, setting the cleanup, `PrepareStart`; in a stop the look at the status,
`Stop`, its wait, and the two closings by id. A direct start with worker video
does not exist: the route refuses it (stream_routes.go:124-128).

The end of a run is `wait`, the goroutine of each child. It sets the status and
`cleaning` when the child has ended; a stop that waits is answered from then on.
For a preparation it starts the cleanup function (`cleaner`), which closes the
bridges of this start and of no other, and gives the slot back after it; an abort may
have started the cleanup before. For a direct run it runs the `ProcessExitHook`,
which closes the audio bridge, then the video bridge, *by the id of the stream*, and then
gives the slot back. A direct start opens its audio bridge before it looks at the
slot, so the hook may close the bridge of a successor: `hasty` is the set of direct
starts that opened theirs while the hook of an earlier direct run was still to come
(`HookToCome`). `RunHasItsBridges` does not speak of them, since the code does take their
bridge away (see the findings).

`Patient` says that the control panel waits for its answers before the next
start, and before the stop of a direct start; without it `RunHasItsBridges` fails
in other ways. An abort of a run that is still to be packaged is left out here: what
`packageArchive` then does to the slot is `LateAborts` of `ProcessSlot`. The reader and
the pump of a video bridge exchange numbered frames through a channel of one
place; the frames go with the goroutine, and in the model one publisher at a time
sends frames (`FrameRead`), since two channels have nothing in common.

### AudioIngest

A packet is a speaker and the place in what the speaker said; the code sees that
place modulo `Modulus`, which is 2^16 in the code and 8 in the run, with the
half-range comparison scaled along. `Window` is an assumption about the worker
(`Sendable`): no packet is `Window` behind the newest of its speaker, and none is more
than `Window` ahead of what a bridge still holds of its speaker, with `Window` below
half the numbers. The code cannot do without it: 16 bits do not tell a packet that
is 40,000 late from one that is 25,536 ahead. A queue that loses
packets from its middle is written as the set of sequences that keep the other places
in their order (`Left`, of one element), since what it computes can then be proved
about. An
`Add` holds the mutex from its first to its last step and hands packets to the
intake one by one, dropping the oldest when it is full, while the goroutine of
the bridge takes from the other end. Decoded audio is counted in samples: a
packet has between one and `PacketSamples` of them, so a part of a frame can be left
when a gap is concealed and the next packet decoded, as in the loop of
`nextSpeakerFrame`; a frame of 20 ms has `Frame` samples, 2 in the run and 960 in the
code. The counters of `Status` also count what is no packet: a decoder reset that
fails after an error and each concealment that does not decode. `extra` is the
number of those, and `Accounted` has it on the side of the packets that came.

### WorkerEvents

One call of `Add` is a step per file it writes, each of which may fail, and the
process may die after any of them. `posted` holds requests that passed the
route's check and wait for the mutex, so a request of one run can be handled in
the next. `forgotten` counts how often a key was trimmed from the seen set or
lost with the process: that is the code's own limit on deduplication.

### ArchivePackage

`recording` is `tmp/<stream>/final.mkv`, which belongs to the stream, and `final`
the directory of a run. A video is the run it was recorded by, whether it was
finished and whether it came from the preview. An upload walks down the folders
with one find-or-create per level and is repeated as a whole when a call fails;
a failed call may have taken effect. The Drive finds what was created: that it
does so at once is an assumption. Retention looks at the directories of all
streams one by one, after its own call, without the locks of the others.
`CurrentOnly` says that a run is packaged before the next one of its stream is
started; without it `PackagingNeverLoses` fails.

### ArchiveMigration

A file at a source or a destination is absent, whole, a part or something else,
and a digest compares with "whole". Each command is a step per look, copy and
rename; an apply that fails rolls back step by step and may be killed then too.
Two commands may run at once (`overlap` remembers it), files may be deleted, and
a destination may be taken before the migration comes. Files of others are there
from the beginning or not at all: one that appears between the look at a destination
and the rename (migration.go:286-297), which the code would replace, is not modelled.

### NodeIdentity

`file` is `config.yml`, `listener` the revision in the listener credential. A
read of the configuration is two steps, one per file, and the latch's look for
the file a third. A configuration is its place in `Issued`; the order of `Issued`
says that a node that was replaced does not come back. `Careful` says that
`config.yml` is not removed while the service starts, `Required` is
`requireControlPanelRuntimeConfig`. Tokens are left out: they decide whether the
control panel answers. What a single handler asks under the configuration of the
moment (`/status`, a direct start, an artifact report of a request) is outside
`OneIdentity`.

## The runs

| Run | Instance | Distinct states | Shows |
|---|---|---|---|
| `Slot` | 2 managed and 1 legacy start, 2 streams, aborts may time out | 754,324 | safety of the slot, refinement of `SlotLease` |
| `SlotLive` | 2 managed starts of one stream, aborts in time | 47,629 | what began resolves; what ended or was stopped releases |
| `CoverEpoch` | 3 job generations, 3 epochs each | 9,103 | epochs increase across crashes |
| `Receipt` | 3 starts and stops of a stream, symmetric | 136,732 | receipts across crashes and failures |
| `Cover` | 2 applies, 1 settings update, 2 keys, 2 revisions, 1 watermark frame, cache of 1 | 155,132 | witnesses, ambiguity, locks |
| `Feed` | 2 callers, 2 connections, 2 versions | 138,010 | delivery, wakeups, Close |
| `Archive` | 3 runs of 2 streams, 2 calls that overlap, 1 crash, 2 artifact requests, 2 attempts per upload | 1,716,656 | completed means uploaded, no duplicates, nothing lost |
| `Migration` | 3 files, 2 commands, 2 kills, 1 deletion | 334,976 | files are recoverable, foreign files kept, interrupted commands resume |
| `Audio` | a speaker with 3 packets around the wrap and a second speaker, 2 bridges, 3 calls, 1 failure, frames of 2 samples and packets of 1 to 3 | 5,751,610 | accounting, order, backlog |
| `Events` | 4 events of 2 generations, 6 requests, 2 runs, 1 failed write, 1 crash | 409,197 | order of generations, captions once |
| `Bridges` | 2 preparations, 2 direct starts, 1 stop, 2 frames, symmetric | 5,333,095 | a run keeps its bridges, no orphan, newest frame |
| `Identity` | 3 configurations of 2 nodes, 2 starts, 1 version request, 1 preparation, 1 edit by hand | 324,639 | one node per process, one node per committed start |

Why the bounds are enough. Two managed starts and one legacy start give every
pair of kinds on the same and on different streams, which is what the slot rules
compare; a third start of a kind adds nothing they look at. Two epochs of one
job are needed for reuse and a third for an order; three jobs make room for a
start that fails between two others. Three receipts overlap in all the ways two
starts and one stop can. `Cover` has two callers that contend for `coverMu`
while a third party contends for both of its locks, a replay cache that
overflows after one entry, and a revision that can be asked for again after its
answer was evicted. `Feed` has an update during a write and a reconnect.
`Archive` has a stream that uploads and one whose retention meets it, two runs of
one stream that share `tmp`, and an upload whose first attempt loses its answer
at any level. `Migration` needs one file that was moved, one that is being moved
and one that was not come to. `Audio` has a packet before the wrap, one at it and
one behind a gap, an intake and a speaker queue that overflow, one tracked
speaker of two, and packets shorter and longer than a frame, with one failure that
may be an append, a decoding with or without its reset, or a concealment. `Events` has a caption sent again under another event id and a
seen set that trims. `Bridges` has a predecessor and a successor of each kind
and a stop at every step between them; the finding about the exit hook needs two
direct starts and one stop, so a run with fewer would not have met it. `Identity` has a panel that changes under one
node and a node that changes.

Where deadlock is not checked the instance really stops: every attempt, run,
request or connection is used once, and Close ends the feed. `Cover` checks it, since its
callers come back for ever.

### Fairness

Goroutines are scheduled: every step of the service that waits for nobody is
taken in the end (weak fairness). Steps that wait for something outside are only
fair where the code bounds the wait: the prepare works under a 15 s context, the
commit under 10 s, a witness under 6 s, an asset load under 10 s, packaging under its
timeout, and the expiry timer fires after 30 s. A child that was told to end
ends (quit, then kill). Nothing is assumed of the control panel, of a caller
that could time out, of the consumer of a feed, or of a child that was left
alone. `CoverApply` needs strong fairness because a lock is given back and taken
again by others: a Go mutex hands itself to a waiter that has waited for a
millisecond, so a goroutine that keeps asking gets it. `SlotLive` assumes that
aborts finish within their five seconds; without it `EndedReleases` does not
hold (see the findings).

## What is proved

`ProcessSlot_proofs` proves, for any sets of streams and attempts and any
setting of the packager and of abort timeouts, type correctness without further
assumptions, and under `Orderly` (no eager commits, no late aborts):
`SlotExclusive`, `LiveChildHoldsSlot`, `ReleasedMeansReaped`,
`PackageTargetsOwnRun`, `EndedNeverRuns`, and that `ProcessSlot` implements
`SlotLease`.

The argument is one inductive invariant, `IInv`. `SlotExclusive` alone is not
inductive: that a managed start found the slot free says nothing later, unless
one knows that nobody else *becomes* an owner without looking. So `IInv` says for
each attempt where its goroutines can be together: while the handler starts it,
it is installed and "starting"; while its child lives it is installed and owns
the slot; `wait` in its closing phase has `cleaning` set, and on its way to
packaging has status "packaging"; an abort in flight has `cleaning` set and a
terminal phase; a decider has a preparation that was answered. A step of one
attempt leaves the invariant of the others alone (`Frame`), because a step
changes only its own attempt's places, and the only shared variable, `slot`, is
written by a reservation (which looked) or by the attempt that is in it. There
is one lemma per group of actions, and the properties follow from `IInv`. For
the refinement, `holders` is the set of attempts that hold the slot and
`released` those that began and do not hold it; a reservation maps to Acquire,
the steps that clear the last of `cleaning` and status to Release, and all others
to a stutter.

`CoverEpoch_proofs` proves under `LegacyInOrder`, for any number of jobs and
epochs, that what was issued is not after what is durable, and that is not after
what the file system shows (`EpochOrder`); from this, that issued epochs are
remembered and never reused.

`WorkerEvents_proofs` proves for any events and any number of requests, runs,
failures and crashes:

* `LogInOrder` (`GenerationsInOrder`), by `OrderInv`. The order of the log is not
  inductive: one has to know that the event being written is of the generation of
  the fence (`Fenced`), and that no line of the log is above the fence
  (`FenceHolds`). A crash forgets the fence, but then nothing can be logged before
  a start has rewritten the file, which is the other half of `FenceHolds`.
* `CaptionsWrittenOnce` (`CaptionOnce`), by `CaptionInv`: each cue, and the one a call
  is about to write, is paid for by a key that is remembered or was forgotten
  (`CuesPaid`), and each line of the transcript by a cue (`LinesPaid`).

`ArchiveMigration_proofs` proves for any set of files, any number of commands at
once and any number of kills:

* `NothingLost` (`Recoverable`), by `MigrationInv`: the files a prepare has passed
  are whole in the backup, and only commands whose plan is the manifest move files
  (`PlansKept`).
* `ForeignFilesKept` (`ForeignKept`), by `KeptInv`: an entry a plan marks as free had
  no foreign file (`PlanKnows`), and a command that moves files works on entries
  without one (`Claimed`): the preflight it passed stays true of them.
* `MigrationResumes` (`CanResume`), by `ResumeInv`: as long as commands run alone,
  nothing is deleted and the destinations were free, a file is at exactly one of
  its places (`OnePlace`), plans have free destinations (`PlansFree`), one command
  is under way (`Solo`), and restore never copies (`NoCopy`).

The same module proves of packaging and its uploads (`Pack == INSTANCE
ArchivePackage`), for any number of runs, calls, attempts, lost answers, failures and
crashes:

* `ObjectsNotDoubled` (`NoDuplicateObjects`), by `DriveInv`. A call looks for an object
  and creates it in another step, after which the answer may be lost. What it found
  stays true in between (`Looked`), because the calls that hold a lock are for
  different streams (`LocksHeld`) and each works below the folder of its own
  stream (`InPlace`). That folder is the exception: it is named after the stream,
  and a stream of the same name may create it meanwhile. `OnlySharedNamesDouble`
  needs no assumption and says that nothing else is ever doubled;
  `ObjectsNotDoubled` has the hypothesis `DistinctNames`, without which it is false.
* `CompletedStaysUploaded` (`CompletedIsUploaded`), by `PackageInv`, under
  `DistinctNames` and the assumption that uploads are of runs: a call uploads the
  video it made, unless a request touched the run (`OwnVideo`), and the metadata
  that has the id of that video (`OwnMetadata`), both in the folder it found
  (`Uploaded`). Afterwards only a new package of the run, which takes the report back
  (`NotDone`), writes to those objects (`KnownDone`).
* `RecordingsKept` (`PackagingNeverLoses`), by `KeepInv`, under `CurrentOnly`: the
  recording a call packages stays that of its run, since a start waits for the lock
  (`CurrentRecorded`), so a step that replaces or fails leaves that one; and the
  videos of other runs are in other directories and folders (`OwnFiles`,
  `OwnObjects`).

`StopReceipt_proofs` proves for any number of starts and stops of a stream, of failed
syncs and of power losses, by `ReceiptInv`:

* `StopsRemembered` (`AnsweredStopIsRemembered`). Neither the file nor what a power
  loss leaves of it need be the receipt of this stop: a later stop may have
  written its own over it. So the invariant says that *some* receipt that has not
  expired is there (`StillThere`), and that a start which could remove it counts as
  one since the stop from the moment it reserves the slot (`SinceStop`).
* `ReceiptsMeanExit` (`ReceiptMeansExit`): a stop is past its wait when it writes
  (`Places`), and nobody brings its run back.
* `RemovalsFinal` (`SyncedRemovalIsFinal`): every receipt that is on disk, has
  expired or was found by a start was written by a stop that does not write again
  (`WrittenOnce`), and between removal and sync it is not in the directory
  (`Removal`).

`CoverApply_proofs` proves for any number of callers, requests, revisions and
frames and a replay cache of any size, by `CoverInv`: `AppliedShown`
(`AppliedIsShown`), `WitnessCurrent` (`WitnessIsCurrent`), `LastGoodNewest`
(`LastGoodIsNewest`), `DeliveredOnce` (`NeverResent`) and `EndIsFinal`
(`EndedStaysTerminal`). None of them is inductive alone, because an apply looks at
the fence long before it publishes. `LocksHeld` says at which places `Manager.mu`
and `coverMu` are held and that nobody else is at one of them. `ApplierHolds`
concludes that what an apply has looked at is still so: the stream has not ended,
and its revision is above the desired one until it delivers. `FeedIsDesired`
ties the feed to the desired revision, so no earlier revision can be delivered,
`KnownApplied` ties the applied revision to the newest known one, to the witness
and, while nobody is witnessing, to what the graph shows; `WatermarkKnown` does the
same for the watermark.

The same module proves of one feed (`Feed == INSTANCE ImageFeed`), for any number of
callers, connections and updates, by `FeedInv`: `DeliveryExact` (`ExactDelivery`),
since what is marked as delivered was written (`FeedDelivery`), and `ClosedOnce`
(`ChannelsClosedOnce`), since the closed channels are those before the current one,
and that one after Close (`FeedChannels`). `WakeupsKept` is the safety half of
`NoLostWakeup`: a caller that may go on waits on a channel that is closed
(`FeedWaiters`); that it is scheduled then is left to TLC.

`Bridges_proofs` proves for any number of starts, stops and frames, by
`BridgesInv`:

* `NoBridgeLost` (`NoOrphanBridge`) whatever the control panel does: a bridge is
  opened once, and one that is being closed has left the map for good
  (`OpenedOnce`).
* `NewestNotDropped` (`NewestFrameKept`): a reader that is between two frames has left
  nothing but its newest in the channel (`ChannelHasNewest`).
* `RunsKeepBridges` (`RunHasItsBridges`) under `Patient`, for the starts outside
  `hasty`. `Places` says where the handler, the abort, the cleanup and the waiting
  goroutine of a start can be together. A start keeps the slot from its reservation
  until its child has ended, a direct start until its hook has run (`SlotKept`,
  `SlotTaken`). The cleanup of a preparation closes only its own bridges, and has not
  begun for one that is live (`CleanedAtEnd`). Three things close by stream id: a stop, which
  finds a slot that is stopping, ending or ended (`StopsFindNoRun`); a direct start that
  was refused, and no other request is under way then (`OneAtATime`); and
  the exit hook, which runs before the slot is given back and so can meet the bridge only of a
  direct start that is in `hasty`. So a direct start has its audio bridge from the step
  that opened it (`DirectHasAudio`), and the start in the slot each of its bridges
  (`LiveHasBridges`).

The same module proves of the bridges of an audio manager (`Audio == INSTANCE
AudioIngest`), for any packets, speakers, modulus and sizes of the queues, by
`AudioInv`:

* `BacklogKept` (`BacklogBounded`): only decoding adds to what a speaker has, and a
  speaker decodes when it has less than a frame of samples, so less than a frame, one
  concealed gap and one packet together is the most there is. In the code that is
  less than 1 + 5 + 6 frames of 20 ms.
* `HeardInOrder` (`PlayedInOrder`): every packet decoded comes after the one the speaker's
  decoder heard before, so a repeat in a row is excluded too. A decoder that was reset
  after an error, or evicted with its idle speaker, starts anew: what it hears first
  is compared with nothing. The decoder compares remainders, and the order of
  remainders is the order of the packets only while they are near each other. So
  the invariant says of any two packets a bridge holds of a speaker, in the hand-over,
  in its intake, in the queue or heard last, that they are at most `Window` apart (`Near`), and
  that the expected number is the one after the last (`Sequenced`); from this a
  packet that is not late is ahead (`DistanceAhead`). Taking, dropping and trimming
  only make the packets held fewer, and `Sendable` keeps new ones near.
* `BooksBalance` (`Accounted`): packets offered and `extra` on one side, what was decoded, left
  at a stop, counted or is waiting on the other. The equation cannot be inductive, since it says nothing
  while a stop has closed a bridge and not yet added its counters. `Balanced` is the
  equation with what every bridge *owes* for itself (what waits in it and its
  counters, unless they were folded), written as the cardinality of a set with one
  cell for each (`Owing`), because a sum over bridges is not a formula the provers know;
  `BridgeStages` says which bridge may still change. A step moves a packet from
  one term to one other: for a queue that is thinned out this is counting the places
  that stay, the late ones and the one that is heard (`PlacesSplit`). Once every stop
  has returned nobody but the live bridge owes (`OneOwes`).
* `NewestPacketKept`: after `enqueue` has dropped the oldest packet its second attempt
  finds room, since the mutex makes `Add` the only sender (`Room`). The last branch
  of `enqueue` is therefore never taken.

`NodeIdentity_proofs` proves for any list of configurations, any number of
requests, preparations and starts of the service, by `IdentityInv`:

* `OneIdentityKept` (`OneIdentity`) under `Careful`. Main reads `config.yml` for its
  address, for the latch, for the process manager and for the latch again. The
  latch knows its node from a configuration that was written
  (`LatchKnown`); when the last read gives the same node, what the manager read
  in between is of that node too, since a node that was replaced does not come
  back (`MainKnows`, with `InBetween`). `FileThere` says that the latch cannot be left
  open during a start, and `Quiet` that nothing is said before the match.
* `CommitsUnderOneNode` (`CommittedUnderOneNode`), without `Careful`: a preparation began
  under one configuration, fetched under later ones (`PreparedUnder`), and its
  commit reads one that is not older than those; if first and last agree, so do
  all between.

Only model-checked: liveness (`SlotLive`, `EndProcessed`, the leads-to properties
of `Feed`), which is out of the prover's reach. Every safety property of the runs is
stated by a theorem.
The type invariant of `ProcessSlot` and `IssuedIsRemembered` of `CoverEpoch` are
proved and not repeated in a run.

## Where the code and its words disagree

Each is listed under "findings" in `PROJECT.json` with its lines. In brackets is
what makes TLC show it.

* An abort accepted after the commit, while `wait` is closing, frees the slot, and
  packaging occupies it again beside a successor. [`SlotExclusive` alone in
  `Slot.cfg` with `LateAborts = TRUE`]
* An abort that comes while FFmpeg is being started and times out leaves a child
  nobody kills, although a comment says it must be reaped. [`NoStrandedChild`
  added to `Slot.cfg`]
* The same timeout during a slow cleanup, when no child was installed, leaves
  `cleaning` set for ever. [`SlotLive.cfg` with `AbortsMayTimeOut = TRUE`]
* A start that cleared the receipt before a concurrent stop wrote its own runs
  beside that receipt. [`RunHasNoOldReceipt` added to `Receipt.cfg`]
* A cover apply after an unobserved watermark delivery publishes a combined
  witness again. [`NoWitnessAfterUnobserved` added to `Cover.cfg`]
* A stop retried after packaging has completed is answered "not running".
* A failed sync of a receipt's removal is not repeated by the retried start.
* A legacy start with a lower job generation overwrites the epoch record.
* Packaging an earlier run after the next start of its stream overwrites its
  video. [`Archive.cfg` with `CurrentOnly = FALSE`]
* Packages of two streams of one name that run at the same time may make two
  folders for it in the Drive, and the files of one run may then go to both.
  [`Archive.cfg` with one `FolderName` and a run of each stream in `Uploads`]
* The guard of `StartBridge` does not cover a listener that is being closed.
* A slow stop closes the bridges of a successor by stream id; a stop between the
  audio bridge and the slot of a direct start closes the former.
  [`Bridges.cfg` with `Patient = FALSE`]
* The exit hook of a direct run that crashed closes the audio bridge of the next
  direct start by stream id, when a stop was answered "already stopped" in between: the
  start succeeds without its bridge, although the control panel waited for every
  answer. [`RunHasItsBridges` for all of `Start` instead of `Start \ hasty`]
* A stop that looked before the commit does not mark the bridge, whose end is then
  reported as a failure.
* A prepare that was interrupted blocks every later one; a restore killed while
  it copies from the backup blocks apply and restore.
* A packet, and an event, is remembered as seen before it is written: when the
  write fails the retry is answered as a duplicate.
* Captions and transcript of earlier runs are in the archives of later ones.
* Without `config.yml` the service ends at once, although the README says that it
  waits; the loop that would wait cannot be reached.
* A start whose `config.yml` is removed while it starts goes on without a latch, and
  may later tell the updater another node. [`Identity.cfg` with `Careful = FALSE`]

## Not modelled, and the plan

Not modelled at all: string conversions (FFmpeg arguments and progress,
redaction, PNG and URL handling), the validation of requests and tokens,
preflight, logging and metrics, the selection of a stream's settings from the
control panel's answer, the asset cache of `videocover`, the network protocols
below a request, Opus decoding and mixing, the installer and the release scripts.
They are pure functions, I/O, or programs an operator runs.

What is left would be new parts of the model rather than proofs about these: the
answers of the worker routes and the retries of the worker as a client of its own
(so that `Sendable` becomes a theorem about that client), and the list of running
streams that `StopAll` walks at a shutdown.
