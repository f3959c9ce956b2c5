--------------------------- MODULE ArchivePackage ---------------------------
(***************************************************************************)
(* Packaging of an archive run (internal/lifecycle, internal/archive and   *)
(* the archive routes of internal/httpapi).                                *)
(*                                                                         *)
(* Package remuxes tmp/<stream>/final.mkv into final/<stream>/<run>, then  *)
(* uploads the video, writes metadata.json with the ids it got, uploads    *)
(* metadata.json, writes it again, and removes expired run directories of  *)
(* every stream.  The tmp directory belongs to the stream and not to the   *)
(* run.  A call holds an in-memory lock of its stream; artifact requests   *)
(* and the retention of other streams do not look at it.                   *)
(*                                                                         *)
(* An upload is a sequence of find-or-create calls, repeated as a whole    *)
(* when one of them fails.  A failed call may have taken effect.  The      *)
(* service may die between any two steps: files and Drive stay.            *)
(***************************************************************************)
EXTENDS ArchivePromise, FiniteSets

CONSTANTS
  FolderName,   \* the Drive folder name of each stream
  Retains,      \* the runs whose job has retention_days > 0
  CurrentOnly,  \* is only the run recorded last packaged, and no other started meanwhile?
  MaxAttempts,  \* RetryPolicy.MaxAttempts
  MaxCalls,     \* bound on the calls
  MaxCrashes,   \* bound on the crashes
  MaxRequests   \* bound on the artifact requests that change a file

Stream == {StreamOf[r] : r \in Run}

ASSUME ArchiveAssumption ==
  /\ None \notin Run
  /\ Uploads \subseteq Run /\ Retains \subseteq Run
  /\ DOMAIN FolderName = Stream
  /\ CurrentOnly \in BOOLEAN
  /\ MaxTogether \in Nat \ {0}
  /\ MaxAttempts \in Nat \ {0} /\ {MaxCalls, MaxCrashes, MaxRequests} \subseteq Nat

VARIABLES
  started,    \* runs that have been started
  locks,      \* packageLocks.active
  job,        \* the run of each call
  up,         \* the upload a call is in
  got,        \* the ids it has got, by file
  renaming,   \* an artifact rename between its check and its move
  calls, crashes, requests,
  made,       \* history: the video a call has put in place
  touched     \* history: calls during which an artifact of their run was renamed

disk == <<recording, final>>
callVars == <<phase, job, up, got, todo>>
history == <<made, touched, done>>
vars == <<recording, started, final, drive, locks, callVars, renaming, calls, crashes, requests, history>>

\* A video is [run |-> the run recorded, whole |-> was it finished, partial |-> from the preview].
NoUpload == [file |-> None, level |-> 0, parent |-> 0, found |-> None, attempt |-> 0]
NoIds == [mp4 |-> None, metadata |-> None, folder |-> None]
NoDir == [exists |-> FALSE, old |-> FALSE, mp4 |-> None, temp |-> None, meta |-> None, extra |-> None]

Init ==
  /\ recording = [s \in Stream |-> None]
  /\ started = {}
  /\ final = [r \in Run |-> NoDir]
  /\ drive = <<>>
  /\ locks = {}
  /\ phase = [p \in Packager |-> "idle"]
  /\ job = [p \in Packager |-> None]
  /\ up = [p \in Packager |-> NoUpload]
  /\ got = [p \in Packager |-> NoIds]
  /\ todo = [p \in Packager |-> {}]
  /\ renaming = None
  /\ calls = 0 /\ crashes = 0 /\ requests = 0
  /\ made = [p \in Packager |-> None]
  /\ touched = {}
  /\ done = [r \in Run |-> None]

Working(r) == \E p \in Packager : job[p] = r /\ phase[p] # "idle"

\* A change in a run directory also makes it young, and creates it when it is missing.
Changed(r, f) == [final EXCEPT ![r] = [f EXCEPT !.exists = TRUE, !.old = FALSE]]

-----------------------------------------------------------------------------
(* The recorder, as packaging sees it: ProcessSlot has the details.        *)

\* A start of the stream lets FFmpeg overwrite the file of the run before it.  The slot is
\* owned while the wait goroutine packages, but not while the route does.
StartRun(r) ==
  /\ r \notin started
  /\ CurrentOnly => StreamOf[r] \notin locks
  /\ ~\E q \in started : StreamOf[q] = StreamOf[r] /\ recording[StreamOf[r]] = [run |-> q, whole |-> FALSE]
  /\ started' = started \cup {r}
  /\ recording' = [recording EXCEPT ![StreamOf[r]] = [run |-> r, whole |-> FALSE]]
  /\ UNCHANGED <<final, drive, locks, callVars, renaming, calls, crashes, requests, history>>

RunEnds(s) ==
  /\ recording[s] # None
  /\ ~recording[s].whole
  /\ recording' = [recording EXCEPT ![s].whole = TRUE]
  /\ UNCHANGED <<started, final, drive, locks, callVars, renaming, calls, crashes, requests, history>>

\* Time passes.  Retention periods are days and a call is shorter than that.
Expires(r) ==
  /\ final[r].exists /\ ~final[r].old
  /\ ~Working(r)
  /\ final' = [final EXCEPT ![r].old = TRUE]
  /\ UNCHANGED <<recording, started, drive, locks, callVars, renaming, calls, crashes, requests, history>>

-----------------------------------------------------------------------------
(* Package, up to the upload.                                              *)

\* A call may come from the wait goroutine of the run or from the route.
Requested(p, r) ==
  /\ phase[p] = "idle" /\ \A q \in 1..(p - 1) : phase[q] # "idle"
  /\ calls < MaxCalls
  /\ r \in started
  /\ CurrentOnly => recording[StreamOf[r]] = [run |-> r, whole |-> TRUE]
  /\ calls' = calls + 1

LockFree(r) == StreamOf[r] \notin locks

PackageBegins(p, r) ==
  /\ Requested(p, r)
  /\ LockFree(r)
  /\ locks' = locks \cup {StreamOf[r]}
  /\ phase' = [phase EXCEPT ![p] = "remux"]
  /\ job' = [job EXCEPT ![p] = r]
  /\ final' = Changed(r, final[r])
  /\ done' = [done EXCEPT ![r] = None]
  /\ UNCHANGED <<recording, started, drive, up, got, todo, renaming, crashes, requests, made, touched>>

\* Every return runs the deferred removal of the temporary file and of the lock.
Returned(p, f) ==
  /\ phase' = [phase EXCEPT ![p] = "idle"]
  /\ job' = [job EXCEPT ![p] = None]
  /\ up' = [up EXCEPT ![p] = NoUpload]
  /\ got' = [got EXCEPT ![p] = NoIds]
  /\ todo' = [todo EXCEPT ![p] = {}]
  /\ locks' = locks \ {StreamOf[job[p]]}
  /\ final' = [f EXCEPT ![job[p]].temp = None]
  /\ made' = [made EXCEPT ![p] = None]
  /\ touched' = touched \ {p}

\* Any step that touches files or the network may fail and end the call.
PackageFails(p) ==
  /\ phase[p] \in {"remux", "replace", "rename", "copy", "record", "recordAll", "retain", "expire"}
  /\ Returned(p, final)
  /\ UNCHANGED <<recording, started, drive, renaming, calls, crashes, requests, done>>

RemuxConsumesSource(p) ==
  /\ phase[p] = "remux" /\ final[job[p]].exists
  /\ final' = Changed(job[p], [final[job[p]] EXCEPT !.temp =
       [run |-> job[p], whole |-> TRUE, partial |-> FALSE]])
  /\ recording' = [recording EXCEPT ![StreamOf[job[p]]] = None]
  /\ phase' = [phase EXCEPT ![p] = "replace"]
  /\ UNCHANGED <<started, drive, locks, job, up, got, todo, renaming, calls, crashes, requests, history>>

\* FFmpeg reads the file that is in the tmp directory now, or the preview when it cannot.
RemuxEnds(p) ==
  /\ phase[p] = "remux"
  /\ final[job[p]].exists
  /\ \E fallback \in BOOLEAN :
       final' = Changed(job[p], [final[job[p]] EXCEPT !.temp =
                  [run |-> recording[StreamOf[job[p]]].run,
                   whole |-> recording[StreamOf[job[p]]].whole, partial |-> fallback]])
  /\ phase' = [phase EXCEPT ![p] = "replace"]
  /\ UNCHANGED <<recording, started, drive, locks, job, up, got, todo, renaming, calls, crashes, requests, history>>

\* replaceFileNoSymlink: the old file goes first.
OldVideoRemoved(p) ==
  /\ phase[p] = "replace"
  /\ final[job[p]].temp # None
  /\ final' = Changed(job[p], [final[job[p]] EXCEPT !.mp4 = None])
  /\ phase' = [phase EXCEPT ![p] = "rename"]
  /\ UNCHANGED <<recording, started, drive, locks, job, up, got, todo, renaming, calls, crashes, requests, history>>

NewVideoRenamed(p) ==
  /\ phase[p] = "rename"
  /\ final[job[p]].temp # None
  /\ final' = Changed(job[p], [final[job[p]] EXCEPT !.mp4 = final[job[p]].temp, !.temp = None])
  /\ made' = [made EXCEPT ![p] = final[job[p]].temp]
  /\ phase' = [phase EXCEPT ![p] = "copy"]
  /\ UNCHANGED <<recording, started, drive, locks, job, up, got, todo, renaming, calls, crashes, requests, touched, done>>

\* A job without destination has the dry run uploader: no level of the Drive to go through.
NextUpload(p, file) ==
  [NoUpload EXCEPT !.file = file, !.level = IF job[p] \in Uploads THEN 1 ELSE 0, !.attempt = 1]

\* Logs, captions and transcript are copied, and the files to upload are collected.
SidecarsCopied(p) ==
  /\ phase[p] = "copy"
  /\ final' = Changed(job[p], final[job[p]])
  /\ final[job[p]].mp4 # None
  /\ phase' = [phase EXCEPT ![p] = "upload"]
  /\ up' = [up EXCEPT ![p] = NextUpload(p, "mp4")]
  /\ UNCHANGED <<recording, started, drive, locks, job, got, todo, renaming, calls, crashes, requests, history>>

-----------------------------------------------------------------------------
(* RetryUploader around GoogleDriveAPIUploader.                            *)

\* The object an upload has to find or create at its level: the folder of the stream, the
\* folder of the run in it, the file in that.
Wanted(p) ==
  [name |-> CASE up[p].level = 1 -> FolderName[StreamOf[job[p]]]
              [] up[p].level = 2 -> job[p]
              [] OTHER -> up[p].file,
   parent |-> up[p].parent]

Matches(p) == {i \in 1..Len(drive) : [name |-> drive[i].name, parent |-> drive[i].parent] = Wanted(p)}

\* files.list with PageSize(1) answers any one of the matches.
DriveFinds(p) ==
  /\ phase[p] = "upload"
  /\ up[p].level > 0 /\ up[p].found = None
  /\ \E i \in IF Matches(p) = {} THEN {0} ELSE Matches(p) : up' = [up EXCEPT ![p].found = i]
  /\ UNCHANGED <<disk, started, drive, locks, phase, job, got, todo, renaming, calls, crashes, requests, history>>

Content(p) ==
  IF up[p].level < 3 THEN None
  ELSE IF up[p].file = "mp4" THEN final[job[p]].mp4 ELSE final[job[p]].meta

DriveAfterCreate(p) ==
  Append(drive, [name |-> Wanted(p).name, parent |-> up[p].parent, content |-> Content(p)])

\* What the Drive is after the create or update of the object that was looked for.
DriveAfterPut(p) ==
  IF up[p].found = 0
  THEN Append(drive, [name |-> Wanted(p).name, parent |-> up[p].parent, content |-> Content(p)])
  ELSE [drive EXCEPT ![up[p].found].content = Content(p)]

IdAfterPut(p) == IF up[p].found = 0 THEN Len(drive) + 1 ELSE up[p].found

\* uploadFile opens the local file before it asks the Drive.
FileReadable(p) == up[p].level = 3 => Content(p) # None

\* The answer is received: the next level, or the end of this upload.
DrivePuts(p) ==
  /\ phase[p] = "upload"
  /\ up[p].level > 0 /\ up[p].found # None
  /\ FileReadable(p)
  /\ drive' = DriveAfterPut(p)
  /\ IF up[p].level < 3
     THEN /\ up' = [up EXCEPT ![p].level = @ + 1, ![p].parent = IdAfterPut(p), ![p].found = None]
          /\ UNCHANGED <<phase, got>>
     ELSE /\ got' = [got EXCEPT ![p][up[p].file] = IdAfterPut(p),
                                ![p].folder = IF @ = None THEN up[p].parent ELSE @]
          /\ phase' = [phase EXCEPT ![p] = IF up[p].file = "mp4" THEN "record" ELSE "recordAll"]
          /\ up' = [up EXCEPT ![p] = NoUpload]
  /\ UNCHANGED <<disk, started, locks, job, todo, renaming, calls, crashes, requests, history>>

\* A call of the Drive fails, with or without effect: the whole upload starts again.
UploadRetried(p) ==
  /\ phase[p] = "upload"
  /\ up[p].level > 0
  /\ up[p].attempt < MaxAttempts
  /\ \/ drive' = drive
     \/ up[p].found # None /\ FileReadable(p) /\ drive' = DriveAfterPut(p)
  /\ up' = [up EXCEPT ![p] = [NextUpload(p, up[p].file) EXCEPT !.attempt = up[p].attempt + 1]]
  /\ UNCHANGED <<disk, started, locks, phase, job, got, todo, renaming, calls, crashes, requests, history>>

\* The last attempt fails, or the context ends.
UploadFails(p) ==
  /\ phase[p] = "upload"
  /\ \/ drive' = drive
     \/ up[p].found # None /\ FileReadable(p) /\ drive' = DriveAfterPut(p)
  /\ Returned(p, final)
  /\ UNCHANGED <<recording, started, renaming, calls, crashes, requests, done>>

DryRunUploads(p) ==
  /\ phase[p] = "upload"
  /\ up[p].level = 0
  /\ phase' = [phase EXCEPT ![p] = IF up[p].file = "mp4" THEN "record" ELSE "recordAll"]
  /\ up' = [up EXCEPT ![p] = NoUpload]
  /\ UNCHANGED <<disk, started, drive, locks, job, got, todo, renaming, calls, crashes, requests, history>>

-----------------------------------------------------------------------------
(* metadata.json, written before and after its own upload; retention.      *)

DescribedAsWhole(p) == [partial |-> FALSE, ids |-> got[p]]

Described(p) == [partial |-> made[p].partial, ids |-> got[p]]

\* writeJSON creates the directory again when it is gone.
MetadataRecorded(p) ==
  /\ phase[p] \in {"record", "recordAll"}
  /\ final' = Changed(job[p], [final[job[p]] EXCEPT !.meta = Described(p)])
  /\ IF phase[p] = "record"
     THEN /\ phase' = [phase EXCEPT ![p] = "upload"]
          /\ up' = [up EXCEPT ![p] = NextUpload(p, "metadata")]
          /\ UNCHANGED todo
     ELSE /\ phase' = [phase EXCEPT ![p] = "retain"]
          /\ todo' = [todo EXCEPT ![p] = IF job[p] \in Retains THEN Run \ {job[p]} ELSE {}]
          /\ UNCHANGED up
  /\ UNCHANGED <<recording, started, drive, locks, job, got, renaming, calls, crashes, requests, history>>

\* The age of a directory is looked at, and the directory removed in a later step.
DirectoryChecked(p) ==
  /\ phase[p] = "retain"
  /\ \E r \in todo[p] :
       IF final[r].exists /\ final[r].old
       THEN /\ phase' = [phase EXCEPT ![p] = "expire"]
            /\ todo' = [todo EXCEPT ![p] = {r}]
       ELSE /\ todo' = [todo EXCEPT ![p] = @ \ {r}]
            /\ UNCHANGED phase
  /\ UNCHANGED <<disk, started, drive, locks, job, up, got, renaming, calls, crashes, requests, history>>

DirectoryRemoved(p) ==
  /\ phase[p] = "expire"
  /\ final' = [r \in Run |-> IF r \in todo[p] THEN NoDir ELSE final[r]]
  /\ phase' = [phase EXCEPT ![p] = "retain"]
  /\ todo' = [todo EXCEPT ![p] = {}]
  /\ UNCHANGED <<recording, started, drive, locks, job, up, got, renaming, calls, crashes, requests, history>>

PackageCompletes(p) ==
  /\ phase[p] = "retain"
  /\ todo[p] = {}
  /\ done' = [done EXCEPT ![job[p]] =
       IF p \in touched THEN None ELSE [video |-> made[p], ids |-> got[p]]]
  /\ Returned(p, final)
  /\ UNCHANGED <<recording, started, drive, renaming, calls, crashes, requests>>

-----------------------------------------------------------------------------
(* Artifact requests: they take no lock.                                   *)

ArtifactRequest ==
  /\ requests < MaxRequests
  /\ requests' = requests + 1

Touch(r) == touched' = touched \cup {p \in Packager : job[p] = r}

DeleteArtifact(r) ==
  /\ ArtifactRequest
  /\ final[r].mp4 # None
  /\ final' = Changed(r, [final[r] EXCEPT !.mp4 = None])
  /\ Touch(r)
  /\ UNCHANGED <<recording, started, drive, locks, callVars, renaming, calls, crashes, made, done>>

\* A rename looks whether the target exists and moves the file afterwards.
RenameChecks(r, from, to) ==
  /\ ArtifactRequest
  /\ renaming = None
  /\ final[r][from] # None /\ final[r][to] = None
  /\ renaming' = [run |-> r, from |-> from, to |-> to]
  /\ UNCHANGED <<disk, started, drive, locks, callVars, calls, crashes, history>>

RenameMoves ==
  /\ renaming # None
  /\ renaming' = None
  /\ LET r == renaming.run
         moved == final[r][renaming.from]
     IN IF moved = None
        THEN UNCHANGED <<final, touched>>
        ELSE /\ final' = Changed(r, [final[r] EXCEPT ![renaming.to] = moved, ![renaming.from] = None])
             /\ Touch(r)
  /\ UNCHANGED <<recording, started, drive, locks, callVars, calls, crashes, requests, made, done>>

-----------------------------------------------------------------------------
(* The service dies.  Nothing resumes a package after the restart.         *)

Crash ==
  /\ crashes < MaxCrashes
  /\ crashes' = crashes + 1
  /\ locks' = {}
  /\ phase' = [p \in Packager |-> "idle"]
  /\ job' = [p \in Packager |-> None]
  /\ up' = [p \in Packager |-> NoUpload]
  /\ got' = [p \in Packager |-> NoIds]
  /\ todo' = [p \in Packager |-> {}]
  /\ made' = [p \in Packager |-> None]
  /\ touched' = {}
  /\ renaming' = None
  /\ UNCHANGED <<disk, started, drive, calls, requests, done>>

PackageStep(p) ==
  \/ RemuxEnds(p) \/ OldVideoRemoved(p) \/ NewVideoRenamed(p) \/ SidecarsCopied(p)
  \/ DriveFinds(p) \/ DrivePuts(p) \/ UploadRetried(p) \/ UploadFails(p) \/ DryRunUploads(p)
  \/ MetadataRecorded(p) \/ DirectoryChecked(p) \/ DirectoryRemoved(p)
  \/ PackageCompletes(p) \/ PackageFails(p)

Next ==
  \/ \E r \in Run : StartRun(r) \/ Expires(r) \/ DeleteArtifact(r)
  \/ \E s \in Stream : RunEnds(s)
  \/ \E p \in Packager, r \in Run : PackageBegins(p, r)
  \/ \E p \in Packager : PackageStep(p)
  \/ \E r \in Run : RenameChecks(r, "mp4", "extra") \/ RenameChecks(r, "extra", "mp4")
  \/ RenameMoves
  \/ Crash

Spec == Init /\ [][Next]_vars

=============================================================================
