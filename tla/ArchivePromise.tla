---------------------------- MODULE ArchivePromise ----------------------------
(***************************************************************************)
(* What packaging promises the owner of an archive (internal/lifecycle and *)
(* internal/archive): what is in the Drive once a run was reported as      *)
(* completed, and that a recording is not lost on the way.  ArchivePackage *)
(* says how it comes about.                                                *)
(***************************************************************************)
EXTENDS Naturals, Sequences

CONSTANTS
  Run,          \* archive runs
  StreamOf,     \* the stream of each run
  Uploads,      \* the runs whose job has a Drive destination
  MaxTogether,  \* bound on the calls of Package under way together
  None

Packager == 1..MaxTogether

VARIABLES
  recording,  \* tmp/<stream>/final.mkv: the run it was written by, and is it finished?
  final,      \* final/<stream>/<run>: its files, and is its last change before the cutoff?
  drive,      \* the objects of the Drive, in the order of creation
  phase,      \* where each call of Package is
  todo,       \* run directories its retention has still to look at
  done        \* history: what the last call for a run has reported as completed

(* A call that was reported as completed has its video and its metadata in one Drive folder,
   under the ids it recorded, the video is the one it made, and the metadata describe it: also
   after retries, lost answers, crashes, expired directories and calls for other streams, until
   the run is packaged again (uploadArchiveFiles, RetryUploader, acquirePackageLock). *)
CompletedIsUploaded ==
  \A r \in Uploads : done[r] # None =>
    LET ids == done[r].ids IN
      /\ drive[ids.mp4] = [name |-> "mp4", parent |-> ids.folder, content |-> done[r].video]
      /\ drive[ids.metadata].parent = ids.folder
      /\ drive[ids.metadata].content.partial = done[r].video.partial
      /\ drive[ids.metadata].content.ids.mp4 = ids.mp4

(* However often an upload is repeated, and whatever answer was lost, the Drive never has two
   objects of one name in one folder (ensureDriveFolder and uploadFile look before they create). *)
NoDuplicateObjects ==
  \A i, j \in 1..Len(drive) :
    drive[i].name = drive[j].name /\ drive[i].parent = drive[j].parent => i = j

Holds(r, video) == video # None /\ video.run = r /\ video.whole

Kept(r) ==
  \/ recording[StreamOf[r]] = [run |-> r, whole |-> TRUE]
  \/ \E f \in {"mp4", "extra"} : Holds(r, final[r][f])
  \/ \E i \in 1..Len(drive) : drive[i].name = "mp4" /\ Holds(r, drive[i].content)

(* No step of packaging takes away the last copy of a finished recording, whichever step it is
   and whichever run it packages, except that retention removes a directory it found expired
   (replaceFileNoSymlink, cleanupExpiredLocalArchives; tmp/<stream>/final.mkv is kept). *)
PackagingNeverLoses ==
  [][(\E p \in Packager : phase[p] # "idle") =>
       \A r \in Run : Kept(r) =>
         \/ Kept(r)'
         \/ \E p \in Packager : phase[p] = "expire" /\ r \in todo[p]]_<<phase, todo, drive>>
=============================================================================
