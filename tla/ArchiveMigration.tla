-------------------------- MODULE ArchiveMigration --------------------------
(***************************************************************************)
(* The archive v2 migration (internal/archive/v2migration, run by the      *)
(* archive-v2-migrate command): prepare copies every legacy file into a    *)
(* backup and writes a manifest, apply renames the files to their run      *)
(* directories and rolls back when a step fails, restore brings them back  *)
(* from the run directories or from the backup.                            *)
(*                                                                         *)
(* Commands take no lock, so several may run at once, and a command may    *)
(* be killed between any two changes of the file system.  A file is        *)
(* "absent", "whole" (the bytes of the legacy file), "part" (a copy that   *)
(* is not finished) or "other".  A comparison of checksums is a comparison *)
(* with "whole".                                                           *)
(***************************************************************************)
EXTENDS Naturals

CONSTANTS
  Entry,       \* the legacy files, numbers in the order of their paths
  Command,     \* invocations of the command that may run together
  MaxKills,    \* bound on the commands that are killed or fail with an I/O error
  MaxDeletes   \* bound on the files removed by an operator

ASSUME MigrationAssumption ==
  /\ Entry \subseteq Nat
  /\ MaxKills \in Nat /\ MaxDeletes \in Nat

VARIABLES
  source, dest, \* the two places of each file
  found,        \* what was at the destination before the migration, while nobody removed it
  backupDir,    \* does the backup directory exist?
  backup,       \* the object of each file in it
  manifest,     \* the plan in it; NoPlan while there is none
  torn,         \* the manifest file exists and does not parse
  pc,           \* where each command is
  plan,         \* the plan it works on
  left,         \* entries it has not come to
  moved,        \* entries its apply has moved
  overlap,      \* have two commands ever run together?
  kills, deletes

files == <<source, dest>>
backupVars == <<backupDir, backup, manifest, torn>>
commandVars == <<pc, plan, left, moved>>
vars == <<files, found, backupVars, commandVars, overlap, kills, deletes>>

File == {"absent", "whole", "part", "other"}
Preparing == {"mkdir", "backup", "copy"}
Applying == {"apply", "destination", "move", "rollback"}
Restoring == {"restore", "look", "moveBack", "copyBack", "fillBack"}

\* A plan tells for each of its entries whether there was a file at the destination.
Plan == UNION {[S -> BOOLEAN] : S \in SUBSET Entry}
NoPlan == [e \in {} |-> FALSE]
IsPlan(m) == DOMAIN m # {}

TypeOK ==
  /\ source \in [Entry -> File] /\ dest \in [Entry -> File] /\ found \in [Entry -> File]
  /\ backupDir \in BOOLEAN
  /\ backup \in [Entry -> {"absent", "part", "whole"}]
  /\ manifest \in Plan /\ torn \in BOOLEAN
  /\ pc \in [Command -> {"idle"} \cup Preparing \cup Applying \cup Restoring]
  /\ plan \in [Command -> Plan]
  /\ left \in [Command -> SUBSET Entry]
  /\ moved \in [Command -> SUBSET Entry]
  /\ overlap \in BOOLEAN
  /\ kills \in Nat /\ deletes \in Nat

Init ==
  /\ source = [e \in Entry |-> "whole"]
  /\ dest \in [Entry -> {"absent", "whole", "other"}]
  /\ found = dest
  /\ backupDir = FALSE
  /\ backup = [e \in Entry |-> "absent"]
  /\ manifest = NoPlan
  /\ torn = FALSE
  /\ pc = [c \in Command |-> "idle"]
  /\ plan = [c \in Command |-> NoPlan]
  /\ left = [c \in Command |-> {}]
  /\ moved = [c \in Command |-> {}]
  /\ overlap = FALSE
  /\ kills = 0 /\ deletes = 0

\* The plan names the files that are at their source.
BuildPlan == [e \in {x \in Entry : source[x] # "absent"} |-> dest[e] # "absent"]

\* validateExistingBackup, which every operation on an existing backup begins with.
BackupValid == IsPlan(manifest) /\ \A e \in DOMAIN manifest : backup[e] = "whole"

PreflightIgnoringOwner(m, restoring) ==
  \A e \in DOMAIN m :
    /\ source[e] \in {"absent", "whole"} /\ dest[e] \in {"absent", "whole"}
    /\ ~(dest[e] # "absent" /\ source[e] # "absent")
    /\ restoring \/ source[e] # "absent" \/ dest[e] # "absent"

\* A destination counts as migrated only when the source is gone and the plan has not seen a
\* file there.
Preflight(m, restoring) ==
  \A e \in DOMAIN m :
    /\ source[e] \in {"absent", "whole"} /\ dest[e] \in {"absent", "whole"}
    /\ ~(dest[e] # "absent" /\ (source[e] # "absent" \/ m[e]))
    /\ restoring \/ source[e] # "absent" \/ dest[e] # "absent"

\* The entry a command has come to.
At(c, e) == e \in left[c] /\ \A f \in left[c] : e <= f

Goes(c, place) == pc' = [pc EXCEPT ![c] = place]

Passes(c, e) == left' = [left EXCEPT ![c] = @ \ {e}]

Begins(c, place, m) ==
  /\ pc[c] = "idle"
  /\ IsPlan(m)
  /\ Goes(c, place)
  /\ plan' = [plan EXCEPT ![c] = m]
  /\ left' = [left EXCEPT ![c] = DOMAIN m]
  /\ overlap' = (overlap \/ \E d \in Command : pc[d] # "idle")
  /\ UNCHANGED moved

\* A command returns: what it knew is gone.
Ends(c) ==
  /\ Goes(c, "idle")
  /\ plan' = [plan EXCEPT ![c] = NoPlan]
  /\ left' = [left EXCEPT ![c] = {}]
  /\ moved' = [moved EXCEPT ![c] = {}]

-----------------------------------------------------------------------------
(* prepare                                                                 *)

\* With a backup directory in place prepare only compares, and changes nothing.
PrepareBegins(c) ==
  /\ ~backupDir
  /\ Begins(c, "mkdir", BuildPlan)
  /\ UNCHANGED <<files, found, backupVars, kills, deletes>>

BackupDirMade(c) ==
  /\ pc[c] = "mkdir"
  /\ backupDir' = TRUE
  /\ Goes(c, "backup")
  /\ UNCHANGED <<files, found, backup, manifest, torn, plan, left, moved, overlap, kills, deletes>>

\* copyVerified: the source is compared with the plan, the object must not exist (O_EXCL).
BackupObjectCreated(c) ==
  /\ pc[c] = "backup"
  /\ \E e \in left[c] :
       /\ At(c, e)
       /\ IF source[e] = "whole" /\ backup[e] = "absent"
          THEN /\ backup' = [backup EXCEPT ![e] = "part"]
               /\ Goes(c, "copy")
               /\ UNCHANGED <<plan, left, moved>>
          ELSE Ends(c) /\ UNCHANGED backup
  /\ UNCHANGED <<files, found, backupDir, manifest, torn, overlap, kills, deletes>>

\* The source is open: it is copied also when its name has gone meanwhile.
BackupObjectCopied(c) ==
  /\ pc[c] = "copy"
  /\ \E e \in left[c] :
       /\ At(c, e)
       /\ backup' = [backup EXCEPT ![e] = "whole"]
       /\ Passes(c, e)
  /\ Goes(c, "backup")
  /\ UNCHANGED <<files, found, backupDir, manifest, torn, plan, moved, overlap, kills, deletes>>

ManifestTooEarly(c) == pc[c] = "backup"

AllBackedUp(c) == pc[c] = "backup" /\ left[c] = {}

\* O_EXCL again: a manifest that exists stays.
ManifestWritten(c) ==
  /\ AllBackedUp(c)
  /\ manifest' = IF torn \/ IsPlan(manifest) THEN manifest ELSE plan[c]
  /\ Ends(c)
  /\ UNCHANGED <<files, found, backupDir, backup, torn, overlap, kills, deletes>>

-----------------------------------------------------------------------------
(* apply                                                                   *)

ApplyBegins(c) ==
  /\ BackupValid
  /\ Preflight(manifest, FALSE)
  /\ Begins(c, "apply", manifest)
  /\ UNCHANGED <<files, found, backupVars, kills, deletes>>

\* The source of the next entry is looked at, and its destination when the source is gone.
ApplyLooksAtSource(c) ==
  /\ pc[c] = "apply"
  /\ \E e \in left[c] :
       /\ At(c, e)
       /\ \/ source[e] = "absent" /\ dest[e] = "whole" /\ Passes(c, e) /\ UNCHANGED pc
          \/ source[e] = "absent" /\ dest[e] # "whole" /\ Goes(c, "rollback") /\ UNCHANGED left
          \/ source[e] # "absent" /\ Goes(c, "destination") /\ UNCHANGED left
  /\ UNCHANGED <<files, found, backupVars, plan, moved, overlap, kills, deletes>>

ApplyLooksAtDestination(c) ==
  /\ pc[c] = "destination"
  /\ \E e \in left[c] :
       At(c, e) /\ Goes(c, IF dest[e] = "absent" THEN "move" ELSE "rollback")
  /\ UNCHANGED <<files, found, backupVars, plan, left, moved, overlap, kills, deletes>>

MovedByCopy(e) == source' = source /\ dest' = [dest EXCEPT ![e] = source[e]]

\* os.Rename replaces what is at the target.
Moved(e) ==
  /\ dest' = [dest EXCEPT ![e] = source[e]]
  /\ source' = [source EXCEPT ![e] = "absent"]

MovedBack(e) ==
  /\ source' = [source EXCEPT ![e] = dest[e]]
  /\ dest' = [dest EXCEPT ![e] = "absent"]

ApplyMoves(c) ==
  /\ pc[c] = "move"
  /\ \E e \in left[c] :
       /\ At(c, e)
       /\ IF source[e] # "absent"
          THEN /\ Moved(e)
               /\ moved' = [moved EXCEPT ![c] = @ \cup {e}]
               /\ Passes(c, e)
               /\ Goes(c, "apply")
          ELSE /\ Goes(c, "rollback")
               /\ UNCHANGED <<files, left, moved>>
  /\ UNCHANGED <<found, backupVars, plan, overlap, kills, deletes>>

Applied(m) == \A e \in DOMAIN m : dest[e] = "whole" /\ source[e] = "absent"

\* Verify at the end decides between success and rollback.
ApplyEnds(c) ==
  /\ pc[c] = "apply"
  /\ left[c] = {}
  /\ IF BackupValid /\ Applied(plan[c])
     THEN Ends(c)
     ELSE Goes(c, "rollback") /\ UNCHANGED <<plan, left, moved>>
  /\ UNCHANGED <<files, found, backupVars, overlap, kills, deletes>>

\* The entries this command has moved go back, the last one first; a rename that fails is
\* passed over.
RollbackMoves(c) ==
  /\ pc[c] = "rollback"
  /\ \E e \in moved[c] :
       /\ \A f \in moved[c] : f <= e
       /\ IF dest[e] # "absent" THEN MovedBack(e) ELSE UNCHANGED files
       /\ moved' = [moved EXCEPT ![c] = @ \ {e}]
  /\ UNCHANGED <<found, backupVars, pc, plan, left, overlap, kills, deletes>>

RollbackEnds(c) ==
  /\ pc[c] = "rollback"
  /\ moved[c] = {}
  /\ Ends(c)
  /\ UNCHANGED <<files, found, backupVars, overlap, kills, deletes>>

-----------------------------------------------------------------------------
(* restore                                                                 *)

RestoreBegins(c) ==
  /\ BackupValid
  /\ Preflight(manifest, TRUE)
  /\ Begins(c, "restore", manifest)
  /\ UNCHANGED <<files, found, backupVars, kills, deletes>>

\* A changed file at either place ends the command.
RestoreLooksAtSource(c) ==
  /\ pc[c] = "restore"
  /\ \E e \in left[c] :
       /\ At(c, e)
       /\ \/ source[e] = "whole" /\ Passes(c, e) /\ UNCHANGED <<pc, plan, moved>>
          \/ source[e] = "absent" /\ Goes(c, "look") /\ UNCHANGED <<plan, left, moved>>
          \/ source[e] \notin {"absent", "whole"} /\ Ends(c)
  /\ UNCHANGED <<files, found, backupVars, overlap, kills, deletes>>

RestoreLooksAtDestination(c) ==
  /\ pc[c] = "look"
  /\ \E e \in left[c] :
       /\ At(c, e)
       /\ IF dest[e] \in {"absent", "whole"}
          THEN /\ Goes(c, IF dest[e] = "absent" THEN "copyBack" ELSE "moveBack")
               /\ UNCHANGED <<plan, left, moved>>
          ELSE Ends(c)
  /\ UNCHANGED <<files, found, backupVars, overlap, kills, deletes>>

RestoreMoves(c) ==
  /\ pc[c] = "moveBack"
  /\ \E e \in left[c] :
       /\ At(c, e)
       /\ IF dest[e] # "absent"
          THEN MovedBack(e) /\ Passes(c, e) /\ Goes(c, "restore") /\ UNCHANGED <<plan, moved>>
          ELSE Ends(c) /\ UNCHANGED files
  /\ UNCHANGED <<found, backupVars, overlap, kills, deletes>>

\* copyVerified from the backup, into a file that must not exist.
RestoreCreates(c) ==
  /\ pc[c] = "copyBack"
  /\ \E e \in left[c] :
       /\ At(c, e)
       /\ IF source[e] = "absent"
          THEN /\ source' = [source EXCEPT ![e] = "part"]
               /\ Goes(c, "fillBack")
               /\ UNCHANGED <<plan, left, moved>>
          ELSE Ends(c) /\ UNCHANGED source
  /\ UNCHANGED <<dest, found, backupVars, overlap, kills, deletes>>

\* The file is open: its bytes arrive also when an apply has moved it, and then the check of the
\* copy fails.
RestoreFills(c) ==
  /\ pc[c] = "fillBack"
  /\ \E e \in left[c] :
       /\ At(c, e)
       /\ source' = [source EXCEPT ![e] = IF @ = "part" THEN "whole" ELSE @]
       /\ dest' = [dest EXCEPT ![e] = IF @ = "part" THEN "whole" ELSE @]
       /\ IF source'[e] = "whole"
          THEN Passes(c, e) /\ Goes(c, "restore") /\ UNCHANGED <<plan, moved>>
          ELSE Ends(c)
  /\ UNCHANGED <<found, backupVars, overlap, kills, deletes>>

RestoreEnds(c) ==
  /\ pc[c] = "restore"
  /\ left[c] = {}
  /\ Ends(c)
  /\ UNCHANGED <<files, found, backupVars, overlap, kills, deletes>>

-----------------------------------------------------------------------------
(* Faults                                                                  *)

\* A command is killed, or fails where it does not roll back.  The manifest it was writing is
\* torn.
Killed(c) ==
  /\ pc[c] # "idle"
  /\ kills < MaxKills
  /\ kills' = kills + 1
  /\ Ends(c)
  /\ \/ UNCHANGED torn
     \/ AllBackedUp(c) /\ ~IsPlan(manifest) /\ torn' = TRUE
  /\ UNCHANGED <<files, found, backupDir, backup, manifest, overlap, deletes>>

\* A rename or mkdir of apply fails: it rolls back.
ApplyFails(c) ==
  /\ pc[c] \in {"apply", "destination", "move"}
  /\ kills < MaxKills
  /\ kills' = kills + 1
  /\ Goes(c, "rollback")
  /\ UNCHANGED <<files, found, backupVars, plan, left, moved, overlap, deletes>>

\* An operator removes the file at a destination while the bytes of the entry are elsewhere, or
\* a source whose bytes were at the destination already.
Deleted(e) ==
  /\ deletes < MaxDeletes
  /\ deletes' = deletes + 1
  /\ \/ /\ dest[e] # "absent"
        /\ IF e \in DOMAIN manifest THEN backup[e] = "whole" ELSE source[e] = "whole"
        /\ dest' = [dest EXCEPT ![e] = "absent"]
        /\ found' = [found EXCEPT ![e] = "absent"]
        /\ UNCHANGED source
     \/ /\ found[e] = "whole" /\ dest[e] = "whole" /\ source[e] # "absent"
        /\ source' = [source EXCEPT ![e] = "absent"]
        /\ UNCHANGED <<dest, found>>
  /\ UNCHANGED <<backupVars, commandVars, overlap, kills>>

CommandStep(c) ==
  \/ PrepareBegins(c) \/ BackupDirMade(c) \/ BackupObjectCreated(c) \/ BackupObjectCopied(c)
  \/ ManifestWritten(c)
  \/ ApplyBegins(c) \/ ApplyLooksAtSource(c) \/ ApplyLooksAtDestination(c)
  \/ ApplyMoves(c) \/ ApplyEnds(c) \/ RollbackMoves(c) \/ RollbackEnds(c)
  \/ RestoreBegins(c) \/ RestoreLooksAtSource(c) \/ RestoreLooksAtDestination(c)
  \/ RestoreMoves(c) \/ RestoreCreates(c) \/ RestoreFills(c) \/ RestoreEnds(c)

Next ==
  \/ \E c \in Command : CommandStep(c) \/ Killed(c) \/ ApplyFails(c)
  \/ \E e \in Entry : Deleted(e)

Spec == Init /\ [][Next]_vars

-----------------------------------------------------------------------------
(* The bytes of every legacy file the manifest names are in the backup, and those of any other
   are at its source or at its destination, wherever the commands were interrupted and however
   they overlap (Backup writes the manifest last, O_EXCL in copyVerified, LoadBackup). *)
Recoverable ==
  \A e \in Entry :
    IF e \in DOMAIN manifest
    THEN backup[e] = "whole"
    ELSE source[e] = "whole" \/ dest[e] = "whole"

(* A file that was at the destination before the migration is never moved, replaced or removed
   by a command, also when its source is removed later (preflight, DestinationFileExisted). *)
ForeignKept == \A e \in Entry : found[e] # "absent" => dest[e] = found[e]

(* As long as commands run one at a time, nobody removes a file and the destinations were
   free, the migration can go on wherever a command was killed: the next apply and the
   next restore pass their preflight (apply, rollback and restore move by rename). *)
CanResume ==
  BackupValid /\ ~overlap /\ deletes = 0 /\ (\A e \in Entry : found[e] = "absent")
    => Preflight(manifest, FALSE) /\ Preflight(manifest, TRUE)
=============================================================================
