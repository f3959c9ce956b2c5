---------------------- MODULE ArchiveMigration_proofs ----------------------
(***************************************************************************)
(* Proofs about ArchiveMigration, for any set of files, any number of      *)
(* commands at once, and any number of interruptions and removals.         *)
(* The last part proves about the other use of an archive, ArchivePackage. *)
(***************************************************************************)
EXTENDS ArchiveMigration, ArchivePromise, TLAPS

Acting(c) == pc[c] \in Applying \cup Restoring

\* What every command knows about its plan.  Only commands that work on the manifest move files.
PlansKept ==
  \A c \in Command :
    /\ left[c] \subseteq DOMAIN plan[c]
    /\ moved[c] \subseteq DOMAIN plan[c]
    /\ pc[c] \notin Applying => moved[c] = {}
    /\ pc[c] \in Preparing => \A e \in DOMAIN plan[c] \ left[c] : backup[e] = "whole"
    /\ Acting(c) => IsPlan(plan[c]) /\ plan[c] = manifest

MigrationInv == TypeOK /\ PlansKept /\ Recoverable

LEMMA PlanFacts ==
  /\ NoPlan \in Plan /\ ~IsPlan(NoPlan) /\ DOMAIN NoPlan = {}
  /\ BuildPlan \in Plan
  /\ \A m \in Plan : DOMAIN m \subseteq Entry
<1>1. NoPlan \in [{} -> BOOLEAN] /\ DOMAIN NoPlan = {}
  BY DEF NoPlan
<1>2. BuildPlan \in [{x \in Entry : source[x] # "absent"} -> BOOLEAN]
  BY DEF BuildPlan
<1>3. {} \in SUBSET Entry /\ {x \in Entry : source[x] # "absent"} \in SUBSET Entry
  OBVIOUS
<1>4. NoPlan \in Plan
  BY <1>1, <1>3 DEF Plan
<1>5. BuildPlan \in Plan
  BY <1>2, <1>3 DEF Plan
<1>6. \A m \in Plan : DOMAIN m \subseteq Entry
  BY DEF Plan
<1> QED BY <1>1, <1>4, <1>5, <1>6 DEF IsPlan

LEMMA MigrationInit == Init => MigrationInv
<1> SUFFICES ASSUME Init PROVE MigrationInv
  OBVIOUS
<1>1. TypeOK
  <2>1. dest \in [Entry -> File] /\ found \in [Entry -> File]
    BY DEF Init, File
  <2>2. manifest \in Plan /\ plan \in [Command -> Plan]
    BY PlanFacts DEF Init
  <2>3. /\ source \in [Entry -> File] /\ backup \in [Entry -> {"absent", "part", "whole"}]
        /\ pc \in [Command -> {"idle"} \cup Preparing \cup Applying \cup Restoring]
        /\ left \in [Command -> SUBSET Entry] /\ moved \in [Command -> SUBSET Entry]
    BY DEF Init, File
  <2> QED BY <2>1, <2>2, <2>3 DEF Init, TypeOK
<1>2. PlansKept
  BY DEF Init, PlansKept, Acting, Preparing, Applying, Restoring
<1>3. Recoverable
  BY PlanFacts DEF Init, Recoverable
<1> QED BY <1>1, <1>2, <1>3 DEF MigrationInv

\* Types are kept by each of the ways in which a step changes the state of a command.
LEMMA TypesAfterBegins ==
  ASSUME TypeOK, NEW c \in Command, NEW m \in Plan, NEW place \in Preparing \cup Applying \cup Restoring,
         Begins(c, place, m), UNCHANGED <<files, found, backupVars, kills, deletes>>
  PROVE  TypeOK'
<1>1. DOMAIN m \subseteq Entry
  BY PlanFacts
<1> QED BY <1>1 DEF TypeOK, Begins, Goes, files, backupVars

LEMMA EndsTypes ==
  ASSUME TypeOK, NEW c \in Command, Ends(c)
  PROVE  /\ pc' \in [Command -> {"idle"} \cup Preparing \cup Applying \cup Restoring]
         /\ plan' \in [Command -> Plan]
         /\ left' \in [Command -> SUBSET Entry]
         /\ moved' \in [Command -> SUBSET Entry]
  BY PlanFacts DEF TypeOK, Ends, Goes

LEMMA GoesTypes ==
  ASSUME TypeOK, NEW c \in Command, NEW place \in Preparing \cup Applying \cup Restoring, Goes(c, place)
  PROVE  pc' \in [Command -> {"idle"} \cup Preparing \cup Applying \cup Restoring]
  BY DEF TypeOK, Goes

LEMMA PassesTypes ==
  ASSUME TypeOK, NEW c \in Command, NEW e, Passes(c, e)
  PROVE  left' \in [Command -> SUBSET Entry]
  BY DEF TypeOK, Passes

LEMMA MovedTypes ==
  ASSUME TypeOK, NEW e \in Entry, Moved(e) \/ MovedBack(e)
  PROVE  source' \in [Entry -> File] /\ dest' \in [Entry -> File]
  BY DEF TypeOK, Moved, MovedBack, File

LEMMA TypeStep == TypeOK /\ [Next]_vars => TypeOK'
<1> SUFFICES ASSUME TypeOK, [Next]_vars PROVE TypeOK'
  OBVIOUS
<1>1. ASSUME NEW c \in Command, CommandStep(c) PROVE TypeOK'
  <2> USE DEF files, backupVars, commandVars
  <2>e. ASSUME NEW e \in left[c] PROVE e \in Entry
    BY DEF TypeOK
  <2>1. CASE PrepareBegins(c)
    BY <2>1, PlanFacts, TypesAfterBegins DEF PrepareBegins, Preparing
  <2>2. CASE BackupDirMade(c)
    BY <2>2, GoesTypes DEF BackupDirMade, TypeOK, Preparing
  <2>3. CASE BackupObjectCreated(c)
    <3>1. PICK e \in left[c] :
            IF source[e] = "whole" /\ backup[e] = "absent"
            THEN backup' = [backup EXCEPT ![e] = "part"] /\ Goes(c, "copy") /\ UNCHANGED <<plan, left, moved>>
            ELSE Ends(c) /\ UNCHANGED backup
      BY <2>3 DEF BackupObjectCreated
    <3>2. UNCHANGED <<files, found, backupDir, manifest, torn, overlap, kills, deletes>>
      BY <2>3 DEF BackupObjectCreated
    <3>3. backup' \in [Entry -> {"absent", "part", "whole"}]
      BY <3>1, <2>e DEF TypeOK
    <3>4. CASE source[e] = "whole" /\ backup[e] = "absent"
      BY <3>1, <3>2, <3>3, <3>4, GoesTypes DEF TypeOK, Preparing
    <3>5. CASE ~(source[e] = "whole" /\ backup[e] = "absent")
      BY <3>1, <3>2, <3>3, <3>5, EndsTypes DEF TypeOK
    <3> QED BY <3>4, <3>5
  <2>4. CASE BackupObjectCopied(c)
    <3>1. PICK e \in left[c] : backup' = [backup EXCEPT ![e] = "whole"] /\ Passes(c, e)
      BY <2>4 DEF BackupObjectCopied
    <3>2. backup' \in [Entry -> {"absent", "part", "whole"}]
      BY <3>1, <2>e DEF TypeOK
    <3> QED BY <2>4, <3>1, <3>2, PassesTypes, GoesTypes DEF BackupObjectCopied, TypeOK, Preparing
  <2>5. CASE ManifestWritten(c)
    <3>1. manifest' \in Plan
      BY <2>5 DEF ManifestWritten, TypeOK
    <3> QED BY <2>5, <3>1, EndsTypes DEF ManifestWritten, TypeOK
  <2>6. CASE ApplyBegins(c)
    BY <2>6, TypesAfterBegins DEF ApplyBegins, Applying, TypeOK
  <2>7. CASE ApplyLooksAtSource(c)
    <3>1. /\ UNCHANGED <<files, found, backupVars, plan, moved, overlap, kills, deletes>>
          /\ \E e \in left[c] :
               \/ Passes(c, e) /\ UNCHANGED pc
               \/ Goes(c, "rollback") /\ UNCHANGED left
               \/ Goes(c, "destination") /\ UNCHANGED left
      BY <2>7 DEF ApplyLooksAtSource
    <3> QED BY <3>1, PassesTypes, GoesTypes DEF TypeOK, Applying
  <2>8. CASE ApplyLooksAtDestination(c)
    <3>1. /\ UNCHANGED <<files, found, backupVars, plan, left, moved, overlap, kills, deletes>>
          /\ Goes(c, "move") \/ Goes(c, "rollback")
      BY <2>8 DEF ApplyLooksAtDestination
    <3> QED BY <3>1, GoesTypes DEF TypeOK, Applying
  <2>9. CASE ApplyMoves(c)
    <3>1. PICK e \in left[c] :
            \/ /\ Moved(e) /\ Passes(c, e) /\ Goes(c, "apply")
               /\ moved' = [moved EXCEPT ![c] = @ \cup {e}]
            \/ Goes(c, "rollback") /\ UNCHANGED <<files, left, moved>>
      BY <2>9 DEF ApplyMoves
    <3>2. UNCHANGED <<found, backupVars, plan, overlap, kills, deletes>>
      BY <2>9 DEF ApplyMoves
    <3>3. source' \in [Entry -> File] /\ dest' \in [Entry -> File]
      BY <3>1, <2>e, MovedTypes DEF TypeOK
    <3>4. moved' \in [Command -> SUBSET Entry]
      BY <3>1, <2>e DEF TypeOK
    <3>5. left' \in [Command -> SUBSET Entry]
      BY <3>1, PassesTypes DEF TypeOK
    <3>6. pc' \in [Command -> {"idle"} \cup Preparing \cup Applying \cup Restoring]
      BY <3>1, GoesTypes DEF Applying
    <3> QED BY <3>2, <3>3, <3>4, <3>5, <3>6 DEF TypeOK
  <2>10. CASE ApplyEnds(c)
    <3>1. /\ UNCHANGED <<files, found, backupVars, overlap, kills, deletes>>
          /\ Ends(c) \/ (Goes(c, "rollback") /\ UNCHANGED <<plan, left, moved>>)
      BY <2>10 DEF ApplyEnds
    <3> QED BY <3>1, EndsTypes, GoesTypes DEF TypeOK, Applying
  <2>11. CASE RollbackMoves(c)
    <3>1. PICK e \in moved[c] :
            /\ MovedBack(e) \/ UNCHANGED files
            /\ moved' = [moved EXCEPT ![c] = @ \ {e}]
      BY <2>11 DEF RollbackMoves
    <3>2. e \in Entry
      BY <3>1 DEF TypeOK
    <3>3. source' \in [Entry -> File] /\ dest' \in [Entry -> File]
      BY <3>1, <3>2, MovedTypes DEF TypeOK
    <3>4. moved' \in [Command -> SUBSET Entry]
      BY <3>1 DEF TypeOK
    <3> QED BY <2>11, <3>3, <3>4 DEF RollbackMoves, TypeOK
  <2>12. CASE RollbackEnds(c)
    BY <2>12, EndsTypes DEF RollbackEnds, TypeOK
  <2>13. CASE RestoreBegins(c)
    BY <2>13, TypesAfterBegins DEF RestoreBegins, Restoring, TypeOK
  <2>14. CASE RestoreLooksAtSource(c)
    <3>1. /\ UNCHANGED <<files, found, backupVars, overlap, kills, deletes>>
          /\ \E e \in left[c] :
               \/ Passes(c, e) /\ UNCHANGED <<pc, plan, moved>>
               \/ Goes(c, "look") /\ UNCHANGED <<plan, left, moved>>
               \/ Ends(c)
      BY <2>14 DEF RestoreLooksAtSource
    <3> QED BY <3>1, PassesTypes, GoesTypes, EndsTypes DEF TypeOK, Restoring
  <2>15. CASE RestoreLooksAtDestination(c)
    <3>1. /\ UNCHANGED <<files, found, backupVars, overlap, kills, deletes>>
          /\ \/ Goes(c, "copyBack") /\ UNCHANGED <<plan, left, moved>>
             \/ Goes(c, "moveBack") /\ UNCHANGED <<plan, left, moved>>
             \/ Ends(c)
      BY <2>15 DEF RestoreLooksAtDestination
    <3> QED BY <3>1, GoesTypes, EndsTypes DEF TypeOK, Restoring
  <2>16. CASE RestoreMoves(c)
    <3>1. PICK e \in left[c] :
            \/ MovedBack(e) /\ Passes(c, e) /\ Goes(c, "restore") /\ UNCHANGED <<plan, moved>>
            \/ Ends(c) /\ UNCHANGED files
      BY <2>16 DEF RestoreMoves
    <3>2. UNCHANGED <<found, backupVars, overlap, kills, deletes>>
      BY <2>16 DEF RestoreMoves
    <3>3. source' \in [Entry -> File] /\ dest' \in [Entry -> File]
      BY <3>1, <2>e, MovedTypes DEF TypeOK
    <3> QED BY <3>1, <3>2, <3>3, PassesTypes, GoesTypes, EndsTypes DEF TypeOK, Restoring
  <2>17. CASE RestoreCreates(c)
    <3>1. PICK e \in left[c] :
            \/ /\ source' = [source EXCEPT ![e] = "part"]
               /\ Goes(c, "fillBack") /\ UNCHANGED <<plan, left, moved>>
            \/ Ends(c) /\ UNCHANGED source
      BY <2>17 DEF RestoreCreates
    <3>2. UNCHANGED <<dest, found, backupVars, overlap, kills, deletes>>
      BY <2>17 DEF RestoreCreates
    <3>3. source' \in [Entry -> File]
      BY <3>1, <2>e DEF TypeOK, File
    <3> QED BY <3>1, <3>2, <3>3, GoesTypes, EndsTypes DEF TypeOK, Restoring
  <2>18. CASE RestoreFills(c)
    <3>1. PICK e \in left[c] :
            /\ source' = [source EXCEPT ![e] = IF @ = "part" THEN "whole" ELSE @]
            /\ dest' = [dest EXCEPT ![e] = IF @ = "part" THEN "whole" ELSE @]
            /\ \/ Passes(c, e) /\ Goes(c, "restore") /\ UNCHANGED <<plan, moved>>
               \/ Ends(c)
      BY <2>18 DEF RestoreFills
    <3>2. UNCHANGED <<found, backupVars, overlap, kills, deletes>>
      BY <2>18 DEF RestoreFills
    <3>3. source' \in [Entry -> File] /\ dest' \in [Entry -> File]
      BY <3>1, <2>e DEF TypeOK, File
    <3> QED BY <3>1, <3>2, <3>3, PassesTypes, GoesTypes, EndsTypes DEF TypeOK, Restoring
  <2>19. CASE RestoreEnds(c)
    BY <2>19, EndsTypes DEF RestoreEnds, TypeOK
  <2> QED BY <1>1, <2>1, <2>2, <2>3, <2>4, <2>5, <2>6, <2>7, <2>8, <2>9, <2>10, <2>11, <2>12,
             <2>13, <2>14, <2>15, <2>16, <2>17, <2>18, <2>19 DEF CommandStep
<1>2. ASSUME NEW c \in Command, Killed(c) PROVE TypeOK'
  <2>1. torn' \in BOOLEAN
    BY <1>2 DEF Killed, TypeOK
  <2>2. kills' \in Nat
    BY <1>2 DEF Killed, TypeOK
  <2>3. Ends(c) /\ UNCHANGED <<files, found, backupDir, backup, manifest, overlap, deletes>>
    BY <1>2 DEF Killed
  <2> QED BY <2>1, <2>2, <2>3, EndsTypes DEF TypeOK, files
<1>3. ASSUME NEW c \in Command, ApplyFails(c) PROVE TypeOK'
  BY <1>3, GoesTypes DEF ApplyFails, TypeOK, files, backupVars, Applying
<1>4. ASSUME NEW e \in Entry, Deleted(e) PROVE TypeOK'
  <2>1. /\ source' \in [Entry -> File] /\ dest' \in [Entry -> File] /\ found' \in [Entry -> File]
    BY <1>4 DEF Deleted, TypeOK, File
  <2>2. deletes' \in Nat
    BY <1>4 DEF Deleted, TypeOK
  <2> QED BY <1>4, <2>1, <2>2 DEF Deleted, TypeOK, backupVars, commandVars
<1>5. CASE UNCHANGED vars
  BY <1>5 DEF vars, files, backupVars, commandVars, TypeOK
<1> QED BY <1>1, <1>2, <1>3, <1>4, <1>5 DEF Next
-----------------------------------------------------------------------------
(* Plans and the backup.                                                    *)

OthersKept(c) ==
  \A d \in Command \ {c} :
    pc'[d] = pc[d] /\ plan'[d] = plan[d] /\ left'[d] = left[d] /\ moved'[d] = moved[d]

BackupGrows == \A e \in Entry : backup[e] = "whole" => backup'[e] = "whole"

\* What a step of c has to show about c itself.
OwnPlanKept(c) ==
  /\ left'[c] \subseteq DOMAIN plan'[c]
  /\ moved'[c] \subseteq DOMAIN plan'[c]
  /\ pc'[c] \notin Applying => moved'[c] = {}
  /\ pc'[c] \in Preparing => \A e \in DOMAIN plan'[c] \ left'[c] : backup'[e] = "whole"
  /\ pc'[c] \in Applying \cup Restoring => IsPlan(plan'[c]) /\ plan'[c] = manifest'

LEMMA PlansFrame ==
  ASSUME MigrationInv, NEW c \in Command, OthersKept(c), BackupGrows, OwnPlanKept(c),
         manifest' = manifest \/ ~IsPlan(manifest)
  PROVE  PlansKept'
<1> SUFFICES ASSUME NEW d \in Command
             PROVE  /\ left'[d] \subseteq DOMAIN plan'[d]
                    /\ moved'[d] \subseteq DOMAIN plan'[d]
                    /\ pc'[d] \notin Applying => moved'[d] = {}
                    /\ pc'[d] \in Preparing => \A e \in DOMAIN plan'[d] \ left'[d] : backup'[e] = "whole"
                    /\ pc'[d] \in Applying \cup Restoring => IsPlan(plan'[d]) /\ plan'[d] = manifest'
  BY DEF PlansKept, Acting
<1>1. CASE d = c
  BY <1>1 DEF OwnPlanKept
<1>2. CASE d # c
  <2>1. pc'[d] = pc[d] /\ plan'[d] = plan[d] /\ left'[d] = left[d] /\ moved'[d] = moved[d]
    BY <1>2 DEF OthersKept
  <2>2. /\ left[d] \subseteq DOMAIN plan[d] /\ moved[d] \subseteq DOMAIN plan[d]
        /\ pc[d] \notin Applying => moved[d] = {}
        /\ pc[d] \in Preparing => \A e \in DOMAIN plan[d] \ left[d] : backup[e] = "whole"
        /\ pc[d] \in Applying \cup Restoring => IsPlan(plan[d]) /\ plan[d] = manifest
    BY DEF MigrationInv, PlansKept, Acting
  <2>3. DOMAIN plan[d] \subseteq Entry
    BY PlanFacts DEF MigrationInv, TypeOK
  <2> QED BY <2>1, <2>2, <2>3 DEF BackupGrows
<1> QED BY <1>1, <1>2

\* A step that keeps the manifest and moves only files it names.
LEMMA RecoverableFrame ==
  ASSUME MigrationInv, BackupGrows, manifest' = manifest,
         \A e \in Entry \ DOMAIN manifest : source'[e] = source[e] /\ dest'[e] = dest[e]
  PROVE  Recoverable'
  BY DEF MigrationInv, Recoverable, BackupGrows

LEMMA EndsKeepsPlan ==
  ASSUME MigrationInv, NEW c \in Command, Ends(c)
  PROVE  OthersKept(c) /\ OwnPlanKept(c) /\ pc'[c] = "idle"
  BY PlanFacts DEF MigrationInv, TypeOK, Ends, Goes, OthersKept, OwnPlanKept, Preparing, Applying, Restoring

\* A command of the manifest goes to another place, and has perhaps an entry less to come to.
LEMMA ActsOnKeepsPlan ==
  ASSUME MigrationInv, NEW c \in Command, Acting(c), NEW place \in Applying \cup Restoring,
         Goes(c, place) \/ (UNCHANGED pc /\ place = pc[c]),
         pc[c] \in Applying <=> place \in Applying,
         UNCHANGED <<plan, manifest>>,
         UNCHANGED left \/ (\E e \in left[c] : Passes(c, e)),
         \/ UNCHANGED moved
         \/ place \in Applying /\ \E e \in left[c] : moved' = [moved EXCEPT ![c] = @ \cup {e}]
         \/ \E e \in moved[c] : moved' = [moved EXCEPT ![c] = @ \ {e}]
  PROVE  OthersKept(c) /\ OwnPlanKept(c)
<1>1. /\ pc \in [Command -> {"idle"} \cup Preparing \cup Applying \cup Restoring]
      /\ left \in [Command -> SUBSET Entry] /\ moved \in [Command -> SUBSET Entry]
      /\ left[c] \subseteq DOMAIN plan[c] /\ moved[c] \subseteq DOMAIN plan[c]
      /\ pc[c] \notin Applying => moved[c] = {}
      /\ IsPlan(plan[c]) /\ plan[c] = manifest
  BY DEF MigrationInv, TypeOK, PlansKept
<1>2. pc'[c] = place /\ \A d \in Command \ {c} : pc'[d] = pc[d]
  BY <1>1 DEF Goes
<1>3. left'[c] \subseteq left[c] /\ \A d \in Command \ {c} : left'[d] = left[d]
  BY <1>1 DEF Passes
<1>4. /\ moved'[c] \subseteq DOMAIN plan[c] /\ (place \notin Applying => moved'[c] = {})
      /\ \A d \in Command \ {c} : moved'[d] = moved[d]
  BY <1>1
<1>5. place \notin Preparing
  BY DEF Preparing, Applying, Restoring
<1> QED BY <1>1, <1>2, <1>3, <1>4, <1>5 DEF OthersKept, OwnPlanKept

LEMMA BeginsKeepsPlan ==
  ASSUME MigrationInv, NEW c \in Command, NEW m \in Plan, NEW place \in Preparing \cup Applying \cup Restoring,
         Begins(c, place, m), manifest' = manifest,
         place \in Applying \cup Restoring => m = manifest
  PROVE  OthersKept(c) /\ OwnPlanKept(c)
<1>1. /\ pc \in [Command -> {"idle"} \cup Preparing \cup Applying \cup Restoring]
      /\ left \in [Command -> SUBSET Entry] /\ plan \in [Command -> Plan]
      /\ pc[c] = "idle" /\ IsPlan(m) /\ moved' = moved
  BY DEF MigrationInv, TypeOK, Begins
<1>2. pc'[c] = place /\ plan'[c] = m /\ left'[c] = DOMAIN m
  BY <1>1 DEF Begins, Goes
<1>3. OthersKept(c)
  BY <1>1 DEF Begins, Goes, OthersKept
<1>4. moved[c] = {}
  BY <1>1 DEF MigrationInv, PlansKept, Applying
<1> QED BY <1>1, <1>2, <1>3, <1>4 DEF OwnPlanKept

LEMMA PrepareKeeps ==
  ASSUME MigrationInv, NEW c \in Command,
         PrepareBegins(c) \/ BackupDirMade(c) \/ BackupObjectCreated(c) \/ BackupObjectCopied(c)
  PROVE  PlansKept' /\ Recoverable'
<1> USE DEF files, backupVars
<1>0. /\ pc \in [Command -> {"idle"} \cup Preparing \cup Applying \cup Restoring]
      /\ left \in [Command -> SUBSET Entry] /\ backup \in [Entry -> {"absent", "part", "whole"}]
      /\ left[c] \subseteq DOMAIN plan[c] /\ moved[c] \subseteq DOMAIN plan[c]
      /\ pc[c] \notin Applying => moved[c] = {}
      /\ pc[c] \in Preparing => \A e \in DOMAIN plan[c] \ left[c] : backup[e] = "whole"
      /\ DOMAIN plan[c] \subseteq Entry
  BY PlanFacts DEF MigrationInv, TypeOK, PlansKept
<1>1. CASE PrepareBegins(c)
  <2>1. BackupGrows
    BY <1>1 DEF PrepareBegins, BackupGrows
  <2>2. OthersKept(c) /\ OwnPlanKept(c)
    <3>1. /\ "mkdir" \in Preparing \cup Applying \cup Restoring
          /\ "mkdir" \notin Applying \cup Restoring
      BY DEF Preparing, Applying, Restoring
    <3> QED BY <1>1, <3>1, PlanFacts, BeginsKeepsPlan DEF PrepareBegins
  <2> QED BY <1>1, <2>1, <2>2, PlansFrame, RecoverableFrame DEF PrepareBegins
<1>2. CASE BackupDirMade(c)
  <2>1. BackupGrows /\ OthersKept(c)
    BY <1>0, <1>2 DEF BackupDirMade, BackupGrows, OthersKept, Goes
  <2>2. OwnPlanKept(c)
    BY <1>0, <1>2 DEF BackupDirMade, OwnPlanKept, Goes, Preparing, Applying, Restoring
  <2> QED BY <1>2, <2>1, <2>2, PlansFrame, RecoverableFrame DEF BackupDirMade
<1>3. CASE BackupObjectCreated(c)
  <2>1. PICK e \in left[c] :
          IF source[e] = "whole" /\ backup[e] = "absent"
          THEN backup' = [backup EXCEPT ![e] = "part"] /\ Goes(c, "copy") /\ UNCHANGED <<plan, left, moved>>
          ELSE Ends(c) /\ UNCHANGED backup
    BY <1>3 DEF BackupObjectCreated
  <2>2. BackupGrows
    BY <1>0, <2>1 DEF BackupGrows
  <2>3. OthersKept(c) /\ OwnPlanKept(c)
    <3>1. CASE source[e] = "whole" /\ backup[e] = "absent"
      <4>1. OthersKept(c)
        BY <1>0, <2>1, <3>1 DEF OthersKept, Goes
      <4>2. pc'[c] = "copy" /\ pc[c] = "backup" /\ left' = left /\ plan' = plan /\ moved' = moved
        BY <1>0, <1>3, <2>1, <3>1 DEF Goes, BackupObjectCreated
      <4> QED BY <1>0, <2>2, <4>1, <4>2 DEF OwnPlanKept, BackupGrows, Preparing, Applying, Restoring
    <3>2. CASE ~(source[e] = "whole" /\ backup[e] = "absent")
      BY <2>1, <3>2, EndsKeepsPlan
    <3> QED BY <3>1, <3>2
  <2> QED BY <1>3, <2>2, <2>3, PlansFrame, RecoverableFrame DEF BackupObjectCreated
<1>4. CASE BackupObjectCopied(c)
  <2>1. PICK e \in left[c] : backup' = [backup EXCEPT ![e] = "whole"] /\ Passes(c, e)
    BY <1>4 DEF BackupObjectCopied
  <2>2. BackupGrows /\ backup'[e] = "whole"
    BY <1>0, <2>1 DEF BackupGrows
  <2>3. OthersKept(c)
    BY <1>0, <1>4, <2>1 DEF OthersKept, BackupObjectCopied, Goes, Passes
  <2>4. OwnPlanKept(c)
    <3>1. /\ pc'[c] = "backup" /\ pc[c] = "copy" /\ plan' = plan /\ moved' = moved
          /\ left'[c] = left[c] \ {e}
      BY <1>0, <1>4, <2>1 DEF BackupObjectCopied, Goes, Passes
    <3> QED BY <1>0, <2>2, <3>1 DEF OwnPlanKept, BackupGrows, Preparing, Applying, Restoring
  <2> QED BY <1>4, <2>2, <2>3, <2>4, PlansFrame, RecoverableFrame DEF BackupObjectCopied
<1> QED BY <1>1, <1>2, <1>3, <1>4

\* The manifest is written when every object is complete, so it names only recoverable files.
LEMMA ManifestKeeps ==
  ASSUME MigrationInv, NEW c \in Command, ManifestWritten(c)
  PROVE  PlansKept' /\ Recoverable'
<1>1. OthersKept(c) /\ OwnPlanKept(c)
  BY EndsKeepsPlan DEF ManifestWritten
<1>2. BackupGrows /\ backup' = backup /\ source' = source /\ dest' = dest
  BY DEF ManifestWritten, BackupGrows, files
<1>3. PlansKept'
  BY <1>1, <1>2, PlansFrame DEF ManifestWritten
<1>4. manifest' = manifest \/ (manifest' = plan[c] /\ ~IsPlan(manifest))
  BY DEF ManifestWritten
<1>5. \A e \in DOMAIN plan[c] : backup[e] = "whole"
  BY DEF ManifestWritten, AllBackedUp, MigrationInv, PlansKept, Preparing
<1>6. ~IsPlan(manifest) => \A e \in Entry : source[e] = "whole" \/ dest[e] = "whole"
  BY DEF MigrationInv, Recoverable, IsPlan
<1>7. Recoverable'
  BY <1>2, <1>4, <1>5, <1>6 DEF MigrationInv, Recoverable
<1> QED BY <1>3, <1>7

LEMMA ApplyKeeps ==
  ASSUME MigrationInv, NEW c \in Command,
         \/ ApplyBegins(c) \/ ApplyLooksAtSource(c) \/ ApplyLooksAtDestination(c)
         \/ ApplyMoves(c) \/ ApplyEnds(c) \/ RollbackMoves(c) \/ RollbackEnds(c) \/ ApplyFails(c)
  PROVE  PlansKept' /\ Recoverable'
<1> USE DEF files, backupVars
<1>0. /\ manifest' = manifest /\ BackupGrows
  BY DEF ApplyBegins, ApplyLooksAtSource, ApplyLooksAtDestination, ApplyMoves, ApplyEnds,
         RollbackMoves, RollbackEnds, ApplyFails, BackupGrows
<1>1. /\ left[c] \subseteq DOMAIN plan[c] /\ moved[c] \subseteq DOMAIN plan[c]
      /\ Acting(c) => plan[c] = manifest
      /\ source \in [Entry -> File] /\ dest \in [Entry -> File]
  BY DEF MigrationInv, PlansKept, TypeOK
<1>2. {"apply", "destination", "move", "rollback"} \subseteq Applying
  BY DEF Applying
<1>3. OthersKept(c) /\ OwnPlanKept(c)
  <2>1. CASE ApplyBegins(c)
    BY <1>0, <1>2, <2>1, BeginsKeepsPlan DEF ApplyBegins, MigrationInv, TypeOK
  <2>2. CASE ApplyLooksAtSource(c)
    <3>1. Acting(c) /\ pc[c] \in Applying
      BY <2>2, <1>2 DEF ApplyLooksAtSource, Acting
    <3>2. /\ UNCHANGED <<plan, manifest, moved>>
          /\ \/ UNCHANGED pc /\ \E e \in left[c] : Passes(c, e)
             \/ Goes(c, "rollback") /\ UNCHANGED left
             \/ Goes(c, "destination") /\ UNCHANGED left
      BY <2>2 DEF ApplyLooksAtSource
    <3> QED BY <1>2, <3>1, <3>2, ActsOnKeepsPlan
  <2>3. CASE ApplyLooksAtDestination(c)
    <3>1. Acting(c) /\ pc[c] \in Applying
      BY <2>3, <1>2 DEF ApplyLooksAtDestination, Acting
    <3>2. UNCHANGED <<plan, manifest, left, moved>> /\ (Goes(c, "move") \/ Goes(c, "rollback"))
      BY <2>3 DEF ApplyLooksAtDestination
    <3> QED BY <1>2, <3>1, <3>2, ActsOnKeepsPlan
  <2>4. CASE ApplyMoves(c)
    <3>1. Acting(c) /\ pc[c] \in Applying
      BY <2>4, <1>2 DEF ApplyMoves, Acting
    <3>2. /\ UNCHANGED <<plan, manifest>>
          /\ \/ /\ Goes(c, "apply")
                /\ \E e \in left[c] : Passes(c, e) /\ moved' = [moved EXCEPT ![c] = @ \cup {e}]
             \/ Goes(c, "rollback") /\ UNCHANGED <<left, moved>>
      BY <2>4 DEF ApplyMoves
    <3> QED BY <1>2, <3>1, <3>2, ActsOnKeepsPlan
  <2>5. CASE ApplyEnds(c)
    <3>1. Acting(c) /\ pc[c] \in Applying
      BY <2>5, <1>2 DEF ApplyEnds, Acting
    <3>2. CASE Ends(c)
      BY <3>2, EndsKeepsPlan
    <3>3. CASE Goes(c, "rollback") /\ UNCHANGED <<plan, left, moved>>
      BY <1>0, <1>2, <3>1, <3>3, ActsOnKeepsPlan
    <3> QED BY <2>5, <3>2, <3>3 DEF ApplyEnds
  <2>6. CASE RollbackMoves(c)
    <3>1. Acting(c) /\ pc[c] \in Applying
      BY <2>6, <1>2 DEF RollbackMoves, Acting
    <3>2. /\ UNCHANGED <<pc, plan, left, manifest>>
          /\ \E e \in moved[c] : moved' = [moved EXCEPT ![c] = @ \ {e}]
      BY <2>6 DEF RollbackMoves
    <3> QED BY <3>1, <3>2, ActsOnKeepsPlan
  <2>7. CASE RollbackEnds(c)
    BY <2>7, EndsKeepsPlan DEF RollbackEnds
  <2>8. CASE ApplyFails(c)
    <3>1. Acting(c) /\ pc[c] \in Applying
      BY <2>8, <1>2 DEF ApplyFails, Acting
    <3> QED BY <1>0, <1>2, <2>8, <3>1, ActsOnKeepsPlan DEF ApplyFails
  <2> QED BY <2>1, <2>2, <2>3, <2>4, <2>5, <2>6, <2>7, <2>8
<1>4. \A e \in Entry \ DOMAIN manifest : source'[e] = source[e] /\ dest'[e] = dest[e]
  <2>1. CASE ApplyMoves(c)
    BY <1>1, <1>2, <2>1 DEF ApplyMoves, Acting, Moved
  <2>2. CASE RollbackMoves(c)
    BY <1>1, <1>2, <2>2 DEF RollbackMoves, Acting, MovedBack
  <2>3. CASE ~ApplyMoves(c) /\ ~RollbackMoves(c)
    BY <2>3 DEF ApplyBegins, ApplyLooksAtSource, ApplyLooksAtDestination, ApplyEnds, RollbackEnds, ApplyFails
  <2> QED BY <2>1, <2>2, <2>3
<1> QED BY <1>0, <1>3, <1>4, PlansFrame, RecoverableFrame

LEMMA RestoreKeeps ==
  ASSUME MigrationInv, NEW c \in Command,
         \/ RestoreBegins(c) \/ RestoreLooksAtSource(c) \/ RestoreLooksAtDestination(c)
         \/ RestoreMoves(c) \/ RestoreCreates(c) \/ RestoreFills(c) \/ RestoreEnds(c)
  PROVE  PlansKept' /\ Recoverable'
<1> USE DEF files, backupVars
<1>0. /\ manifest' = manifest /\ BackupGrows
  BY DEF RestoreBegins, RestoreLooksAtSource, RestoreLooksAtDestination, RestoreMoves,
         RestoreCreates, RestoreFills, RestoreEnds, BackupGrows
<1>1. /\ left[c] \subseteq DOMAIN plan[c]
      /\ Acting(c) => plan[c] = manifest
      /\ source \in [Entry -> File] /\ dest \in [Entry -> File]
  BY DEF MigrationInv, PlansKept, TypeOK
<1>2. /\ {"restore", "look", "moveBack", "copyBack", "fillBack"} \subseteq Restoring
      /\ \A p \in Restoring : p \notin Applying
  BY DEF Applying, Restoring
<1>3. OthersKept(c) /\ OwnPlanKept(c)
  <2>1. CASE RestoreBegins(c)
    BY <1>0, <1>2, <2>1, BeginsKeepsPlan DEF RestoreBegins, MigrationInv, TypeOK
  <2>2. CASE ~RestoreBegins(c)
    <3>1. pc[c] \in Restoring /\ Acting(c)
      BY <1>2, <2>2 DEF RestoreLooksAtSource, RestoreLooksAtDestination, RestoreMoves,
             RestoreCreates, RestoreFills, RestoreEnds, Acting
    <3>2. CASE Ends(c)
      BY <3>2, EndsKeepsPlan
    <3>3. CASE ~Ends(c)
      <4>1. /\ UNCHANGED <<plan, moved>>
            /\ UNCHANGED pc \/ \E place \in Restoring : Goes(c, place)
            /\ UNCHANGED left \/ \E e \in left[c] : Passes(c, e)
        BY <1>2, <2>2, <3>3 DEF RestoreLooksAtSource, RestoreLooksAtDestination, RestoreMoves,
             RestoreCreates, RestoreFills, RestoreEnds
      <4> QED BY <1>0, <1>2, <3>1, <4>1, ActsOnKeepsPlan
    <3> QED BY <3>2, <3>3
  <2> QED BY <2>1, <2>2
<1>4. \A e \in Entry \ DOMAIN manifest : source'[e] = source[e] /\ dest'[e] = dest[e]
  <2>1. CASE RestoreMoves(c)
    BY <1>1, <1>2, <2>1 DEF RestoreMoves, Acting, MovedBack
  <2>2. CASE RestoreCreates(c)
    BY <1>1, <1>2, <2>2 DEF RestoreCreates, Acting
  <2>3. CASE RestoreFills(c)
    BY <1>1, <1>2, <2>3 DEF RestoreFills, Acting
  <2>4. CASE ~RestoreMoves(c) /\ ~RestoreCreates(c) /\ ~RestoreFills(c)
    BY <2>4 DEF RestoreBegins, RestoreLooksAtSource, RestoreLooksAtDestination, RestoreEnds
  <2> QED BY <2>1, <2>2, <2>3, <2>4
<1> QED BY <1>0, <1>3, <1>4, PlansFrame, RecoverableFrame

LEMMA KillKeeps ==
  ASSUME MigrationInv, NEW c \in Command, Killed(c)
  PROVE  PlansKept' /\ Recoverable'
<1>1. OthersKept(c) /\ OwnPlanKept(c)
  BY EndsKeepsPlan DEF Killed
<1>2. BackupGrows /\ manifest' = manifest /\ source' = source /\ dest' = dest
  BY DEF Killed, BackupGrows, files
<1> QED BY <1>1, <1>2, PlansFrame, RecoverableFrame

LEMMA DeleteKeeps ==
  ASSUME MigrationInv, NEW e \in Entry, Deleted(e)
  PROVE  PlansKept' /\ Recoverable'
<1>1. UNCHANGED <<backup, manifest, pc, plan, left, moved>>
  BY DEF Deleted, backupVars, commandVars
<1>2. PlansKept'
  BY <1>1 DEF MigrationInv, PlansKept, Acting
<1>3. Recoverable'
  <2> SUFFICES ASSUME NEW f \in Entry
               PROVE  IF f \in DOMAIN manifest THEN backup[f] = "whole"
                      ELSE source'[f] = "whole" \/ dest'[f] = "whole"
    BY <1>1 DEF Recoverable
  <2>1. CASE f = e
    BY <2>1 DEF MigrationInv, TypeOK, Recoverable, Deleted
  <2>2. CASE f # e
    BY <2>2 DEF MigrationInv, TypeOK, Recoverable, Deleted
  <2> QED BY <2>1, <2>2
<1> QED BY <1>2, <1>3

LEMMA MigrationStep == MigrationInv /\ [Next]_vars => MigrationInv'
<1> SUFFICES ASSUME MigrationInv, [Next]_vars PROVE MigrationInv'
  OBVIOUS
<1>1. TypeOK'
  BY TypeStep DEF MigrationInv
<1>2. PlansKept' /\ Recoverable'
  <2>1. ASSUME NEW c \in Command, CommandStep(c) PROVE PlansKept' /\ Recoverable'
    BY <2>1, PrepareKeeps, ManifestKeeps, ApplyKeeps, RestoreKeeps DEF CommandStep
  <2>2. ASSUME NEW c \in Command, Killed(c) PROVE PlansKept' /\ Recoverable'
    BY <2>2, KillKeeps
  <2>3. ASSUME NEW c \in Command, ApplyFails(c) PROVE PlansKept' /\ Recoverable'
    BY <2>3, ApplyKeeps
  <2>4. ASSUME NEW e \in Entry, Deleted(e) PROVE PlansKept' /\ Recoverable'
    BY <2>4, DeleteKeeps
  <2>5. CASE UNCHANGED vars
    BY <2>5 DEF vars, files, backupVars, commandVars, MigrationInv, PlansKept, Acting, Recoverable
  <2> QED BY <2>1, <2>2, <2>3, <2>4, <2>5 DEF Next
<1> QED BY <1>1, <1>2 DEF MigrationInv

(* For any set of legacy files and any commands, overlapping and interrupted anywhere: the bytes
   of every file are in the backup once the manifest names it, and at its source or its
   destination before (Backup, copyVerified, apply, Restore). *)
THEOREM NothingLost == Spec => []Recoverable
<1>1. MigrationInv => Recoverable
  BY DEF MigrationInv
<1> QED BY <1>1, MigrationInit, MigrationStep, PTL DEF Spec
-----------------------------------------------------------------------------
(* Foreign files                                                           *)

\* An entry a plan marks as free has no foreign file, since the plan was built.
PlanKnows ==
  /\ \A c \in Command : pc[c] \in Preparing => \A e \in DOMAIN plan[c] : ~plan[c][e] => found[e] = "absent"
  /\ \A e \in DOMAIN manifest : ~manifest[e] => found[e] = "absent"

\* The preflight a command has passed stays true of foreign files while it works.
Claimed == \A c \in Command : Acting(c) => \A e \in DOMAIN manifest : found[e] = "absent"

KeptInv == MigrationInv /\ PlanKnows /\ Claimed /\ ForeignKept

LEMMA KeptInit == Init => KeptInv
<1> SUFFICES ASSUME Init PROVE KeptInv
  OBVIOUS
<1>1. MigrationInv
  BY MigrationInit
<1>2. PlanKnows /\ Claimed
  BY PlanFacts DEF Init, PlanKnows, Claimed, Acting, Preparing, Applying, Restoring
<1>3. ForeignKept
  BY DEF Init, ForeignKept
<1> QED BY <1>1, <1>2, <1>3 DEF KeptInv

\* A step of c that begins no command and writes no manifest: it touches destinations only while
\* it works on the manifest, and only those the manifest names.
Works(c) ==
  /\ found' = found /\ manifest' = manifest
  /\ \A d \in Command :
       /\ pc'[d] \in Preparing => pc[d] \in Preparing /\ plan'[d] = plan[d]
       /\ pc'[d] \in Applying \cup Restoring => Acting(d)
  /\ \A e \in Entry : dest'[e] = dest[e] \/ (Acting(c) /\ e \in DOMAIN manifest)

LEMMA WorkKeepsForeign ==
  ASSUME KeptInv, NEW c \in Command, Works(c)
  PROVE  PlanKnows' /\ Claimed' /\ ForeignKept'
<1>1. PlanKnows'
  BY DEF KeptInv, PlanKnows, Works
<1>2. Claimed'
  BY DEF KeptInv, Claimed, Works, Acting
<1>3. ForeignKept'
  BY DEF KeptInv, ForeignKept, Claimed, Works
<1> QED BY <1>1, <1>2, <1>3

\* Where the command that moves is, as one of the three ways a step can move it.
LEMMA EndsWorks ==
  ASSUME MigrationInv, NEW c \in Command, Ends(c), UNCHANGED <<found, manifest, dest>>
  PROVE  Works(c)
<1>1. \A d \in Command : d # c => pc'[d] = pc[d] /\ plan'[d] = plan[d]
  BY DEF MigrationInv, TypeOK, Ends, Goes
<1>2. pc'[c] = "idle"
  BY DEF MigrationInv, TypeOK, Ends, Goes
<1> QED BY <1>1, <1>2 DEF Works, Acting, Preparing, Applying, Restoring

LEMMA GoesWorks ==
  ASSUME MigrationInv, NEW c \in Command, NEW place \in Preparing \cup Applying \cup Restoring,
         Goes(c, place) \/ (UNCHANGED pc /\ place = pc[c]), UNCHANGED <<found, manifest, plan>>,
         place \in Preparing <=> pc[c] \in Preparing,
         pc[c] # "idle",
         \A e \in Entry : dest'[e] = dest[e] \/ (Acting(c) /\ e \in DOMAIN manifest)
  PROVE  Works(c)
<1>1. \A d \in Command : d # c => pc'[d] = pc[d]
  BY DEF MigrationInv, TypeOK, Goes
<1>2. pc'[c] = place
  BY DEF MigrationInv, TypeOK, Goes
<1>3. pc[c] \notin Preparing => Acting(c)
  BY DEF MigrationInv, TypeOK, Acting
<1>4. \A p \in Preparing : p \notin Applying \cup Restoring
  BY DEF Preparing, Applying, Restoring
<1> QED BY <1>1, <1>2, <1>3, <1>4 DEF Works, Acting

LEMMA CommandWorks ==
  ASSUME MigrationInv, NEW c \in Command, CommandStep(c) \/ Killed(c) \/ ApplyFails(c)
  PROVE  Works(c) \/ PrepareBegins(c) \/ ManifestWritten(c) \/ ApplyBegins(c) \/ RestoreBegins(c)
<1> USE DEF files, backupVars
<1>0. /\ left[c] \subseteq DOMAIN plan[c] /\ moved[c] \subseteq DOMAIN plan[c]
      /\ Acting(c) => plan[c] = manifest
      /\ dest \in [Entry -> File]
  BY DEF MigrationInv, PlansKept, TypeOK
<1>p. /\ {"mkdir", "backup", "copy"} = Preparing
      /\ {"apply", "destination", "move", "rollback"} = Applying
      /\ {"restore", "look", "moveBack", "copyBack", "fillBack"} = Restoring
      /\ \A p \in Applying \cup Restoring : p \notin Preparing /\ p # "idle"
  BY DEF Preparing, Applying, Restoring
<1>1. CASE BackupDirMade(c)
  BY <1>1, <1>p, GoesWorks DEF BackupDirMade
<1>2. CASE BackupObjectCreated(c)
  BY <1>2, <1>p, GoesWorks, EndsWorks DEF BackupObjectCreated
<1>3. CASE BackupObjectCopied(c)
  BY <1>3, <1>p, GoesWorks DEF BackupObjectCopied
<1>4. CASE ApplyLooksAtSource(c)
  <2>1. /\ UNCHANGED <<found, manifest, plan, dest>> /\ pc[c] \in Applying
        /\ UNCHANGED pc \/ Goes(c, "rollback") \/ Goes(c, "destination")
    BY <1>4, <1>p DEF ApplyLooksAtSource
  <2> QED BY <1>p, <2>1, GoesWorks
<1>5. CASE ApplyLooksAtDestination(c)
  <2>1. /\ UNCHANGED <<found, manifest, plan, dest>> /\ pc[c] \in Applying
        /\ Goes(c, "move") \/ Goes(c, "rollback")
    BY <1>5, <1>p DEF ApplyLooksAtDestination
  <2> QED BY <1>p, <2>1, GoesWorks
<1>6. CASE ApplyMoves(c)
  <2>1. /\ UNCHANGED <<found, manifest, plan>> /\ pc[c] \in Applying /\ Acting(c)
        /\ Goes(c, "apply") \/ Goes(c, "rollback")
    BY <1>6, <1>p DEF ApplyMoves, Acting
  <2>2. \A e \in Entry : dest'[e] = dest[e] \/ e \in DOMAIN manifest
    BY <1>0, <1>6, <2>1 DEF ApplyMoves, Moved
  <2> QED BY <1>p, <2>1, <2>2, GoesWorks
<1>7. CASE ApplyEnds(c)
  <2>1. /\ UNCHANGED <<found, manifest, dest>> /\ pc[c] \in Applying
        /\ Ends(c) \/ (Goes(c, "rollback") /\ UNCHANGED plan)
    BY <1>7, <1>p DEF ApplyEnds
  <2> QED BY <1>p, <2>1, GoesWorks, EndsWorks
<1>8. CASE RollbackMoves(c)
  <2>1. UNCHANGED <<found, manifest, plan, pc>> /\ pc[c] \in Applying /\ Acting(c)
    BY <1>8, <1>p DEF RollbackMoves, Acting
  <2>2. \A e \in Entry : dest'[e] = dest[e] \/ e \in DOMAIN manifest
    BY <1>0, <1>8, <2>1 DEF RollbackMoves, MovedBack
  <2> QED BY <1>p, <2>1, <2>2, GoesWorks
<1>9. CASE RollbackEnds(c) \/ RestoreEnds(c) \/ Killed(c)
  BY <1>9, EndsWorks DEF RollbackEnds, RestoreEnds, Killed
<1>10. CASE ApplyFails(c)
  <2>1. UNCHANGED <<found, manifest, plan, dest>> /\ pc[c] \in Applying /\ Goes(c, "rollback")
    BY <1>10, <1>p DEF ApplyFails
  <2> QED BY <1>p, <2>1, GoesWorks
<1>11. CASE RestoreLooksAtSource(c)
  <2>1. /\ UNCHANGED <<found, manifest, dest>> /\ pc[c] \in Restoring
        /\ Ends(c) \/ (UNCHANGED <<pc, plan>>) \/ (Goes(c, "look") /\ UNCHANGED plan)
    BY <1>11, <1>p DEF RestoreLooksAtSource
  <2> QED BY <1>p, <2>1, GoesWorks, EndsWorks
<1>12. CASE RestoreLooksAtDestination(c)
  <2>1. /\ UNCHANGED <<found, manifest, dest>> /\ pc[c] \in Restoring
        /\ Ends(c) \/ ((Goes(c, "copyBack") \/ Goes(c, "moveBack")) /\ UNCHANGED plan)
    BY <1>12, <1>p DEF RestoreLooksAtDestination
  <2> QED BY <1>p, <2>1, GoesWorks, EndsWorks
<1>13. CASE RestoreMoves(c)
  <2>1. /\ UNCHANGED <<found, manifest>> /\ pc[c] \in Restoring /\ Acting(c)
        /\ (Ends(c) /\ UNCHANGED dest) \/ (Goes(c, "restore") /\ UNCHANGED plan)
    BY <1>13, <1>p DEF RestoreMoves, Acting
  <2>2. \A e \in Entry : dest'[e] = dest[e] \/ e \in DOMAIN manifest
    BY <1>0, <1>13, <2>1 DEF RestoreMoves, MovedBack
  <2> QED BY <1>p, <2>1, <2>2, GoesWorks, EndsWorks
<1>14. CASE RestoreCreates(c)
  <2>1. /\ UNCHANGED <<found, manifest, dest>> /\ pc[c] \in Restoring
        /\ Ends(c) \/ (Goes(c, "fillBack") /\ UNCHANGED plan)
    BY <1>14, <1>p DEF RestoreCreates
  <2> QED BY <1>p, <2>1, GoesWorks, EndsWorks
<1>15. CASE RestoreFills(c)
  <2>1. /\ UNCHANGED <<found, manifest>> /\ pc[c] \in Restoring /\ Acting(c)
        /\ Ends(c) \/ (Goes(c, "restore") /\ UNCHANGED plan)
    BY <1>15, <1>p DEF RestoreFills, Acting
  <2>2. \A e \in Entry : dest'[e] = dest[e] \/ e \in DOMAIN manifest
    BY <1>0, <1>15, <2>1 DEF RestoreFills
  <2>3. CASE Goes(c, "restore") /\ UNCHANGED plan
    BY <1>p, <2>1, <2>2, <2>3, GoesWorks
  <2>4. CASE Ends(c)
    <3>1. \A d \in Command : d # c => pc'[d] = pc[d] /\ plan'[d] = plan[d]
      BY <2>4 DEF MigrationInv, TypeOK, Ends, Goes
    <3>2. pc'[c] = "idle"
      BY <2>4 DEF MigrationInv, TypeOK, Ends, Goes
    <3> QED BY <2>1, <2>2, <3>1, <3>2 DEF Works, Acting, Preparing, Applying, Restoring
  <2> QED BY <2>1, <2>3, <2>4
<1> QED BY <1>1, <1>2, <1>3, <1>4, <1>5, <1>6, <1>7, <1>8, <1>9, <1>10, <1>11, <1>12, <1>13,
           <1>14, <1>15 DEF CommandStep

\* What a preflight says about foreign files.
LEMMA PreflightClaims ==
  ASSUME KeptInv, NEW restoring \in BOOLEAN, Preflight(manifest, restoring)
  PROVE  \A e \in DOMAIN manifest : found[e] = "absent"
<1> TAKE e \in DOMAIN manifest
<1>1. e \in Entry
  BY PlanFacts DEF KeptInv, MigrationInv, TypeOK
<1>2. CASE dest[e] = "absent"
  BY <1>1, <1>2 DEF KeptInv, ForeignKept
<1>3. CASE dest[e] # "absent"
  BY <1>3 DEF Preflight, KeptInv, PlanKnows
<1> QED BY <1>2, <1>3

LEMMA BeginKeepsForeign ==
  ASSUME KeptInv, NEW c \in Command, PrepareBegins(c) \/ ApplyBegins(c) \/ RestoreBegins(c)
  PROVE  PlanKnows' /\ Claimed' /\ ForeignKept'
<1>1. UNCHANGED <<dest, found, manifest>>
  BY DEF PrepareBegins, ApplyBegins, RestoreBegins, files, backupVars
<1>2. \A d \in Command : d # c => pc'[d] = pc[d] /\ plan'[d] = plan[d]
  BY DEF KeptInv, MigrationInv, TypeOK, PrepareBegins, ApplyBegins, RestoreBegins, Begins, Goes
<1>3. /\ PrepareBegins(c) => pc'[c] = "mkdir" /\ plan'[c] = BuildPlan
      /\ ApplyBegins(c) => pc'[c] = "apply"
      /\ RestoreBegins(c) => pc'[c] = "restore"
  BY DEF KeptInv, MigrationInv, TypeOK, PrepareBegins, ApplyBegins, RestoreBegins, Begins, Goes
<1>4. \A e \in DOMAIN BuildPlan : ~BuildPlan[e] => found[e] = "absent"
  BY DEF KeptInv, ForeignKept, BuildPlan
<1>5. PlanKnows'
  BY <1>1, <1>2, <1>3, <1>4 DEF KeptInv, PlanKnows, Preparing
<1>6. Claimed'
  <2>1. ApplyBegins(c) \/ RestoreBegins(c) => \A e \in DOMAIN manifest : found[e] = "absent"
    BY PreflightClaims DEF ApplyBegins, RestoreBegins
  <2>2. PrepareBegins(c) => pc'[c] \notin Applying \cup Restoring
    BY <1>3 DEF Applying, Restoring
  <2> QED BY <1>1, <1>2, <2>1, <2>2 DEF KeptInv, Claimed, Acting
<1>7. ForeignKept'
  BY <1>1 DEF KeptInv, ForeignKept
<1> QED BY <1>5, <1>6, <1>7

\* A manifest comes from a plan that knew, and comes only when no command works on another.
LEMMA ManifestKeepsForeign ==
  ASSUME KeptInv, NEW c \in Command, ManifestWritten(c)
  PROVE  PlanKnows' /\ Claimed' /\ ForeignKept'
<1>1. UNCHANGED <<dest, found>> /\ pc[c] = "backup"
  BY DEF ManifestWritten, AllBackedUp, files
<1>2. (\A d \in Command : d # c => pc'[d] = pc[d] /\ plan'[d] = plan[d]) /\ pc'[c] = "idle"
  BY DEF KeptInv, MigrationInv, TypeOK, ManifestWritten, Ends, Goes
<1>3. manifest' = manifest \/ (manifest' = plan[c] /\ ~IsPlan(manifest))
  BY DEF ManifestWritten
<1>4. \A e \in DOMAIN plan[c] : ~plan[c][e] => found[e] = "absent"
  BY <1>1 DEF KeptInv, PlanKnows, Preparing
<1>5. PlanKnows'
  BY <1>1, <1>2, <1>3, <1>4 DEF KeptInv, PlanKnows, Preparing
<1>6. Claimed'
  <2>1. \A d \in Command : Acting(d) => IsPlan(manifest)
    BY DEF KeptInv, MigrationInv, PlansKept
  <2> QED BY <1>1, <1>2, <1>3, <2>1 DEF KeptInv, Claimed, Acting, Applying, Restoring
<1>7. ForeignKept'
  BY <1>1 DEF KeptInv, ForeignKept
<1> QED BY <1>5, <1>6, <1>7

LEMMA KeptStep == KeptInv /\ [Next]_vars => KeptInv'
<1> SUFFICES ASSUME KeptInv, [Next]_vars PROVE KeptInv'
  OBVIOUS
<1>1. MigrationInv'
  BY MigrationStep DEF KeptInv
<1>2. PlanKnows' /\ Claimed' /\ ForeignKept'
  <2>1. ASSUME NEW c \in Command, CommandStep(c) \/ Killed(c) \/ ApplyFails(c)
        PROVE  PlanKnows' /\ Claimed' /\ ForeignKept'
    <3>1. MigrationInv
      BY DEF KeptInv
    <3> QED BY <2>1, <3>1, CommandWorks, WorkKeepsForeign, BeginKeepsForeign, ManifestKeepsForeign
  <2>2. ASSUME NEW e \in Entry, Deleted(e) PROVE PlanKnows' /\ Claimed' /\ ForeignKept'
    <3>1. UNCHANGED <<manifest, pc, plan>>
      BY <2>2 DEF Deleted, backupVars, commandVars
    <3>2. \A f \in Entry : found'[f] = found[f] \/ found'[f] = "absent"
      BY <2>2 DEF Deleted, KeptInv, MigrationInv, TypeOK
    <3>3. (\A c \in Command : DOMAIN plan[c] \subseteq Entry) /\ DOMAIN manifest \subseteq Entry
      BY PlanFacts DEF KeptInv, MigrationInv, TypeOK
    <3>4. PlanKnows' /\ Claimed'
      BY <3>1, <3>2, <3>3 DEF KeptInv, PlanKnows, Claimed, Acting
    <3>5. ForeignKept'
      BY <2>2 DEF Deleted, KeptInv, MigrationInv, TypeOK, ForeignKept
    <3> QED BY <3>4, <3>5
  <2>3. CASE UNCHANGED vars
    BY <2>3 DEF vars, files, backupVars, commandVars, KeptInv, PlanKnows, Claimed, Acting, ForeignKept
  <2> QED BY <2>1, <2>2, <2>3 DEF Next
<1> QED BY <1>1, <1>2 DEF KeptInv

(* For any files and any commands, overlapping and interrupted anywhere: what was at a
   destination before the migration is still there, unless an operator removed it (preflight,
   DestinationFileExisted). *)
THEOREM ForeignFilesKept == Spec => []ForeignKept
<1>1. KeptInv => ForeignKept
  BY DEF KeptInv
<1> QED BY <1>1, KeptInit, KeptStep, PTL DEF Spec
-----------------------------------------------------------------------------
(* Going on after an interruption                                          *)

\* The condition of CanResume on what has happened so far.
Calm == ~overlap /\ deletes = 0 /\ \A e \in Entry : found[e] = "absent"

\* Every file is at one of its places, and nothing is at the other.
OnePlace ==
  \A e \in Entry :
    \/ source[e] = "whole" /\ dest[e] = "absent"
    \/ source[e] = "absent" /\ dest[e] = "whole"

\* No plan has seen a file at a destination.
PlansFree ==
  /\ \A e \in DOMAIN manifest : ~manifest[e]
  /\ \A c \in Command : pc[c] \in Preparing => \A e \in DOMAIN plan[c] : ~plan[c][e]

Solo == \A c, d \in Command : pc[c] # "idle" /\ pc[d] # "idle" => c = d

\* A restore finds the file at the destination when it is not at its source: it never copies.
NoCopy ==
  \A c \in Command :
    /\ pc[c] \notin {"copyBack", "fillBack"}
    /\ pc[c] = "look" => \A e \in left[c] : At(c, e) => source[e] = "absent"

Orderly == OnePlace /\ PlansFree /\ Solo /\ NoCopy

ResumeInv == MigrationInv /\ (Calm => Orderly)

LEMMA ResumeInit == Init => ResumeInv
<1> SUFFICES ASSUME Init PROVE ResumeInv
  OBVIOUS
<1>1. MigrationInv
  BY MigrationInit
<1>2. Calm => OnePlace
  BY DEF Init, Calm, OnePlace
<1>3. PlansFree
  BY PlanFacts DEF Init, PlansFree, Preparing
<1>4. Solo /\ NoCopy
  BY DEF Init, Solo, NoCopy
<1> QED BY <1>1, <1>2, <1>3, <1>4 DEF ResumeInv, Orderly

\* Entries are numbers, so a command is at one of them.
LEMMA AtUnique ==
  ASSUME NEW c \in Command, left[c] \subseteq Entry, NEW e \in left[c], NEW f \in left[c], At(c, e), At(c, f)
  PROVE  e = f
<1>1. e \in Nat /\ f \in Nat
  BY MigrationAssumption
<1>2. e <= f /\ f <= e
  BY DEF At
<1> QED BY <1>1, <1>2

\* What a step of a running command may do to the files, the plans and its own place.
Orders(c) ==
  /\ pc[c] # "idle"
  /\ \A d \in Command \ {c} : pc'[d] = pc[d]
  /\ manifest' = manifest \/ (manifest' = plan[c] /\ pc[c] \in Preparing)
  /\ pc'[c] \in Preparing => pc[c] \in Preparing /\ plan'[c] = plan[c]
  /\ pc'[c] \notin {"copyBack", "fillBack"}
  /\ pc'[c] = "look" => \A e \in left'[c] : At(c, e)' => source'[e] = "absent"
  /\ \A e \in Entry :
       \/ source'[e] = source[e] /\ dest'[e] = dest[e]
       \/ source[e] # "absent" /\ dest'[e] = source[e] /\ source'[e] = "absent"
       \/ dest[e] # "absent" /\ source'[e] = dest[e] /\ dest'[e] = "absent"

LEMMA OrdersKeeps ==
  ASSUME Orderly, NEW c \in Command, Orders(c)
  PROVE  Orderly'
<1>1. \A d \in Command : d # c => pc[d] = "idle" /\ pc'[d] = "idle"
  BY DEF Orderly, Solo, Orders
<1>2. OnePlace'
  BY DEF Orderly, OnePlace, Orders
<1>3. PlansFree'
  BY <1>1 DEF Orderly, PlansFree, Orders, Preparing
<1>4. Solo'
  BY <1>1 DEF Solo
<1>5. NoCopy'
  BY <1>1 DEF NoCopy, Orders
<1> QED BY <1>2, <1>3, <1>4, <1>5 DEF Orderly

\* A command that begins is alone, or the commands overlap from then on.
LEMMA BeginsOrderly ==
  ASSUME MigrationInv, Orderly, Calm', NEW c \in Command,
         PrepareBegins(c) \/ ApplyBegins(c) \/ RestoreBegins(c)
  PROVE  Orderly'
<1>1. /\ UNCHANGED <<source, dest, manifest>>
      /\ pc[c] = "idle" /\ \A d \in Command : pc[d] = "idle"
      /\ pc' = [pc EXCEPT ![c] = IF PrepareBegins(c) THEN "mkdir"
                                 ELSE IF ApplyBegins(c) THEN "apply" ELSE "restore"]
         \/ \E place \in {"mkdir", "apply", "restore"} : pc' = [pc EXCEPT ![c] = place]
  BY DEF PrepareBegins, ApplyBegins, RestoreBegins, Begins, Goes, Calm, files, backupVars
<1>2. /\ pc'[c] \in {"mkdir", "apply", "restore"}
      /\ \A d \in Command : d # c => pc'[d] = "idle"
  BY <1>1 DEF MigrationInv, TypeOK
<1>3. pc'[c] \in Preparing => plan'[c] = BuildPlan
  <2>1. CASE PrepareBegins(c)
    BY <2>1 DEF MigrationInv, TypeOK, PrepareBegins, Begins
  <2>2. CASE ApplyBegins(c)
    BY <2>2 DEF MigrationInv, TypeOK, ApplyBegins, Begins, Goes, Preparing
  <2>3. CASE RestoreBegins(c)
    BY <2>3 DEF MigrationInv, TypeOK, RestoreBegins, Begins, Goes, Preparing
  <2> QED BY <2>1, <2>2, <2>3
<1>4. \A e \in DOMAIN BuildPlan : ~BuildPlan[e]
  BY DEF Orderly, OnePlace, BuildPlan
<1>5. OnePlace' /\ Solo'
  BY <1>1, <1>2 DEF Orderly, OnePlace, Solo
<1>6. PlansFree'
  BY <1>1, <1>2, <1>3, <1>4 DEF Orderly, PlansFree, Preparing
<1>7. NoCopy'
  BY <1>2 DEF NoCopy
<1> QED BY <1>5, <1>6, <1>7 DEF Orderly

LEMMA PrepareOrders ==
  ASSUME MigrationInv, NEW c \in Command,
         BackupDirMade(c) \/ BackupObjectCreated(c) \/ BackupObjectCopied(c) \/ ManifestWritten(c)
  PROVE  Orders(c)
<1>1. /\ UNCHANGED <<source, dest>>
      /\ pc[c] \in Preparing /\ pc[c] # "idle"
      /\ manifest' = manifest \/ manifest' = plan[c]
      /\ Ends(c) \/ (plan' = plan /\ \E place \in {"backup", "copy"} : Goes(c, place))
  BY DEF BackupDirMade, BackupObjectCreated, BackupObjectCopied, ManifestWritten, AllBackedUp,
         files, Preparing
<1>2. /\ pc'[c] \in {"idle", "backup", "copy"} /\ (pc'[c] # "idle" => plan' = plan)
      /\ \A d \in Command \ {c} : pc'[d] = pc[d]
  BY <1>1 DEF MigrationInv, TypeOK, Ends, Goes
<1> QED BY <1>1, <1>2 DEF Orders, Preparing

LEMMA ApplyOrders ==
  ASSUME MigrationInv, NEW c \in Command,
         \/ ApplyLooksAtSource(c) \/ ApplyLooksAtDestination(c) \/ ApplyMoves(c) \/ ApplyEnds(c)
         \/ RollbackMoves(c) \/ RollbackEnds(c) \/ ApplyFails(c)
  PROVE  Orders(c)
<1> USE DEF files, backupVars
<1>1. /\ manifest' = manifest /\ pc[c] \in Applying /\ pc[c] # "idle"
  BY DEF ApplyLooksAtSource, ApplyLooksAtDestination, ApplyMoves, ApplyEnds, RollbackMoves,
         RollbackEnds, ApplyFails, Applying
<1>2. Ends(c) \/ UNCHANGED pc \/ \E place \in Applying : Goes(c, place)
  BY DEF ApplyLooksAtSource, ApplyLooksAtDestination, ApplyMoves, ApplyEnds, RollbackMoves,
         RollbackEnds, ApplyFails, Applying
<1>3. /\ pc'[c] \in {"idle"} \cup Applying
      /\ \A d \in Command \ {c} : pc'[d] = pc[d]
  BY <1>1, <1>2 DEF MigrationInv, TypeOK, Ends, Goes
<1>4. left[c] \subseteq Entry /\ moved[c] \subseteq Entry
      /\ source \in [Entry -> File] /\ dest \in [Entry -> File]
  BY DEF MigrationInv, TypeOK
<1>5. \A e \in Entry :
       \/ source'[e] = source[e] /\ dest'[e] = dest[e]
       \/ source[e] # "absent" /\ dest'[e] = source[e] /\ source'[e] = "absent"
       \/ dest[e] # "absent" /\ source'[e] = dest[e] /\ dest'[e] = "absent"
  <2>1. CASE ApplyMoves(c)
    <3>1. (\E e \in left[c] : source[e] # "absent" /\ Moved(e)) \/ UNCHANGED <<source, dest>>
      BY <2>1 DEF ApplyMoves
    <3> QED BY <1>4, <3>1 DEF Moved
  <2>2. CASE RollbackMoves(c)
    <3>1. (\E e \in moved[c] : dest[e] # "absent" /\ MovedBack(e)) \/ UNCHANGED <<source, dest>>
      BY <2>2 DEF RollbackMoves
    <3> QED BY <1>4, <3>1 DEF MovedBack
  <2>3. CASE ~ApplyMoves(c) /\ ~RollbackMoves(c)
    BY <2>3 DEF ApplyLooksAtSource, ApplyLooksAtDestination, ApplyEnds, RollbackEnds, ApplyFails
  <2> QED BY <2>1, <2>2, <2>3
<1> QED BY <1>1, <1>3, <1>5 DEF Orders, Preparing, Applying

LEMMA RestoreOrders ==
  ASSUME MigrationInv, Orderly, NEW c \in Command,
         \/ RestoreLooksAtSource(c) \/ RestoreLooksAtDestination(c) \/ RestoreMoves(c)
         \/ RestoreCreates(c) \/ RestoreFills(c) \/ RestoreEnds(c)
  PROVE  Orders(c)
<1> USE DEF files, backupVars
<1>1. ~RestoreCreates(c) /\ ~RestoreFills(c)
  BY DEF Orderly, NoCopy, RestoreCreates, RestoreFills
<1>2. /\ manifest' = manifest /\ pc[c] \in Restoring /\ pc[c] # "idle"
  BY <1>1 DEF RestoreLooksAtSource, RestoreLooksAtDestination, RestoreMoves, RestoreEnds, Restoring
<1>3. /\ left[c] \subseteq Entry
      /\ source \in [Entry -> File] /\ dest \in [Entry -> File]
      /\ pc \in [Command -> {"idle"} \cup Preparing \cup Applying \cup Restoring]
  BY DEF MigrationInv, TypeOK
<1>4. CASE RestoreLooksAtSource(c)
  <2>1. PICK e \in left[c] :
          /\ At(c, e)
          /\ \/ UNCHANGED pc
             \/ source[e] = "absent" /\ Goes(c, "look") /\ UNCHANGED left
             \/ Ends(c)
    BY <1>4 DEF RestoreLooksAtSource
  <2>2. pc[c] = "restore" /\ UNCHANGED <<source, dest>>
    BY <1>4 DEF RestoreLooksAtSource
  <2>3. /\ pc'[c] \in {"restore", "look", "idle"} /\ \A d \in Command \ {c} : pc'[d] = pc[d]
        /\ pc'[c] = "look" => source[e] = "absent" /\ left' = left
    BY <1>3, <2>1, <2>2 DEF Goes, Ends
  <2>4. pc'[c] = "look" => \A f \in left'[c] : At(c, f)' => source'[f] = "absent"
    <3> SUFFICES ASSUME pc'[c] = "look", NEW f \in left'[c], At(c, f)' PROVE source'[f] = "absent"
      OBVIOUS
    <3>1. f \in left[c] /\ At(c, f)
      BY <2>3 DEF At
    <3>2. e = f
      BY <1>3, <2>1, <3>1, AtUnique
    <3> QED BY <2>2, <2>3, <3>2
  <2> QED BY <1>2, <2>2, <2>3, <2>4 DEF Orders, Preparing
<1>5. CASE RestoreLooksAtDestination(c)
  <2>1. PICK e \in left[c] :
          /\ At(c, e)
          /\ Ends(c) \/ Goes(c, IF dest[e] = "absent" THEN "copyBack" ELSE "moveBack")
    BY <1>5 DEF RestoreLooksAtDestination
  <2>2. pc[c] = "look" /\ UNCHANGED <<source, dest>>
    BY <1>5 DEF RestoreLooksAtDestination
  <2>3. dest[e] # "absent"
    BY <1>3, <2>1, <2>2 DEF Orderly, NoCopy, OnePlace
  <2>4. pc'[c] \in {"moveBack", "idle"} /\ \A d \in Command \ {c} : pc'[d] = pc[d]
    BY <1>3, <2>1, <2>3 DEF Goes, Ends
  <2> QED BY <1>2, <2>2, <2>4 DEF Orders, Preparing
<1>6. CASE RestoreMoves(c) \/ RestoreEnds(c)
  <2>1. \/ UNCHANGED <<source, dest>> /\ Ends(c)
        \/ (\E e \in left[c] : dest[e] # "absent" /\ MovedBack(e)) /\ Goes(c, "restore")
    BY <1>6 DEF RestoreMoves, RestoreEnds
  <2>2. \A e \in Entry :
          \/ source'[e] = source[e] /\ dest'[e] = dest[e]
          \/ dest[e] # "absent" /\ source'[e] = dest[e] /\ dest'[e] = "absent"
    BY <1>3, <2>1 DEF MovedBack
  <2>3. pc'[c] \in {"restore", "idle"} /\ \A d \in Command \ {c} : pc'[d] = pc[d]
    BY <1>3, <2>1 DEF Goes, Ends
  <2> QED BY <1>2, <2>2, <2>3 DEF Orders, Preparing
<1> QED BY <1>1, <1>4, <1>5, <1>6

LEMMA KillOrders ==
  ASSUME MigrationInv, NEW c \in Command, Killed(c)
  PROVE  Orders(c)
<1>1. UNCHANGED <<source, dest, manifest>> /\ pc[c] # "idle"
  BY DEF Killed, files
<1>2. pc'[c] = "idle" /\ \A d \in Command \ {c} : pc'[d] = pc[d]
  BY DEF MigrationInv, TypeOK, Killed, Ends, Goes
<1> QED BY <1>1, <1>2 DEF Orders, Preparing

\* Overlap and removals are remembered.
LEMMA CalmBefore ==
  ASSUME MigrationInv, Next, Calm'
  PROVE  Calm /\ ~\E e \in Entry : Deleted(e)
<1>1. ASSUME NEW e \in Entry, Deleted(e) PROVE FALSE
  <2>1. deletes' = deletes + 1 /\ deletes \in Nat
    BY <1>1 DEF Deleted, MigrationInv, TypeOK
  <2> QED BY <2>1 DEF Calm
<1>2. PICK c \in Command : CommandStep(c) \/ Killed(c) \/ ApplyFails(c)
  BY <1>1 DEF Next
<1> DEFINE Same == found' = found /\ deletes' = deletes /\ (overlap => overlap')
<1>3. ASSUME PrepareBegins(c) \/ ApplyBegins(c) \/ RestoreBegins(c)
     PROVE  Same
  <2>1. overlap' = (overlap \/ \E d \in Command : pc[d] # "idle")
    BY <1>3 DEF PrepareBegins, ApplyBegins, RestoreBegins, Begins
  <2>2. found' = found /\ deletes' = deletes
    BY <1>3 DEF PrepareBegins, ApplyBegins, RestoreBegins
  <2> QED BY <2>1, <2>2
<1>4. ASSUME Killed(c) \/ ApplyFails(c)
     PROVE  Same
  BY <1>4 DEF Killed, ApplyFails
<1>5. ASSUME \/ BackupDirMade(c) \/ BackupObjectCreated(c) \/ BackupObjectCopied(c)
             \/ ManifestWritten(c)
     PROVE  Same
  BY <1>5 DEF BackupDirMade, BackupObjectCreated, BackupObjectCopied, ManifestWritten
<1>6. ASSUME \/ ApplyLooksAtSource(c) \/ ApplyLooksAtDestination(c) \/ ApplyMoves(c)
             \/ ApplyEnds(c) \/ RollbackMoves(c) \/ RollbackEnds(c)
     PROVE  Same
  BY <1>6 DEF ApplyLooksAtSource, ApplyLooksAtDestination, ApplyMoves, ApplyEnds,
       RollbackMoves, RollbackEnds
<1>7. ASSUME \/ RestoreLooksAtSource(c) \/ RestoreLooksAtDestination(c) \/ RestoreMoves(c)
             \/ RestoreCreates(c) \/ RestoreFills(c) \/ RestoreEnds(c)
     PROVE  Same
  BY <1>7 DEF RestoreLooksAtSource, RestoreLooksAtDestination, RestoreMoves, RestoreCreates,
       RestoreFills, RestoreEnds
<1>8. Same
  BY <1>2, <1>3, <1>4, <1>5, <1>6, <1>7 DEF CommandStep
<1> QED BY <1>1, <1>8 DEF Calm

LEMMA ResumeStep == ResumeInv /\ [Next]_vars => ResumeInv'
<1> SUFFICES ASSUME ResumeInv, [Next]_vars PROVE ResumeInv'
  OBVIOUS
<1>1. MigrationInv /\ MigrationInv'
  BY MigrationStep DEF ResumeInv
<1>2. ASSUME Calm', Next PROVE Orderly'
  <2>1. Orderly
    BY <1>1, <1>2, CalmBefore DEF ResumeInv
  <2>2. PICK c \in Command : CommandStep(c) \/ Killed(c) \/ ApplyFails(c)
    BY <1>1, <1>2, CalmBefore DEF Next
  <2>3. CASE PrepareBegins(c) \/ ApplyBegins(c) \/ RestoreBegins(c)
    BY <1>1, <1>2, <2>1, <2>3, BeginsOrderly
  <2>4. CASE ~(PrepareBegins(c) \/ ApplyBegins(c) \/ RestoreBegins(c))
    <3>1. Orders(c)
      BY <1>1, <2>1, <2>2, <2>4, PrepareOrders, ApplyOrders, RestoreOrders, KillOrders DEF CommandStep
    <3> QED BY <2>1, <3>1, OrdersKeeps
  <2> QED BY <2>3, <2>4
<1>3. ASSUME UNCHANGED vars, Calm' PROVE Orderly'
  BY <1>3 DEF vars, files, backupVars, commandVars, ResumeInv, Calm, Orderly, OnePlace, PlansFree,
       Solo, NoCopy, At
<1> QED BY <1>1, <1>2, <1>3 DEF ResumeInv

(* For any files and any number of interruptions: as long as commands run one at a time, nobody
   removes a file and the destinations were free, apply and restore can go on from wherever the
   last command stopped (apply, rollback and restore move by rename). *)
THEOREM MigrationResumes == Spec => []CanResume
<1>1. ResumeInv => CanResume
  <2> SUFFICES ASSUME ResumeInv, Calm, NEW restoring \in BOOLEAN PROVE Preflight(manifest, restoring)
    BY DEF CanResume, Calm
  <2>1. DOMAIN manifest \subseteq Entry
    BY PlanFacts DEF ResumeInv, MigrationInv, TypeOK
  <2> QED BY <2>1 DEF ResumeInv, Orderly, OnePlace, PlansFree, Preflight
<1> QED BY <1>1, ResumeInit, ResumeStep, PTL DEF Spec

-----------------------------------------------------------------------------
(* The other use of an archive: packaging a run and uploading it (ArchivePackage).               *)

CONSTANTS FolderName, Retains, CurrentOnly, MaxAttempts, MaxCalls, MaxCrashes, MaxRequests

VARIABLES started, locks, job, up, got, renaming, calls, crashes, requests, made, touched

Pack == INSTANCE ArchivePackage

\* safeDriveName gives another stream the same folder.
Shared(s) == \E t \in Pack!Stream : t # s /\ FolderName[t] = FolderName[s]

VideoMade == {"copy", "upload", "record", "recordAll", "retain", "expire"}

Place == {"idle", "remux", "replace", "rename"} \cup VideoMade

CallTypes ==
  /\ phase \in [Pack!Packager -> Place]
  /\ job \in [Pack!Packager -> Run \cup {None}]
  /\ DOMAIN up = Pack!Packager /\ DOMAIN got = Pack!Packager
  /\ DOMAIN todo = Pack!Packager /\ DOMAIN made = Pack!Packager
  /\ \A p \in Pack!Packager :
       /\ DOMAIN up[p] = {"file", "level", "parent", "found", "attempt"}
       /\ DOMAIN got[p] = {"mp4", "metadata", "folder"}

DiskTypes ==
  /\ DOMAIN final = Run /\ DOMAIN done = Run
  /\ \A r \in Run : DOMAIN final[r] = {"exists", "old", "mp4", "temp", "meta", "extra"}
  /\ renaming # None =>
       renaming.run \in Run /\ {renaming.from, renaming.to} \subseteq {"mp4", "extra"}

IsSeq(d) == d \in Seq({d[i] : i \in 1..Len(d)})

DriveTypes ==
  /\ IsSeq(drive)
  /\ \A i \in 1..Len(drive) :
       /\ drive[i].parent \in Nat
       /\ drive[i] = [name |-> drive[i].name, parent |-> drive[i].parent,
                      content |-> drive[i].content]

LocksHeld ==
  \A p \in Pack!Packager : phase[p] # "idle" =>
    /\ job[p] \in Run /\ StreamOf[job[p]] \in locks
    /\ \A q \in Pack!Packager : q # p /\ phase[q] # "idle" => StreamOf[job[q]] # StreamOf[job[p]]

\* Object i of Drive d is the folder of the stream of run r, the folder of run r in such a folder,
\* or a file in that.
StreamFolder(d, i, r) == i \in 1..Len(d) /\ d[i].parent = 0 /\ d[i].name = FolderName[StreamOf[r]]
RunFolder(d, i, r) == i \in 1..Len(d) /\ d[i].name = r /\ StreamFolder(d, d[i].parent, r)
FileOf(d, i, name, folder, r) ==
  i \in 1..Len(d) /\ d[i].name = name /\ d[i].parent = folder /\ RunFolder(d, folder, r)

InPlace(p) ==
  /\ up[p].level = 1 => up[p].parent = 0
  /\ up[p].level = 2 => StreamFolder(drive, up[p].parent, job[p])
  /\ up[p].level = 3 => RunFolder(drive, up[p].parent, job[p])

\* The answer of files.list stays true while the call goes on to its put: there is such an object,
\* or there is none except a folder made for another stream of that name.
Looked(p) ==
  \/ up[p].found = 0
     /\ \A i \in 1..Len(drive) :
          drive[i].name = Pack!Wanted(p).name /\ drive[i].parent = up[p].parent
            => up[p].level = 1 /\ Shared(StreamOf[job[p]])
  \/ up[p].found \in 1..Len(drive)
     /\ drive[up[p].found].name = Pack!Wanted(p).name /\ drive[up[p].found].parent = up[p].parent

KnownUpload(p) ==
  phase[p] = "upload" =>
    /\ up[p].file \in {"mp4", "metadata"}
    /\ IF job[p] \in Uploads THEN up[p].level \in 1..3 ELSE up[p].level = 0 /\ up[p].found = None
    /\ up[p].level > 0 => InPlace(p) /\ (up[p].found # None => Looked(p))

Uploading == \A p \in Pack!Packager : KnownUpload(p)

\* Two objects of one name in one folder are folders of streams of one name.
NoTwins ==
  \A i, j \in 1..Len(drive) :
    drive[i].name = drive[j].name /\ drive[i].parent = drive[j].parent =>
      \/ i = j
      \/ drive[i].parent = 0 /\ \E s \in Pack!Stream : Shared(s) /\ FolderName[s] = drive[i].name

DriveInv == CallTypes /\ DiskTypes /\ DriveTypes /\ LocksHeld /\ Uploading /\ NoTwins

Late == {"recordAll", "retain", "expire"}
HasVideoUp(p) ==
  phase[p] \in Late \cup {"record"} \/ (phase[p] = "upload" /\ up[p].file = "metadata")

\* What a call has uploaded.
VideoInDrive(p) ==
  /\ FileOf(drive, got[p].mp4, "mp4", got[p].folder, job[p])
  /\ p \notin touched => drive[got[p].mp4].content = made[p]

MetadataInDrive(p) ==
  /\ FileOf(drive, got[p].metadata, "metadata", got[p].folder, job[p])
  /\ drive[got[p].metadata].content.partial = made[p].partial
  /\ drive[got[p].metadata].content.ids.mp4 = got[p].mp4

NotDone(p) == phase[p] # "idle" => done[job[p]] = None
OwnVideo(p) == phase[p] \in VideoMade /\ p \notin touched => final[job[p]].mp4 \in {made[p], None}
NoIdsYet(p) == ~HasVideoUp(p) => got[p] = Pack!NoIds
OwnMetadata(p) ==
  phase[p] = "upload" /\ up[p].file = "metadata" => final[job[p]].meta \in {Pack!Described(p), None}

LocalKnown(p) == NotDone(p) /\ OwnVideo(p) /\ NoIdsYet(p) /\ OwnMetadata(p)

Uploaded(p) ==
  job[p] \in Uploads =>
    /\ HasVideoUp(p) => VideoInDrive(p)
    /\ phase[p] \in Late => MetadataInDrive(p)

Packaging == \A p \in Pack!Packager : LocalKnown(p) /\ Uploaded(p)

\* What was reported for a run.
KnownDone(r) ==
  r \in Uploads /\ done[r] # None =>
    LET ids == done[r].ids IN
      /\ FileOf(drive, ids.mp4, "mp4", ids.folder, r) /\ drive[ids.mp4].content = done[r].video
      /\ FileOf(drive, ids.metadata, "metadata", ids.folder, r)
      /\ drive[ids.metadata].content.partial = done[r].video.partial
      /\ drive[ids.metadata].content.ids.mp4 = ids.mp4

Completed == \A r \in Run : KnownDone(r)

PackageInv == DriveInv /\ Packaging /\ Completed

\* A call packages the recording its stream has now (CurrentOnly), ...
CurrentRecorded ==
  /\ DOMAIN recording = Pack!Stream
  /\ \A p \in Pack!Packager : phase[p] # "idle" =>
       recording[StreamOf[job[p]]] = [run |-> job[p], whole |-> TRUE]

\* ... so the videos in the directory of a run, and in its folder, are of that run.
OfRun(r, video) == video # None => video.run = r
OwnFiles ==
  \A r \in Run : OfRun(r, final[r].mp4) /\ OfRun(r, final[r].extra) /\ OfRun(r, final[r].temp)
OwnObjects ==
  \A i \in 1..Len(drive) : drive[i].name = "mp4" /\ drive[i].content # None =>
    \E r \in Run : drive[i].content.run = r /\ FileOf(drive, i, "mp4", drive[i].parent, r)

KeepInv == DriveInv /\ CurrentRecorded /\ OwnFiles /\ OwnObjects

\* The streams have names of their own in the Drive (safeDriveName).
DistinctNames == \A s, t \in Pack!Stream : FolderName[s] = FolderName[t] => s = t

\* Every step keeps the types of the calls ...
LEMMA CallTypesKept ==
  ASSUME CallTypes, [Pack!Next]_Pack!vars
  PROVE  CallTypes'
<1> USE DEF Pack!disk, Pack!callVars, Pack!history, CallTypes, Place, VideoMade, Pack!NoUpload,
     Pack!NoIds
<1>1. ASSUME NEW r \in Run,
             \/ Pack!StartRun(r) \/ Pack!Expires(r) \/ Pack!DeleteArtifact(r)
             \/ Pack!RenameChecks(r, "mp4", "extra")
             \/ Pack!RenameChecks(r, "extra", "mp4")
      PROVE  CallTypes'
  BY <1>1 DEF Pack!StartRun, Pack!Expires, Pack!DeleteArtifact, Pack!Changed, Pack!Touch,
       Pack!ArtifactRequest, Pack!RenameChecks
<1>2. ASSUME Pack!RenameMoves PROVE CallTypes'
  BY <1>2 DEF Pack!RenameMoves, Pack!Changed, Pack!Touch
<1>3. ASSUME NEW p \in Pack!Packager, NEW r \in Run,
             Pack!PackageBegins(p, r)
      PROVE  CallTypes'
  BY <1>3 DEF Pack!PackageBegins, Pack!Changed, Pack!Requested, Pack!LockFree
<1>4. ASSUME NEW p \in Pack!Packager,
             \/ Pack!RemuxEnds(p) \/ Pack!OldVideoRemoved(p)
             \/ Pack!NewVideoRenamed(p) \/ Pack!SidecarsCopied(p)
      PROVE  CallTypes'
  BY <1>4 DEF Pack!RemuxEnds, Pack!Changed, Pack!OldVideoRemoved, Pack!NewVideoRenamed,
       Pack!SidecarsCopied, Pack!NextUpload
<1>5. ASSUME NEW p \in Pack!Packager,
             \/ Pack!DriveFinds(p) \/ Pack!DrivePuts(p) \/ Pack!UploadRetried(p)
             \/ Pack!DryRunUploads(p)
      PROVE  CallTypes'
  BY <1>5 DEF Pack!DriveFinds, Pack!DrivePuts, Pack!UploadRetried, Pack!NextUpload,
       Pack!DryRunUploads
<1>6. ASSUME NEW p \in Pack!Packager, Pack!MetadataRecorded(p) PROVE CallTypes'
  BY <1>6 DEF Pack!MetadataRecorded, Pack!Changed, Pack!NextUpload, Pack!Described
<1>7. ASSUME NEW p \in Pack!Packager,
             Pack!DirectoryChecked(p) \/ Pack!DirectoryRemoved(p)
      PROVE  CallTypes'
  BY <1>7 DEF Pack!DirectoryChecked, Pack!DirectoryRemoved
<1>8. ASSUME NEW p \in Pack!Packager,
             \/ Pack!UploadFails(p) \/ Pack!PackageCompletes(p)
             \/ Pack!PackageFails(p)
      PROVE  CallTypes'
  BY <1>8 DEF Pack!UploadFails, Pack!Returned, Pack!PackageCompletes, Pack!PackageFails
<1>9. ASSUME NEW s \in Pack!Stream, Pack!RunEnds(s) PROVE CallTypes'
  BY <1>9 DEF Pack!RunEnds
<1>10. ASSUME Pack!Crash \/ UNCHANGED Pack!vars PROVE CallTypes'
  BY <1>10 DEF Pack!Crash, Pack!vars
<1> QED BY <1>1, <1>2, <1>3, <1>4, <1>5, <1>6, <1>7, <1>8, <1>9, <1>10 DEF Pack!Next,
     Pack!PackageStep

\* ... and of the files; a rename is between the two names a video may have.
LEMMA DiskTypesKept ==
  ASSUME CallTypes, LocksHeld, DiskTypes, [Pack!Next]_Pack!vars
  PROVE  DiskTypes'
<1> USE DEF Pack!disk, Pack!callVars, Pack!history, CallTypes, LocksHeld, DiskTypes, Pack!NoDir,
     Place, VideoMade
<1>1. ASSUME NEW r \in Run,
             Pack!StartRun(r) \/ Pack!Expires(r) \/ Pack!DeleteArtifact(r)
      PROVE  DiskTypes'
  BY <1>1 DEF Pack!StartRun, Pack!Expires, Pack!DeleteArtifact, Pack!Changed, Pack!Touch,
       Pack!ArtifactRequest
<1>2. ASSUME NEW r \in Run,
             \/ Pack!RenameChecks(r, "mp4", "extra")
             \/ Pack!RenameChecks(r, "extra", "mp4")
      PROVE  DiskTypes'
  BY <1>2 DEF Pack!RenameChecks, Pack!ArtifactRequest
<1>3. ASSUME Pack!RenameMoves PROVE DiskTypes'
  BY <1>3 DEF Pack!RenameMoves, Pack!Changed, Pack!Touch
<1>4. ASSUME NEW p \in Pack!Packager, NEW r \in Run,
             Pack!PackageBegins(p, r)
      PROVE  DiskTypes'
  BY <1>4 DEF Pack!PackageBegins, Pack!Changed, Pack!Requested, Pack!LockFree
<1>5. ASSUME NEW p \in Pack!Packager,
             \/ Pack!RemuxEnds(p) \/ Pack!OldVideoRemoved(p)
             \/ Pack!NewVideoRenamed(p) \/ Pack!SidecarsCopied(p)
      PROVE  DiskTypes'
  BY <1>5 DEF Pack!RemuxEnds, Pack!Changed, Pack!OldVideoRemoved, Pack!NewVideoRenamed,
       Pack!SidecarsCopied, Pack!NextUpload
<1>6. ASSUME NEW p \in Pack!Packager,
             \/ Pack!DriveFinds(p) \/ Pack!DrivePuts(p) \/ Pack!UploadRetried(p)
             \/ Pack!DryRunUploads(p)
      PROVE  DiskTypes'
  BY <1>6 DEF Pack!DriveFinds, Pack!DrivePuts, Pack!UploadRetried, Pack!NextUpload,
       Pack!DryRunUploads
<1>7. ASSUME NEW p \in Pack!Packager, Pack!MetadataRecorded(p) PROVE DiskTypes'
  BY <1>7 DEF Pack!MetadataRecorded, Pack!Changed, Pack!NextUpload, Pack!Described
<1>8. ASSUME NEW p \in Pack!Packager,
             Pack!DirectoryChecked(p) \/ Pack!DirectoryRemoved(p)
      PROVE  DiskTypes'
  BY <1>8 DEF Pack!DirectoryChecked, Pack!DirectoryRemoved
<1>9. ASSUME NEW p \in Pack!Packager,
             \/ Pack!UploadFails(p) \/ Pack!PackageCompletes(p)
             \/ Pack!PackageFails(p)
      PROVE  DiskTypes'
  BY <1>9 DEF Pack!UploadFails, Pack!Returned, Pack!PackageCompletes, Pack!PackageFails
<1>10. ASSUME NEW s \in Pack!Stream, Pack!RunEnds(s) PROVE DiskTypes'
  BY <1>10 DEF Pack!RunEnds
<1>11. ASSUME Pack!Crash \/ UNCHANGED Pack!vars PROVE DiskTypes'
  BY <1>11 DEF Pack!Crash, Pack!vars
<1> QED BY <1>1, <1>2, <1>3, <1>4, <1>5, <1>6, <1>7, <1>8, <1>9, <1>10, <1>11 DEF Pack!Next,
     Pack!PackageStep

\* packageLocks: two calls under way are for two streams, also after a crash, which ends them all.
LEMMA LocksKept ==
  ASSUME CallTypes, LocksHeld, [Pack!Next]_Pack!vars
  PROVE  LocksHeld'
<1> USE DEF Pack!disk, Pack!callVars, Pack!history, CallTypes, LocksHeld, Place, VideoMade
<1>1. ASSUME NEW r \in Run,
             \/ Pack!StartRun(r) \/ Pack!Expires(r) \/ Pack!DeleteArtifact(r)
             \/ Pack!RenameChecks(r, "mp4", "extra")
             \/ Pack!RenameChecks(r, "extra", "mp4")
      PROVE  LocksHeld'
  BY <1>1 DEF Pack!StartRun, Pack!Expires, Pack!DeleteArtifact, Pack!Changed, Pack!Touch,
       Pack!ArtifactRequest, Pack!RenameChecks
<1>2. ASSUME Pack!RenameMoves PROVE LocksHeld'
  BY <1>2 DEF Pack!RenameMoves, Pack!Changed, Pack!Touch
<1>3. ASSUME NEW p \in Pack!Packager, NEW r \in Run,
             Pack!PackageBegins(p, r)
      PROVE  LocksHeld'
  BY <1>3 DEF Pack!PackageBegins, Pack!Changed, Pack!Requested, Pack!LockFree
<1>4. ASSUME NEW p \in Pack!Packager,
             \/ Pack!RemuxEnds(p) \/ Pack!OldVideoRemoved(p)
             \/ Pack!NewVideoRenamed(p) \/ Pack!SidecarsCopied(p)
      PROVE  LocksHeld'
  BY <1>4 DEF Pack!RemuxEnds, Pack!Changed, Pack!OldVideoRemoved, Pack!NewVideoRenamed,
       Pack!SidecarsCopied, Pack!NextUpload
<1>5. ASSUME NEW p \in Pack!Packager,
             \/ Pack!DriveFinds(p) \/ Pack!DrivePuts(p) \/ Pack!UploadRetried(p)
             \/ Pack!DryRunUploads(p)
      PROVE  LocksHeld'
  BY <1>5 DEF Pack!DriveFinds, Pack!DrivePuts, Pack!UploadRetried, Pack!NextUpload,
       Pack!DryRunUploads
<1>6. ASSUME NEW p \in Pack!Packager, Pack!MetadataRecorded(p) PROVE LocksHeld'
  BY <1>6 DEF Pack!MetadataRecorded, Pack!Changed, Pack!NextUpload, Pack!Described
<1>7. ASSUME NEW p \in Pack!Packager,
             Pack!DirectoryChecked(p) \/ Pack!DirectoryRemoved(p)
      PROVE  LocksHeld'
  BY <1>7 DEF Pack!DirectoryChecked, Pack!DirectoryRemoved
<1>8. ASSUME NEW p \in Pack!Packager,
             \/ Pack!UploadFails(p) \/ Pack!PackageCompletes(p)
             \/ Pack!PackageFails(p)
      PROVE  LocksHeld'
  BY <1>8 DEF Pack!UploadFails, Pack!Returned, Pack!PackageCompletes, Pack!PackageFails
<1>9. ASSUME NEW s \in Pack!Stream, Pack!RunEnds(s) PROVE LocksHeld'
  BY <1>9 DEF Pack!RunEnds
<1>10. ASSUME Pack!Crash \/ UNCHANGED Pack!vars PROVE LocksHeld'
  BY <1>10 DEF Pack!Crash, Pack!vars
<1> QED BY <1>1, <1>2, <1>3, <1>4, <1>5, <1>6, <1>7, <1>8, <1>9, <1>10 DEF Pack!Next,
     Pack!PackageStep

\* A request to create or update takes effect.
Puts(p) ==
  /\ phase[p] = "upload" /\ up[p].level > 0 /\ up[p].found # None /\ Pack!FileReadable(p)
  /\ drive' = Pack!DriveAfterPut(p)

\* Objects keep their names and their folders.
Grows ==
  \A i \in 1..Len(drive) :
    i \in 1..Len(drive') /\ drive'[i].name = drive[i].name /\ drive'[i].parent = drive[i].parent

\* Sequences, as far as they are needed here: one more object ...
LEMMA Appended ==
  ASSUME NEW d, IsSeq(d), NEW x
  PROVE  LET e == Append(d, x) IN
           /\ Len(e) = Len(d) + 1 /\ e[Len(e)] = x /\ \A i \in 1..Len(d) : e[i] = d[i]
           /\ IsSeq(e)
<1> DEFINE e == Append(d, x)
           S == {d[i] : i \in 1..Len(d)} \cup {x}
<1>1. d \in Seq(S)
  BY DEF IsSeq
<1>2. Len(d) \in Nat /\ Len(e) = Len(d) + 1 /\ e[Len(e)] = x /\ \A i \in 1..Len(d) : e[i] = d[i]
  BY <1>1
<1>3. e \in Seq(S)
  BY <1>1
<1>4. IsSeq(e)
  <2> DEFINE T == {e[i] : i \in 1..Len(e)}
  <2> HIDE DEF e, S
  <2>1. Len(e) \in Nat /\ DOMAIN e = 1..Len(e) /\ e = [i \in 1..Len(e) |-> e[i]]
    BY <1>3
  <2>2. \A i \in 1..Len(e) : e[i] \in T
    OBVIOUS
  <2> HIDE DEF T
  <2>3. e \in [1..Len(e) -> T]
    BY <2>1, <2>2
  <2>4. e \in Seq(T)
    BY <2>1, <2>3
  <2> QED BY <2>4 DEF IsSeq, T
<1> QED BY <1>2, <1>4

\* ... and one object changed.
LEMMA Replaced ==
  ASSUME NEW d, IsSeq(d), NEW k \in 1..Len(d), NEW x
  PROVE  LET e == [d EXCEPT ![k] = x] IN
           /\ Len(e) = Len(d) /\ e[k] = x /\ \A i \in 1..Len(d) : i # k => e[i] = d[i]
           /\ IsSeq(e)
<1> DEFINE e == [d EXCEPT ![k] = x]
           S == {d[i] : i \in 1..Len(d)} \cup {x}
<1>1. d \in Seq(S)
  BY DEF IsSeq
<1>2. Len(e) = Len(d) /\ e[k] = x /\ \A i \in 1..Len(d) : i # k => e[i] = d[i]
  BY <1>1
<1>3. e \in Seq(S)
  BY <1>1
<1>4. IsSeq(e)
  <2> DEFINE T == {e[i] : i \in 1..Len(e)}
  <2> HIDE DEF e, S
  <2>1. Len(e) \in Nat /\ DOMAIN e = 1..Len(e) /\ e = [i \in 1..Len(e) |-> e[i]]
    BY <1>3
  <2>2. \A i \in 1..Len(e) : e[i] \in T
    OBVIOUS
  <2> HIDE DEF T
  <2>3. e \in [1..Len(e) -> T]
    BY <2>1, <2>2
  <2>4. e \in Seq(T)
    BY <2>1, <2>3
  <2> QED BY <2>4 DEF IsSeq, T
<1> QED BY <1>2, <1>4

\* What a create or update does to the Drive, answered or not.
LEMMA PutEffect ==
  ASSUME DriveTypes, NEW p \in Pack!Packager, KnownUpload(p), Puts(p)
  PROVE  /\ DriveTypes' /\ Grows
         /\ Pack!IdAfterPut(p) \in 1..Len(drive')
         /\ drive'[Pack!IdAfterPut(p)].name = Pack!Wanted(p).name
         /\ drive'[Pack!IdAfterPut(p)].parent = up[p].parent
         /\ drive'[Pack!IdAfterPut(p)].content = Pack!Content(p)
         /\ \A i \in 1..Len(drive') : i # Pack!IdAfterPut(p) =>
              i \in 1..Len(drive) /\ drive'[i] = drive[i]
<1> DEFINE new == [name |-> Pack!Wanted(p).name, parent |-> up[p].parent,
             content |-> Pack!Content(p)]
<1>1. /\ up[p].parent \in Nat /\ (up[p].found = 0 \/ up[p].found \in 1..Len(drive))
      /\ up[p].found # 0 => /\ drive[up[p].found].name = Pack!Wanted(p).name
                            /\ drive[up[p].found].parent = up[p].parent
      /\ Len(drive) \in Nat
  <2>1. KnownUpload(p) /\ phase[p] = "upload" /\ up[p].level > 0 /\ up[p].found # None
    BY DEF Puts
  <2>2. up[p].level \in 1..3 /\ InPlace(p) /\ Looked(p)
    BY <2>1 DEF KnownUpload
  <2> QED BY <2>2 DEF InPlace, StreamFolder, RunFolder, Looked, DriveTypes
<1>2. /\ new.parent \in Nat
      /\ new = [name |-> new.name, parent |-> new.parent, content |-> new.content]
  BY <1>1
<1>3. CASE up[p].found = 0
  <2>1. drive' = Append(drive, new) /\ Pack!IdAfterPut(p) = Len(drive) + 1
    BY <1>3 DEF Puts, Pack!DriveAfterPut, Pack!IdAfterPut
  <2> HIDE DEF new
  <2>2. /\ Len(drive') = Len(drive) + 1 /\ drive'[Len(drive')] = new
        /\ \A i \in 1..Len(drive) : drive'[i] = drive[i]
        /\ IsSeq(drive')
    BY <2>1, Appended DEF DriveTypes
  <2>3. \A i \in 1..Len(drive') : i # Len(drive') => i \in 1..Len(drive)
    BY <2>2, <1>1
  <2>4. DriveTypes'
    BY <2>2, <2>3, <1>2, <1>1 DEF DriveTypes
  <2>5. Grows
    BY <2>2, <1>1 DEF Grows
  <2>6. Pack!IdAfterPut(p) \in 1..Len(drive') /\ drive'[Pack!IdAfterPut(p)] = new
    BY <2>1, <2>2, <1>1
  <2> QED BY <2>1, <2>2, <2>3, <2>4, <2>5, <2>6, <1>1 DEF new
<1>4. CASE up[p].found \in 1..Len(drive)
  <2> DEFINE k == up[p].found
             y == [drive[k] EXCEPT !.content = Pack!Content(p)]
  <2>1. drive' = [drive EXCEPT ![k] = y] /\ Pack!IdAfterPut(p) = k
    BY <1>4, <1>1 DEF Puts, Pack!DriveAfterPut, Pack!IdAfterPut
  <2>2. /\ y = [name |-> y.name, parent |-> y.parent, content |-> y.content]
        /\ y.name = drive[k].name /\ y.parent = drive[k].parent /\ y.content = Pack!Content(p)
    <3>1. drive[k] = [name |-> drive[k].name, parent |-> drive[k].parent,
            content |-> drive[k].content]
      BY <1>4 DEF DriveTypes
    <3>2. y = [name |-> drive[k].name, parent |-> drive[k].parent, content |-> Pack!Content(p)]
      BY <3>1
    <3> QED BY <3>2
  <2> HIDE DEF y
  <2>3. /\ Len(drive') = Len(drive) /\ drive'[k] = y
        /\ \A i \in 1..Len(drive) : i # k => drive'[i] = drive[i]
        /\ IsSeq(drive')
    <3> DEFINE e == [drive EXCEPT ![k] = y]
    <3>1. IsSeq(drive) /\ k \in 1..Len(drive)
      BY <1>4 DEF DriveTypes
    <3> HIDE DEF k
    <3>2. /\ Len(e) = Len(drive) /\ e[k] = y /\ \A i \in 1..Len(drive) : i # k => e[i] = drive[i]
          /\ IsSeq(e)
      BY <3>1, Replaced
    <3> QED BY <2>1, <3>2
  <2>4. DriveTypes'
    BY <2>2, <2>3, <1>4 DEF DriveTypes
  <2>5. Grows
    BY <2>2, <2>3, <1>4 DEF Grows
  <2> QED BY <2>1, <2>2, <2>3, <2>4, <2>5, <1>1, <1>4
<1> QED BY <1>1, <1>3, <1>4

\* Nothing is moved or renamed, so what is in a folder stays there.
LEMMA FoldersStay ==
  ASSUME DriveTypes, Grows, NEW i, NEW r, NEW name, NEW folder
  PROVE  /\ StreamFolder(drive, i, r) => StreamFolder(drive', i, r)
         /\ RunFolder(drive, i, r) => RunFolder(drive', i, r)
         /\ FileOf(drive, i, name, folder, r) => FileOf(drive', i, name, folder, r)
  BY DEF Grows, StreamFolder, RunFolder, FileOf

\* Two calls never look for one object, unless their streams have one name.
LEMMA Apart ==
  ASSUME LocksHeld, DriveTypes, NEW p \in Pack!Packager, NEW q \in Pack!Packager, p # q,
         phase[p] = "upload", phase[q] = "upload", KnownUpload(p), KnownUpload(q),
         up[p].level > 0, up[q].level > 0,
         Pack!Wanted(p).name = Pack!Wanted(q).name, up[p].parent = up[q].parent
  PROVE  up[p].level = 1 /\ up[q].level = 1 /\ Shared(StreamOf[job[p]]) /\ Shared(StreamOf[job[q]])
<1>1. /\ up[p].level \in 1..3 /\ up[q].level \in 1..3 /\ InPlace(p) /\ InPlace(q)
  BY DEF KnownUpload
<1>2. /\ job[p] \in Run /\ job[q] \in Run /\ StreamOf[job[p]] # StreamOf[job[q]]
      /\ StreamOf[job[p]] \in Pack!Stream /\ StreamOf[job[q]] \in Pack!Stream
  BY DEF LocksHeld, Pack!Stream
<1>3. up[p].level = up[q].level
  BY <1>1 DEF InPlace, StreamFolder, RunFolder, DriveTypes
<1>4. up[p].level = 1
  BY <1>1, <1>2, <1>3 DEF InPlace, StreamFolder, RunFolder, Pack!Wanted
<1> QED BY <1>2, <1>3, <1>4 DEF Pack!Wanted, Shared

\* Only a put changes the Drive.
LEMMA DriveStep ==
  ASSUME CallTypes, Uploading, [Pack!Next]_Pack!vars
  PROVE  UNCHANGED drive \/ \E p \in Pack!Packager : Puts(p)
<1> DEFINE Goal == UNCHANGED drive \/ \E p \in Pack!Packager : Puts(p)
<1> USE DEF Pack!disk, Pack!callVars, Pack!history, CallTypes, Place, VideoMade, Puts, Uploading,
     KnownUpload
<1>1. ASSUME NEW r \in Run,
             \/ Pack!StartRun(r) \/ Pack!Expires(r) \/ Pack!DeleteArtifact(r)
             \/ Pack!RenameChecks(r, "mp4", "extra")
             \/ Pack!RenameChecks(r, "extra", "mp4")
      PROVE  Goal
  BY <1>1 DEF Pack!StartRun, Pack!Expires, Pack!DeleteArtifact, Pack!Changed, Pack!Touch,
       Pack!ArtifactRequest, Pack!RenameChecks
<1>2. ASSUME Pack!RenameMoves PROVE Goal
  BY <1>2 DEF Pack!RenameMoves, Pack!Changed, Pack!Touch
<1>3. ASSUME NEW p \in Pack!Packager, NEW r \in Run, Pack!PackageBegins(p, r) PROVE Goal
  BY <1>3 DEF Pack!PackageBegins, Pack!Changed, Pack!Requested, Pack!LockFree
<1>4. ASSUME NEW p \in Pack!Packager,
             \/ Pack!RemuxEnds(p) \/ Pack!OldVideoRemoved(p)
             \/ Pack!NewVideoRenamed(p) \/ Pack!SidecarsCopied(p)
      PROVE  Goal
  BY <1>4 DEF Pack!RemuxEnds, Pack!Changed, Pack!OldVideoRemoved, Pack!NewVideoRenamed,
       Pack!SidecarsCopied, Pack!NextUpload
<1>5. ASSUME NEW p \in Pack!Packager,
             \/ Pack!DriveFinds(p) \/ Pack!DrivePuts(p) \/ Pack!UploadRetried(p)
             \/ Pack!DryRunUploads(p)
      PROVE  Goal
  BY <1>5 DEF Pack!DriveFinds, Pack!DrivePuts, Pack!UploadRetried, Pack!NextUpload,
       Pack!DryRunUploads
<1>6. ASSUME NEW p \in Pack!Packager, Pack!MetadataRecorded(p) PROVE Goal
  BY <1>6 DEF Pack!MetadataRecorded, Pack!Changed, Pack!NextUpload, Pack!Described
<1>7. ASSUME NEW p \in Pack!Packager,
             Pack!DirectoryChecked(p) \/ Pack!DirectoryRemoved(p)
      PROVE  Goal
  BY <1>7 DEF Pack!DirectoryChecked, Pack!DirectoryRemoved
<1>8. ASSUME NEW p \in Pack!Packager,
             \/ Pack!UploadFails(p) \/ Pack!PackageCompletes(p)
             \/ Pack!PackageFails(p)
      PROVE  Goal
  BY <1>8 DEF Pack!UploadFails, Pack!Returned, Pack!PackageCompletes, Pack!PackageFails
<1>9. ASSUME NEW s \in Pack!Stream, Pack!RunEnds(s) PROVE Goal
  BY <1>9 DEF Pack!RunEnds
<1>10. ASSUME Pack!Crash \/ UNCHANGED Pack!vars PROVE Goal
  BY <1>10 DEF Pack!Crash, Pack!vars
<1> QED BY <1>1, <1>2, <1>3, <1>4, <1>5, <1>6, <1>7, <1>8, <1>9, <1>10 DEF Pack!Next,
     Pack!PackageStep

\* The steps of a call after which it uploads.
UploadBegins(q) ==
  Pack!SidecarsCopied(q) \/ Pack!MetadataRecorded(q) \/ Pack!DriveFinds(q) \/ Pack!DrivePuts(q) \/
    Pack!UploadRetried(q)

\* The call has not moved, and the Drive may have changed.
OthersUpload(q) ==
  /\ phase[q] = "upload" /\ up'[q] = up[q] /\ job'[q] = job[q]
  /\ UNCHANGED drive \/ \E p \in Pack!Packager : p # q /\ Puts(p)

\* A call that uploads was doing the same before, or has just taken the step that brought it here.
LEMMA UploadStep ==
  ASSUME CallTypes, Uploading, NEW q \in Pack!Packager, [Pack!Next]_Pack!vars
  PROVE  phase'[q] = "upload" => OthersUpload(q) \/ UploadBegins(q)
<1> DEFINE Goal == phase'[q] = "upload" => OthersUpload(q) \/ UploadBegins(q)
<1> USE DEF Pack!disk, Pack!callVars, Pack!history, CallTypes, Place, VideoMade, Puts, Uploading,
     KnownUpload, OthersUpload, UploadBegins
<1>1. ASSUME NEW r \in Run,
             \/ Pack!StartRun(r) \/ Pack!Expires(r) \/ Pack!DeleteArtifact(r)
             \/ Pack!RenameChecks(r, "mp4", "extra")
             \/ Pack!RenameChecks(r, "extra", "mp4")
      PROVE  Goal
  BY <1>1 DEF Pack!StartRun, Pack!Expires, Pack!DeleteArtifact, Pack!Changed, Pack!Touch,
       Pack!ArtifactRequest, Pack!RenameChecks
<1>2. ASSUME Pack!RenameMoves PROVE Goal
  BY <1>2 DEF Pack!RenameMoves, Pack!Changed, Pack!Touch
<1>3. ASSUME NEW p \in Pack!Packager, NEW r \in Run, Pack!PackageBegins(p, r) PROVE Goal
  BY <1>3 DEF Pack!PackageBegins, Pack!Changed, Pack!Requested, Pack!LockFree
<1>4. ASSUME NEW p \in Pack!Packager,
             \/ Pack!RemuxEnds(p) \/ Pack!OldVideoRemoved(p)
             \/ Pack!NewVideoRenamed(p) \/ Pack!SidecarsCopied(p)
      PROVE  Goal
  BY <1>4 DEF Pack!RemuxEnds, Pack!Changed, Pack!OldVideoRemoved, Pack!NewVideoRenamed,
       Pack!SidecarsCopied, Pack!NextUpload
<1>5. ASSUME NEW p \in Pack!Packager,
             \/ Pack!DriveFinds(p) \/ Pack!DrivePuts(p) \/ Pack!UploadRetried(p)
             \/ Pack!DryRunUploads(p)
      PROVE  Goal
  BY <1>5 DEF Pack!DriveFinds, Pack!DrivePuts, Pack!UploadRetried, Pack!NextUpload,
       Pack!DryRunUploads
<1>6. ASSUME NEW p \in Pack!Packager, Pack!MetadataRecorded(p) PROVE Goal
  BY <1>6 DEF Pack!MetadataRecorded, Pack!Changed, Pack!NextUpload, Pack!Described
<1>7. ASSUME NEW p \in Pack!Packager,
             Pack!DirectoryChecked(p) \/ Pack!DirectoryRemoved(p)
      PROVE  Goal
  BY <1>7 DEF Pack!DirectoryChecked, Pack!DirectoryRemoved
<1>8. ASSUME NEW p \in Pack!Packager,
             \/ Pack!UploadFails(p) \/ Pack!PackageCompletes(p)
             \/ Pack!PackageFails(p)
      PROVE  Goal
  BY <1>8 DEF Pack!UploadFails, Pack!Returned, Pack!PackageCompletes, Pack!PackageFails
<1>9. ASSUME NEW s \in Pack!Stream, Pack!RunEnds(s) PROVE Goal
  BY <1>9 DEF Pack!RunEnds
<1>10. ASSUME Pack!Crash \/ UNCHANGED Pack!vars PROVE Goal
  BY <1>10 DEF Pack!Crash, Pack!vars
<1> QED BY <1>1, <1>2, <1>3, <1>4, <1>5, <1>6, <1>7, <1>8, <1>9, <1>10 DEF Pack!Next,
     Pack!PackageStep

\* What another call puts is not what this one has looked for.
LEMMA UploadingKept ==
  ASSUME DriveInv, [Pack!Next]_Pack!vars, NEW q \in Pack!Packager
  PROVE  KnownUpload(q)'
<1> USE DEF DriveInv
<1> SUFFICES ASSUME phase'[q] = "upload" PROVE KnownUpload(q)'
  BY DEF KnownUpload
<1>1. ASSUME phase[q] = "upload", up'[q] = up[q], job'[q] = job[q], UNCHANGED drive
      PROVE  KnownUpload(q)'
  BY <1>1 DEF Uploading, KnownUpload, InPlace, Looked, Pack!Wanted, StreamFolder, RunFolder
<1>2. ASSUME phase[q] = "upload", up'[q] = up[q], job'[q] = job[q],
             NEW p \in Pack!Packager, p # q, Puts(p)
      PROVE  KnownUpload(q)'
  <2>1. KnownUpload(p) /\ KnownUpload(q)
    BY DEF Uploading
  <2>2. /\ Grows /\ Pack!IdAfterPut(p) \in 1..Len(drive')
        /\ drive'[Pack!IdAfterPut(p)].name = Pack!Wanted(p).name
        /\ drive'[Pack!IdAfterPut(p)].parent = up[p].parent
        /\ \A i \in 1..Len(drive') : i # Pack!IdAfterPut(p) => i \in 1..Len(drive)
    BY <1>2, <2>1, PutEffect
  <2> SUFFICES ASSUME up[q].level > 0 PROVE InPlace(q)' /\ (up[q].found # None => Looked(q)')
    BY <1>2, <2>1 DEF KnownUpload
  <2>3. InPlace(q) /\ (up[q].found # None => Looked(q))
    BY <1>2, <2>1 DEF KnownUpload
  <2>4. InPlace(q)'
    BY <1>2, <2>2, <2>3, FoldersStay DEF InPlace
  <2>5. Pack!Wanted(q)' = Pack!Wanted(q)
    BY <1>2 DEF Pack!Wanted
  <2>6. ASSUME up[q].found = 0, Looked(q), NEW i \in 1..Len(drive'),
               drive'[i].name = Pack!Wanted(q).name, drive'[i].parent = up[q].parent
        PROVE  up[q].level = 1 /\ Shared(StreamOf[job[q]])
    <3>1. CASE i = Pack!IdAfterPut(p)
      <4>1. phase[p] = "upload" /\ up[p].level > 0
        BY <1>2 DEF Puts
      <4> QED BY <1>2, <2>1, <2>2, <2>6, <3>1, <4>1, Apart
    <3>2. CASE i # Pack!IdAfterPut(p)
      BY <2>2, <2>6, <3>2 DEF Grows, Looked, DriveTypes
    <3> QED BY <3>1, <3>2
  <2>7. ASSUME up[q].found # None PROVE Looked(q)'
    <3>1. CASE up[q].found = 0
      BY <1>2, <2>3, <2>5, <2>6, <2>7, <3>1 DEF Looked
    <3>2. CASE up[q].found # 0
      BY <1>2, <2>2, <2>3, <2>5, <2>7, <3>2 DEF Looked, Grows
    <3> QED BY <3>1, <3>2
  <2> QED BY <2>4, <2>7
<1>3. CASE Pack!SidecarsCopied(q) \/ Pack!MetadataRecorded(q) \/ Pack!UploadRetried(q)
  <2>1. \E f \in {"mp4", "metadata"} : \E a :
          up'[q] = [Pack!NextUpload(q, f) EXCEPT !.attempt = a]
    <3> USE DEF CallTypes, Pack!NextUpload, Pack!NoUpload
    <3>1. CASE Pack!SidecarsCopied(q)
      BY <3>1 DEF Pack!SidecarsCopied
    <3>2. CASE Pack!MetadataRecorded(q)
      <4>1. phase[q] = "record"
        BY <3>2 DEF Pack!MetadataRecorded
      <4>2. up' = [up EXCEPT ![q] = Pack!NextUpload(q, "metadata")]
        BY <3>2, <4>1 DEF Pack!MetadataRecorded
      <4>3. up'[q] = Pack!NextUpload(q, "metadata")
        BY <4>2
      <4>4. Pack!NextUpload(q, "metadata") = [Pack!NextUpload(q, "metadata") EXCEPT !.attempt = 1]
        OBVIOUS
      <4> QED BY <4>3, <4>4
    <3>3. CASE Pack!UploadRetried(q)
      BY <3>3 DEF Pack!UploadRetried, Uploading, KnownUpload
    <3> QED BY <1>3, <3>1, <3>2, <3>3
  <2>2. job' = job
    BY <1>3 DEF Pack!SidecarsCopied, Pack!MetadataRecorded, Pack!UploadRetried
  <2> QED BY <2>1, <2>2 DEF Pack!NextUpload, Pack!NoUpload, KnownUpload, InPlace
<1>4. CASE Pack!DriveFinds(q)
  <2>1. /\ phase[q] = "upload" /\ up[q].level > 0 /\ UNCHANGED <<drive, job>>
        /\ \E i \in IF Pack!Matches(q) = {} THEN {0} ELSE Pack!Matches(q) : up' = [up EXCEPT
             ![q].found = i]
    BY <1>4 DEF Pack!DriveFinds
  <2>2. PICK i \in IF Pack!Matches(q) = {} THEN {0} ELSE Pack!Matches(q) : up' = [up EXCEPT
               ![q].found = i]
    BY <2>1
  <2>3. /\ up'[q].file = up[q].file /\ up'[q].level = up[q].level /\ up'[q].parent = up[q].parent
        /\ up'[q].found = i
    BY <2>2 DEF CallTypes
  <2>4. Pack!Wanted(q)' = Pack!Wanted(q)
    BY <2>1, <2>3 DEF Pack!Wanted
  <2>5. InPlace(q) /\ InPlace(q)'
    BY <2>1, <2>3 DEF Uploading, KnownUpload, InPlace, StreamFolder, RunFolder
  <2>6. Looked(q)'
    BY <2>1, <2>2, <2>3, <2>4 DEF Looked, Pack!Matches, Pack!Wanted
  <2> QED BY <2>1, <2>3, <2>5, <2>6 DEF Uploading, KnownUpload
<1>5. CASE Pack!DrivePuts(q)
  <2>1. Puts(q) /\ KnownUpload(q) /\ UNCHANGED job
    BY <1>5 DEF Pack!DrivePuts, Puts, Uploading
  <2>2. /\ up[q].level < 3
        /\ up' = [up EXCEPT ![q].level = @ + 1, ![q].parent = Pack!IdAfterPut(q), ![q].found = None]
    BY <1>5 DEF Pack!DrivePuts, CallTypes, Place, VideoMade
  <2>3. /\ up'[q].file = up[q].file /\ up'[q].level = up[q].level + 1
        /\ up'[q].parent = Pack!IdAfterPut(q) /\ up'[q].found = None
    BY <2>2 DEF CallTypes
  <2>4. up[q].level \in 1..3 /\ InPlace(q) /\ job[q] \in Uploads /\
          up[q].file \in {"mp4", "metadata"}
    BY <2>1 DEF KnownUpload, Puts
  <2>5. /\ Grows /\ Pack!IdAfterPut(q) \in 1..Len(drive')
        /\ drive'[Pack!IdAfterPut(q)].name = Pack!Wanted(q).name
        /\ drive'[Pack!IdAfterPut(q)].parent = up[q].parent
    BY <2>1, PutEffect
  <2>6. CASE up[q].level = 1
    <3>1. StreamFolder(drive', Pack!IdAfterPut(q), job[q])
      BY <2>1, <2>4, <2>5, <2>6 DEF StreamFolder, InPlace, Pack!Wanted, Puts, Pack!IdAfterPut
    <3> QED BY <2>1, <2>3, <2>4, <2>6, <3>1 DEF KnownUpload, InPlace, StreamFolder
  <2>7. CASE up[q].level = 2
    <3>1. StreamFolder(drive, up[q].parent, job[q]) /\ StreamFolder(drive', up[q].parent, job[q])
      BY <2>1, <2>4, <2>5, <2>7, FoldersStay DEF InPlace
    <3>2. RunFolder(drive', up'[q].parent, job'[q])
      BY <2>1, <2>3, <2>5, <2>7, <3>1 DEF RunFolder, StreamFolder, Pack!Wanted
    <3> QED BY <2>1, <2>3, <2>4, <2>7, <3>2 DEF KnownUpload, InPlace, RunFolder, StreamFolder
  <2> QED BY <2>2, <2>4, <2>6, <2>7
<1> QED BY <1>1, <1>2, <1>3, <1>4, <1>5, UploadStep DEF OthersUpload, UploadBegins

\* So an object is created only if there was none, or the stream shares its name.
LEMMA TwinsKept == ASSUME DriveInv, [Pack!Next]_Pack!vars PROVE NoTwins'
<1> USE DEF DriveInv
<1>1. CASE UNCHANGED drive
  BY <1>1 DEF NoTwins
<1>2. ASSUME NEW p \in Pack!Packager, Puts(p) PROVE NoTwins'
  <2> DEFINE k == Pack!IdAfterPut(p)
  <2>1. KnownUpload(p) /\ up[p].level \in 1..3 /\ InPlace(p) /\ Looked(p) /\ job[p] \in Run
    BY <1>2 DEF Uploading, KnownUpload, Puts, LocksHeld
  <2>2. /\ Grows /\ k \in 1..Len(drive')
        /\ drive'[k].name = Pack!Wanted(p).name /\ drive'[k].parent = up[p].parent
        /\ \A i \in 1..Len(drive') : i # k => i \in 1..Len(drive) /\ drive'[i] = drive[i]
    BY <1>2, <2>1, PutEffect
  <2>3. ASSUME NEW i \in 1..Len(drive'), i # k,
               drive'[i].name = drive'[k].name, drive'[i].parent = drive'[k].parent
        PROVE  /\ drive'[i].parent = 0
               /\ \E s \in Pack!Stream : Shared(s) /\ FolderName[s] = drive'[i].name
    <3>1. i \in 1..Len(drive) /\ drive[i].name = Pack!Wanted(p).name /\
            drive[i].parent = up[p].parent
      BY <2>2, <2>3
    <3>2. CASE up[p].found = 0
      BY <2>1, <2>3, <2>2, <3>1, <3>2 DEF Looked, InPlace, Pack!Wanted, Pack!Stream
    <3>3. CASE up[p].found # 0
      <4>1. k \in 1..Len(drive) /\ drive[k].name = drive[i].name /\
              drive[k].parent = drive[i].parent
        BY <2>1, <3>1, <3>3 DEF Looked, Pack!IdAfterPut
      <4> QED BY <2>2, <2>3, <3>1, <4>1 DEF NoTwins
    <3> QED BY <3>2, <3>3
  <2> HIDE DEF k
  <2>4. SUFFICES ASSUME NEW i \in 1..Len(drive'), NEW j \in 1..Len(drive'), i # j,
                        drive'[i].name = drive'[j].name, drive'[i].parent = drive'[j].parent
                 PROVE  /\ drive'[i].parent = 0
                        /\ \E s \in Pack!Stream : Shared(s) /\ FolderName[s] = drive'[i].name
    BY DEF NoTwins
  <2>5. CASE i = k \/ j = k
    BY <2>3, <2>4, <2>5
  <2>6. CASE i # k /\ j # k
    BY <2>2, <2>4, <2>6 DEF NoTwins
  <2> QED BY <2>5, <2>6
<1> QED BY <1>1, <1>2, DriveStep

LEMMA DriveInvKept == DriveInv /\ [Pack!Next]_Pack!vars => DriveInv'
<1> SUFFICES ASSUME DriveInv, [Pack!Next]_Pack!vars PROVE DriveInv'
  OBVIOUS
<1> USE DEF DriveInv
<1>1. CallTypes' /\ DiskTypes' /\ LocksHeld'
  BY CallTypesKept, DiskTypesKept, LocksKept
<1>2. DriveTypes'
  <2>1. CASE UNCHANGED drive
    BY <2>1 DEF DriveTypes
  <2>2. ASSUME NEW p \in Pack!Packager, Puts(p) PROVE DriveTypes'
    BY <2>2, PutEffect DEF Uploading
  <2> QED BY <2>1, <2>2, DriveStep
<1>3. Uploading'
  BY UploadingKept DEF Uploading
<1>4. NoTwins'
  BY TwinsKept
<1> QED BY <1>1, <1>2, <1>3, <1>4

\* A step after which a call has the ids it had.
SameCall(q) ==
  /\ phase[q] # "idle" /\ job'[q] = job[q] /\ got'[q] = got[q] /\ made'[q] = made[q]
  /\ q \in touched => q \in touched'
  /\ HasVideoUp(q)' => HasVideoUp(q)
  /\ phase'[q] \in Late => phase[q] \in Late

\* PackageBegins forgets what was reported for its run.
LEMMA NotDoneKept ==
  ASSUME CallTypes, DiskTypes, LocksHeld, NEW q \in Pack!Packager, NotDone(q), [Pack!Next]_Pack!vars
  PROVE  NotDone(q)'
<1> USE DEF Pack!disk, Pack!callVars, Pack!history, CallTypes, Place, VideoMade, DiskTypes,
     LocksHeld, HasVideoUp, Late, NotDone
<1>1. ASSUME NEW r \in Run,
             \/ Pack!StartRun(r) \/ Pack!Expires(r) \/ Pack!DeleteArtifact(r)
             \/ Pack!RenameChecks(r, "mp4", "extra")
             \/ Pack!RenameChecks(r, "extra", "mp4")
      PROVE  NotDone(q)'
  BY <1>1 DEF Pack!StartRun, Pack!Expires, Pack!DeleteArtifact, Pack!Changed, Pack!Touch,
       Pack!ArtifactRequest, Pack!RenameChecks
<1>2. ASSUME Pack!RenameMoves PROVE NotDone(q)'
  BY <1>2 DEF Pack!RenameMoves, Pack!Changed, Pack!Touch
<1>3. ASSUME NEW p \in Pack!Packager, NEW r \in Run,
             Pack!PackageBegins(p, r)
      PROVE  NotDone(q)'
  BY <1>3 DEF Pack!PackageBegins, Pack!Changed, Pack!Requested, Pack!LockFree
<1>4. ASSUME NEW p \in Pack!Packager,
             \/ Pack!RemuxEnds(p) \/ Pack!OldVideoRemoved(p)
             \/ Pack!NewVideoRenamed(p) \/ Pack!SidecarsCopied(p)
      PROVE  NotDone(q)'
  BY <1>4 DEF Pack!RemuxEnds, Pack!Changed, Pack!OldVideoRemoved, Pack!NewVideoRenamed,
       Pack!SidecarsCopied, Pack!NextUpload
<1>5. ASSUME NEW p \in Pack!Packager,
             \/ Pack!DriveFinds(p) \/ Pack!DrivePuts(p) \/ Pack!UploadRetried(p)
             \/ Pack!DryRunUploads(p)
      PROVE  NotDone(q)'
  BY <1>5 DEF Pack!DriveFinds, Pack!DrivePuts, Pack!UploadRetried, Pack!NextUpload,
       Pack!DryRunUploads
<1>6. ASSUME NEW p \in Pack!Packager, Pack!MetadataRecorded(p) PROVE NotDone(q)'
  BY <1>6 DEF Pack!MetadataRecorded, Pack!Changed, Pack!NextUpload, Pack!Described
<1>7. ASSUME NEW p \in Pack!Packager,
             Pack!DirectoryChecked(p) \/ Pack!DirectoryRemoved(p)
      PROVE  NotDone(q)'
  BY <1>7 DEF Pack!DirectoryChecked, Pack!DirectoryRemoved
<1>8. ASSUME NEW p \in Pack!Packager,
             \/ Pack!UploadFails(p) \/ Pack!PackageCompletes(p)
             \/ Pack!PackageFails(p)
      PROVE  NotDone(q)'
  BY <1>8 DEF Pack!UploadFails, Pack!Returned, Pack!PackageCompletes, Pack!PackageFails
<1>9. ASSUME NEW s \in Pack!Stream, Pack!RunEnds(s) PROVE NotDone(q)'
  BY <1>9 DEF Pack!RunEnds
<1>10. ASSUME Pack!Crash \/ UNCHANGED Pack!vars PROVE NotDone(q)'
  BY <1>10 DEF Pack!Crash, Pack!vars
<1> QED BY <1>1, <1>2, <1>3, <1>4, <1>5, <1>6, <1>7, <1>8, <1>9, <1>10 DEF Pack!Next,
     Pack!PackageStep

\* The video in the run directory is the one the call has made, unless retention removed it or a
\* request renamed or deleted it.
LEMMA OwnVideoKept ==
  ASSUME CallTypes, DiskTypes, LocksHeld, NEW q \in Pack!Packager, OwnVideo(q),
           [Pack!Next]_Pack!vars
  PROVE  OwnVideo(q)'
<1> USE DEF Pack!disk, Pack!callVars, Pack!history, CallTypes, Place, VideoMade, DiskTypes,
     LocksHeld, HasVideoUp, Late, OwnVideo, NotDone, Pack!NoDir
<1>1. ASSUME NEW r \in Run,
             \/ Pack!StartRun(r) \/ Pack!Expires(r) \/ Pack!DeleteArtifact(r)
             \/ Pack!RenameChecks(r, "mp4", "extra")
             \/ Pack!RenameChecks(r, "extra", "mp4")
      PROVE  OwnVideo(q)'
  BY <1>1 DEF Pack!StartRun, Pack!Expires, Pack!DeleteArtifact, Pack!Changed, Pack!Touch,
       Pack!ArtifactRequest, Pack!RenameChecks
<1>2. ASSUME Pack!RenameMoves PROVE OwnVideo(q)'
  BY <1>2 DEF Pack!RenameMoves, Pack!Changed, Pack!Touch
<1>3. ASSUME NEW p \in Pack!Packager, NEW r \in Run,
             Pack!PackageBegins(p, r)
      PROVE  OwnVideo(q)'
  BY <1>3 DEF Pack!PackageBegins, Pack!Changed, Pack!Requested, Pack!LockFree
<1>4. ASSUME NEW p \in Pack!Packager, Pack!RemuxEnds(p) PROVE OwnVideo(q)'
  BY <1>4 DEF Pack!RemuxEnds, Pack!Changed
<1>5. ASSUME NEW p \in Pack!Packager, Pack!OldVideoRemoved(p) PROVE OwnVideo(q)'
  BY <1>5 DEF Pack!OldVideoRemoved, Pack!Changed
<1>6. ASSUME NEW p \in Pack!Packager, Pack!NewVideoRenamed(p) PROVE OwnVideo(q)'
  BY <1>6 DEF Pack!NewVideoRenamed, Pack!Changed
<1>7. ASSUME NEW p \in Pack!Packager, Pack!SidecarsCopied(p) PROVE OwnVideo(q)'
  BY <1>7 DEF Pack!SidecarsCopied, Pack!Changed, Pack!NextUpload
<1>8. ASSUME NEW p \in Pack!Packager,
             \/ Pack!DriveFinds(p) \/ Pack!DrivePuts(p) \/ Pack!UploadRetried(p)
             \/ Pack!DryRunUploads(p)
      PROVE  OwnVideo(q)'
  BY <1>8 DEF Pack!DriveFinds, Pack!DrivePuts, Pack!UploadRetried, Pack!NextUpload,
       Pack!DryRunUploads
<1>9. ASSUME NEW p \in Pack!Packager, Pack!MetadataRecorded(p) PROVE OwnVideo(q)'
  BY <1>9 DEF Pack!MetadataRecorded, Pack!Changed, Pack!NextUpload, Pack!Described
<1>10. ASSUME NEW p \in Pack!Packager,
             Pack!DirectoryChecked(p) \/ Pack!DirectoryRemoved(p)
      PROVE  OwnVideo(q)'
  BY <1>10 DEF Pack!DirectoryChecked, Pack!DirectoryRemoved
<1>11. ASSUME NEW p \in Pack!Packager,
             \/ Pack!UploadFails(p) \/ Pack!PackageCompletes(p)
             \/ Pack!PackageFails(p)
      PROVE  OwnVideo(q)'
  BY <1>11 DEF Pack!UploadFails, Pack!Returned, Pack!PackageCompletes, Pack!PackageFails
<1>12. ASSUME NEW s \in Pack!Stream, Pack!RunEnds(s) PROVE OwnVideo(q)'
  BY <1>12 DEF Pack!RunEnds
<1>13. ASSUME Pack!Crash \/ UNCHANGED Pack!vars PROVE OwnVideo(q)'
  BY <1>13 DEF Pack!Crash, Pack!vars
<1> QED BY <1>1, <1>2, <1>3, <1>4, <1>5, <1>6, <1>7, <1>8, <1>9, <1>10, <1>11, <1>12, <1>13 DEF
     Pack!Next, Pack!PackageStep

\* Ids are recorded after the upload of the video.
LEMMA NoIdsYetKept ==
  ASSUME CallTypes, DiskTypes, LocksHeld, NEW q \in Pack!Packager, NoIdsYet(q),
           [Pack!Next]_Pack!vars
  PROVE  NoIdsYet(q)'
<1> USE DEF Pack!disk, Pack!callVars, Pack!history, CallTypes, Place, VideoMade, DiskTypes,
     LocksHeld, HasVideoUp, Late, NoIdsYet, Pack!NoIds, Pack!NoUpload
<1>1. ASSUME NEW r \in Run,
             \/ Pack!StartRun(r) \/ Pack!Expires(r) \/ Pack!DeleteArtifact(r)
             \/ Pack!RenameChecks(r, "mp4", "extra")
             \/ Pack!RenameChecks(r, "extra", "mp4")
      PROVE  NoIdsYet(q)'
  BY <1>1 DEF Pack!StartRun, Pack!Expires, Pack!DeleteArtifact, Pack!Changed, Pack!Touch,
       Pack!ArtifactRequest, Pack!RenameChecks
<1>2. ASSUME Pack!RenameMoves PROVE NoIdsYet(q)'
  BY <1>2 DEF Pack!RenameMoves, Pack!Changed, Pack!Touch
<1>3. ASSUME NEW p \in Pack!Packager, NEW r \in Run,
             Pack!PackageBegins(p, r)
      PROVE  NoIdsYet(q)'
  BY <1>3 DEF Pack!PackageBegins, Pack!Changed, Pack!Requested, Pack!LockFree
<1>4. ASSUME NEW p \in Pack!Packager,
             \/ Pack!RemuxEnds(p) \/ Pack!OldVideoRemoved(p)
             \/ Pack!NewVideoRenamed(p) \/ Pack!SidecarsCopied(p)
      PROVE  NoIdsYet(q)'
  BY <1>4 DEF Pack!RemuxEnds, Pack!Changed, Pack!OldVideoRemoved, Pack!NewVideoRenamed,
       Pack!SidecarsCopied, Pack!NextUpload
<1>5. ASSUME NEW p \in Pack!Packager,
             Pack!DriveFinds(p) \/ Pack!DrivePuts(p)
      PROVE  NoIdsYet(q)'
  BY <1>5 DEF Pack!DriveFinds, Pack!DrivePuts
<1>6. ASSUME NEW p \in Pack!Packager, Pack!UploadRetried(p) PROVE NoIdsYet(q)'
  BY <1>6 DEF Pack!UploadRetried, Pack!NextUpload
<1>7. ASSUME NEW p \in Pack!Packager, Pack!DryRunUploads(p) PROVE NoIdsYet(q)'
  BY <1>7 DEF Pack!DryRunUploads
<1>8. ASSUME NEW p \in Pack!Packager, Pack!MetadataRecorded(p) PROVE NoIdsYet(q)'
  <2>1. got' = got
    BY <1>8 DEF Pack!MetadataRecorded
  <2>2. CASE p # q
    <3>1. phase'[q] = phase[q] /\ up'[q] = up[q]
      BY <1>8, <2>2 DEF Pack!MetadataRecorded
    <3> QED BY <2>1, <3>1
  <2>3. CASE p = q
    <3>1. HasVideoUp(q)
      BY <1>8, <2>3 DEF Pack!MetadataRecorded
    <3>2. CASE phase[q] = "record"
      <4>1. phase'[q] = "upload" /\ up'[q] = Pack!NextUpload(q, "metadata")
        BY <1>8, <2>3, <3>2 DEF Pack!MetadataRecorded
      <4>2. up'[q].file = "metadata"
        BY <4>1 DEF Pack!NextUpload
      <4> QED BY <4>1, <4>2
    <3>3. CASE phase[q] = "recordAll"
      <4>1. phase'[q] = "retain"
        BY <1>8, <2>3, <3>3 DEF Pack!MetadataRecorded
      <4> QED BY <4>1
    <3> QED BY <1>8, <2>3, <3>2, <3>3 DEF Pack!MetadataRecorded
  <2> QED BY <2>2, <2>3
<1>9. ASSUME NEW p \in Pack!Packager,
             Pack!DirectoryChecked(p) \/ Pack!DirectoryRemoved(p)
      PROVE  NoIdsYet(q)'
  BY <1>9 DEF Pack!DirectoryChecked, Pack!DirectoryRemoved
<1>10. ASSUME NEW p \in Pack!Packager,
             \/ Pack!UploadFails(p) \/ Pack!PackageCompletes(p)
             \/ Pack!PackageFails(p)
      PROVE  NoIdsYet(q)'
  BY <1>10 DEF Pack!UploadFails, Pack!Returned, Pack!PackageCompletes, Pack!PackageFails
<1>11. ASSUME NEW s \in Pack!Stream, Pack!RunEnds(s) PROVE NoIdsYet(q)'
  BY <1>11 DEF Pack!RunEnds
<1>12. ASSUME Pack!Crash \/ UNCHANGED Pack!vars PROVE NoIdsYet(q)'
  BY <1>12 DEF Pack!Crash, Pack!vars
<1> QED BY <1>1, <1>2, <1>3, <1>4, <1>5, <1>6, <1>7, <1>8, <1>9, <1>10, <1>11, <1>12 DEF Pack!Next,
     Pack!PackageStep

\* What is uploaded as metadata.json describes the call's own video.
LEMMA OwnMetadataKept ==
  ASSUME CallTypes, DiskTypes, LocksHeld, NEW q \in Pack!Packager, OwnMetadata(q),
           [Pack!Next]_Pack!vars
  PROVE  OwnMetadata(q)'
<1> USE DEF Pack!disk, Pack!callVars, Pack!history, CallTypes, Place, VideoMade, DiskTypes,
     LocksHeld, HasVideoUp, Late, OwnMetadata, Pack!Described, Pack!NoDir
<1>1. ASSUME NEW r \in Run, Pack!StartRun(r) PROVE OwnMetadata(q)'
  BY <1>1 DEF Pack!StartRun
<1>2. ASSUME NEW r \in Run, Pack!Expires(r) PROVE OwnMetadata(q)'
  BY <1>2 DEF Pack!Expires
<1>3. ASSUME NEW r \in Run, Pack!DeleteArtifact(r) PROVE OwnMetadata(q)'
  BY <1>3 DEF Pack!DeleteArtifact, Pack!Changed, Pack!Touch, Pack!ArtifactRequest
<1>4. ASSUME NEW r \in Run,
             \/ Pack!RenameChecks(r, "mp4", "extra")
             \/ Pack!RenameChecks(r, "extra", "mp4")
      PROVE  OwnMetadata(q)'
  BY <1>4 DEF Pack!RenameChecks, Pack!ArtifactRequest
<1>5. ASSUME Pack!RenameMoves PROVE OwnMetadata(q)'
  <2> DEFINE r == renaming.run
  <2>1. UNCHANGED <<phase, up, job, got, made>>
    BY <1>5 DEF Pack!RenameMoves
  <2>2. r \in Run /\ {renaming.from, renaming.to} \subseteq {"mp4", "extra"}
    BY <1>5 DEF Pack!RenameMoves
  <2>3. \A t \in Run : final'[t].meta = final[t].meta
    <3>1. CASE final' = final
      BY <3>1
    <3>2. ASSUME NEW v, final' = Pack!Changed(r, [final[r] EXCEPT ![renaming.to] = v,
                   ![renaming.from] = None])
          PROVE  \A t \in Run : final'[t].meta = final[t].meta
      <4> DEFINE f == [final[r] EXCEPT ![renaming.to] = v, ![renaming.from] = None]
      <4>1. f.meta = final[r].meta /\ DOMAIN f = DOMAIN final[r]
        BY <2>2
      <4> HIDE DEF f
      <4>2. [f EXCEPT !.exists = TRUE, !.old = FALSE].meta = final[r].meta
        BY <2>2, <4>1
      <4>3. final' = [final EXCEPT ![r] = [f EXCEPT !.exists = TRUE, !.old = FALSE]]
        BY <3>2 DEF Pack!Changed, f
      <4> QED BY <2>2, <4>2, <4>3
    <3> QED BY <1>5, <3>1, <3>2 DEF Pack!RenameMoves
  <2>4. phase[q] # "idle" => job[q] \in Run
    OBVIOUS
  <2> QED BY <2>1, <2>3, <2>4
<1>6. ASSUME NEW p \in Pack!Packager, NEW r \in Run,
             Pack!PackageBegins(p, r)
      PROVE  OwnMetadata(q)'
  BY <1>6 DEF Pack!PackageBegins, Pack!Changed, Pack!Requested, Pack!LockFree
<1>7. ASSUME NEW p \in Pack!Packager, Pack!RemuxEnds(p) PROVE OwnMetadata(q)'
  BY <1>7 DEF Pack!RemuxEnds, Pack!Changed
<1>8. ASSUME NEW p \in Pack!Packager, Pack!OldVideoRemoved(p) PROVE OwnMetadata(q)'
  BY <1>8 DEF Pack!OldVideoRemoved, Pack!Changed
<1>9. ASSUME NEW p \in Pack!Packager, Pack!NewVideoRenamed(p) PROVE OwnMetadata(q)'
  BY <1>9 DEF Pack!NewVideoRenamed, Pack!Changed
<1>10. ASSUME NEW p \in Pack!Packager, Pack!SidecarsCopied(p) PROVE OwnMetadata(q)'
  BY <1>10 DEF Pack!SidecarsCopied, Pack!Changed, Pack!NextUpload
<1>11. ASSUME NEW p \in Pack!Packager,
             Pack!DriveFinds(p) \/ Pack!DrivePuts(p)
      PROVE  OwnMetadata(q)'
  BY <1>11 DEF Pack!DriveFinds, Pack!DrivePuts
<1>12. ASSUME NEW p \in Pack!Packager, Pack!UploadRetried(p) PROVE OwnMetadata(q)'
  BY <1>12 DEF Pack!UploadRetried, Pack!NextUpload
<1>13. ASSUME NEW p \in Pack!Packager, Pack!DryRunUploads(p) PROVE OwnMetadata(q)'
  BY <1>13 DEF Pack!DryRunUploads
<1>14. ASSUME NEW p \in Pack!Packager, Pack!MetadataRecorded(p) PROVE OwnMetadata(q)'
  BY <1>14 DEF Pack!MetadataRecorded, Pack!Changed, Pack!NextUpload, Pack!Described
<1>15. ASSUME NEW p \in Pack!Packager,
             Pack!DirectoryChecked(p) \/ Pack!DirectoryRemoved(p)
      PROVE  OwnMetadata(q)'
  BY <1>15 DEF Pack!DirectoryChecked, Pack!DirectoryRemoved
<1>16. ASSUME NEW p \in Pack!Packager,
             \/ Pack!UploadFails(p) \/ Pack!PackageCompletes(p)
             \/ Pack!PackageFails(p)
      PROVE  OwnMetadata(q)'
  BY <1>16 DEF Pack!UploadFails, Pack!Returned, Pack!PackageCompletes, Pack!PackageFails
<1>17. ASSUME NEW s \in Pack!Stream, Pack!RunEnds(s) PROVE OwnMetadata(q)'
  BY <1>17 DEF Pack!RunEnds
<1>18. ASSUME Pack!Crash \/ UNCHANGED Pack!vars PROVE OwnMetadata(q)'
  BY <1>18 DEF Pack!Crash, Pack!vars
<1> QED BY <1>1, <1>2, <1>3, <1>4, <1>5, <1>6, <1>7, <1>8, <1>9, <1>10, <1>11, <1>12, <1>13,
       <1>14, <1>15, <1>16, <1>17, <1>18 DEF Pack!Next, Pack!PackageStep

\* Ids are recorded by the last put of an upload only.
LEMMA CallStep ==
  ASSUME CallTypes, DiskTypes, LocksHeld, Uploading, NEW q \in Pack!Packager, [Pack!Next]_Pack!vars
  PROVE  job'[q] \in Uploads /\ HasVideoUp(q)' =>
           SameCall(q) \/ (Pack!DrivePuts(q) /\ up[q].level = 3)
<1> DEFINE Goal == job'[q] \in Uploads /\ HasVideoUp(q)' =>
             SameCall(q) \/ (Pack!DrivePuts(q) /\ up[q].level = 3)
<1> USE DEF Pack!disk, Pack!callVars, Pack!history, CallTypes, Place, VideoMade, DiskTypes,
     LocksHeld, HasVideoUp, Late, SameCall, Uploading, KnownUpload, Pack!Described
<1>1. ASSUME NEW r \in Run,
             \/ Pack!StartRun(r) \/ Pack!Expires(r) \/ Pack!DeleteArtifact(r)
             \/ Pack!RenameChecks(r, "mp4", "extra")
             \/ Pack!RenameChecks(r, "extra", "mp4")
      PROVE  Goal
  BY <1>1 DEF Pack!StartRun, Pack!Expires, Pack!DeleteArtifact, Pack!Changed, Pack!Touch,
       Pack!ArtifactRequest, Pack!RenameChecks
<1>2. ASSUME Pack!RenameMoves PROVE Goal
  BY <1>2 DEF Pack!RenameMoves, Pack!Changed, Pack!Touch
<1>3. ASSUME NEW p \in Pack!Packager, NEW r \in Run, Pack!PackageBegins(p, r) PROVE Goal
  BY <1>3 DEF Pack!PackageBegins, Pack!Changed, Pack!Requested, Pack!LockFree
<1>4. ASSUME NEW p \in Pack!Packager, Pack!RemuxEnds(p) \/ Pack!OldVideoRemoved(p) PROVE Goal
  BY <1>4 DEF Pack!RemuxEnds, Pack!Changed, Pack!OldVideoRemoved
<1>5. ASSUME NEW p \in Pack!Packager, Pack!NewVideoRenamed(p) PROVE Goal
  BY <1>5 DEF Pack!NewVideoRenamed, Pack!Changed
<1>6. ASSUME NEW p \in Pack!Packager, Pack!SidecarsCopied(p) PROVE Goal
  BY <1>6 DEF Pack!SidecarsCopied, Pack!Changed, Pack!NextUpload
<1>7. ASSUME NEW p \in Pack!Packager, Pack!DriveFinds(p) \/ Pack!DrivePuts(p) PROVE Goal
  BY <1>7 DEF Pack!DriveFinds, Pack!DrivePuts
<1>8. ASSUME NEW p \in Pack!Packager, Pack!UploadRetried(p) PROVE Goal
  BY <1>8 DEF Pack!UploadRetried, Pack!NextUpload
<1>9. ASSUME NEW p \in Pack!Packager, Pack!DryRunUploads(p) PROVE Goal
  BY <1>9 DEF Pack!DryRunUploads
<1>10. ASSUME NEW p \in Pack!Packager, Pack!MetadataRecorded(p) PROVE Goal
  BY <1>10 DEF Pack!MetadataRecorded, Pack!Changed, Pack!NextUpload, Pack!Described
<1>11. ASSUME NEW p \in Pack!Packager,
             Pack!DirectoryChecked(p) \/ Pack!DirectoryRemoved(p)
      PROVE  Goal
  BY <1>11 DEF Pack!DirectoryChecked, Pack!DirectoryRemoved
<1>12. ASSUME NEW p \in Pack!Packager,
             \/ Pack!UploadFails(p) \/ Pack!PackageCompletes(p)
             \/ Pack!PackageFails(p)
      PROVE  Goal
  BY <1>12 DEF Pack!UploadFails, Pack!Returned, Pack!PackageCompletes, Pack!PackageFails
<1>13. ASSUME NEW s \in Pack!Stream, Pack!RunEnds(s) PROVE Goal
  BY <1>13 DEF Pack!RunEnds
<1>14. ASSUME Pack!Crash \/ UNCHANGED Pack!vars PROVE Goal
  BY <1>14 DEF Pack!Crash, Pack!vars
<1> QED BY <1>1, <1>2, <1>3, <1>4, <1>5, <1>6, <1>7, <1>8, <1>9, <1>10, <1>11, <1>12, <1>13, <1>14
       DEF Pack!Next, Pack!PackageStep

\* A run is reported by a call for it.
LEMMA DoneStep ==
  ASSUME DiskTypes, LocksHeld, NEW t \in Run, [Pack!Next]_Pack!vars
  PROVE  done'[t] # None =>
           done'[t] = done[t] \/ \E p \in Pack!Packager : job[p] = t /\ Pack!PackageCompletes(p)
<1> DEFINE Goal == done'[t] # None =>
             done'[t] = done[t] \/ \E p \in Pack!Packager : job[p] = t /\ Pack!PackageCompletes(p)
<1> USE DEF Pack!disk, Pack!callVars, Pack!history, CallTypes, Place, VideoMade, DiskTypes,
     LocksHeld, HasVideoUp, Late
<1>1. ASSUME NEW r \in Run,
             \/ Pack!StartRun(r) \/ Pack!Expires(r) \/ Pack!DeleteArtifact(r)
             \/ Pack!RenameChecks(r, "mp4", "extra")
             \/ Pack!RenameChecks(r, "extra", "mp4")
      PROVE  Goal
  BY <1>1 DEF Pack!StartRun, Pack!Expires, Pack!DeleteArtifact, Pack!Changed, Pack!Touch,
       Pack!ArtifactRequest, Pack!RenameChecks
<1>2. ASSUME Pack!RenameMoves PROVE Goal
  BY <1>2 DEF Pack!RenameMoves, Pack!Changed, Pack!Touch
<1>3. ASSUME NEW p \in Pack!Packager, NEW r \in Run, Pack!PackageBegins(p, r) PROVE Goal
  BY <1>3 DEF Pack!PackageBegins, Pack!Changed, Pack!Requested, Pack!LockFree
<1>4. ASSUME NEW p \in Pack!Packager,
             \/ Pack!RemuxEnds(p) \/ Pack!OldVideoRemoved(p)
             \/ Pack!NewVideoRenamed(p) \/ Pack!SidecarsCopied(p)
      PROVE  Goal
  BY <1>4 DEF Pack!RemuxEnds, Pack!Changed, Pack!OldVideoRemoved, Pack!NewVideoRenamed,
       Pack!SidecarsCopied, Pack!NextUpload
<1>5. ASSUME NEW p \in Pack!Packager,
             \/ Pack!DriveFinds(p) \/ Pack!DrivePuts(p) \/ Pack!UploadRetried(p)
             \/ Pack!DryRunUploads(p)
      PROVE  Goal
  BY <1>5 DEF Pack!DriveFinds, Pack!DrivePuts, Pack!UploadRetried, Pack!NextUpload,
       Pack!DryRunUploads
<1>6. ASSUME NEW p \in Pack!Packager, Pack!MetadataRecorded(p) PROVE Goal
  BY <1>6 DEF Pack!MetadataRecorded, Pack!Changed, Pack!NextUpload, Pack!Described
<1>7. ASSUME NEW p \in Pack!Packager,
             Pack!DirectoryChecked(p) \/ Pack!DirectoryRemoved(p)
      PROVE  Goal
  BY <1>7 DEF Pack!DirectoryChecked, Pack!DirectoryRemoved
<1>8. ASSUME NEW p \in Pack!Packager,
             \/ Pack!UploadFails(p) \/ Pack!PackageCompletes(p)
             \/ Pack!PackageFails(p)
      PROVE  Goal
  BY <1>8 DEF Pack!UploadFails, Pack!Returned, Pack!PackageCompletes, Pack!PackageFails
<1>9. ASSUME NEW s \in Pack!Stream, Pack!RunEnds(s) PROVE Goal
  BY <1>9 DEF Pack!RunEnds
<1>10. ASSUME Pack!Crash \/ UNCHANGED Pack!vars PROVE Goal
  BY <1>10 DEF Pack!Crash, Pack!vars
<1> QED BY <1>1, <1>2, <1>3, <1>4, <1>5, <1>6, <1>7, <1>8, <1>9, <1>10 DEF Pack!Next,
     Pack!PackageStep

\* A run has one folder.
LEMMA OneFolder ==
  ASSUME NoTwins, DistinctNames, NEW r \in Run, NEW i, NEW j,
         RunFolder(drive, i, r), RunFolder(drive, j, r)
  PROVE  i = j
<1>1. \A s \in Pack!Stream : ~Shared(s)
  BY DEF Shared, DistinctNames
<1>2. drive[i].parent = drive[j].parent
  BY <1>1 DEF RunFolder, StreamFolder, NoTwins
<1> QED BY <1>1, <1>2 DEF RunFolder, StreamFolder, NoTwins

\* A put changes no other file than the one the call uploads.
LEMMA FileStays ==
  ASSUME DriveInv, NEW p \in Pack!Packager, Puts(p), NEW r, NEW i, NEW name, NEW folder,
         FileOf(drive, i, name, folder, r), job[p] # r \/ up[p].file # name
  PROVE  FileOf(drive', i, name, folder, r) /\ drive'[i] = drive[i]
<1>1. KnownUpload(p) /\ up[p].level \in 1..3 /\ InPlace(p)
  BY DEF DriveInv, Uploading, KnownUpload, Puts
<1>2. /\ Grows /\ Pack!IdAfterPut(p) \in 1..Len(drive')
      /\ drive'[Pack!IdAfterPut(p)].name = Pack!Wanted(p).name
      /\ drive'[Pack!IdAfterPut(p)].parent = up[p].parent
      /\ \A k \in 1..Len(drive') : k # Pack!IdAfterPut(p) =>
           k \in 1..Len(drive) /\ drive'[k] = drive[k]
  BY <1>1, PutEffect DEF DriveInv
<1>3. ASSUME i = Pack!IdAfterPut(p) PROVE FALSE
  <2>1. Pack!Wanted(p).name = name /\ up[p].parent = folder
    BY <1>2, <1>3 DEF FileOf, Grows
  <2>2. folder \in 1..Len(drive) /\ drive[folder].parent \in 1..Len(drive) /\ drive[folder].name = r
    BY DEF FileOf, RunFolder, StreamFolder
  <2>3. up[p].level = 3
    BY <1>1, <2>1, <2>2 DEF InPlace, StreamFolder
  <2> QED BY <1>1, <2>1, <2>2, <2>3 DEF InPlace, RunFolder, Pack!Wanted
<1>4. drive'[i] = drive[i]
  BY <1>2, <1>3 DEF FileOf, Grows
<1> QED BY <1>2, <1>4, FoldersStay DEF DriveInv

\* Both files of a call stay where their ids say until the call ends ...
LEMMA UploadedKept ==
  ASSUME DriveInv, DistinctNames, Packaging, [Pack!Next]_Pack!vars, NEW q \in Pack!Packager
  PROVE  Uploaded(q)'
<1> USE DEF DriveInv
<1> SUFFICES ASSUME job'[q] \in Uploads, HasVideoUp(q)' \/ phase'[q] \in Late
             PROVE  VideoInDrive(q)' /\ (phase'[q] \in Late => MetadataInDrive(q)')
  BY DEF Uploaded, HasVideoUp
<1>0. HasVideoUp(q)'
  BY DEF HasVideoUp
<1>1. LocalKnown(q) /\ Uploaded(q)
  BY DEF Packaging
<1>2. ASSUME SameCall(q) PROVE VideoInDrive(q)' /\ (phase'[q] \in Late => MetadataInDrive(q)')
  <2>1. VideoInDrive(q) /\ (phase'[q] \in Late => phase[q] \in Late /\ MetadataInDrive(q))
    BY <1>0, <1>1, <1>2 DEF Uploaded, SameCall
  <2>2. ASSUME UNCHANGED drive PROVE VideoInDrive(q)' /\ (phase'[q] \in Late => MetadataInDrive(q)')
    BY <1>2, <2>1, <2>2 DEF SameCall, VideoInDrive, MetadataInDrive
  <2>3. ASSUME NEW p \in Pack!Packager, Puts(p)
        PROVE  VideoInDrive(q)' /\ (phase'[q] \in Late => MetadataInDrive(q)')
    <3>1. p # q => job[p] # job[q]
      BY <1>2, <2>3 DEF LocksHeld, SameCall, Puts
    <3>2. p = q => up[p].file = "metadata" /\ phase[q] \notin Late
      BY <1>0, <1>2, <2>3 DEF SameCall, HasVideoUp, Puts, Late
    <3>3. /\ FileOf(drive', got[q].mp4, "mp4", got[q].folder, job[q])
          /\ drive'[got[q].mp4] = drive[got[q].mp4]
      BY <2>1, <2>3, <3>1, <3>2, FileStays DEF VideoInDrive
    <3>4. phase'[q] \in Late =>
            /\ FileOf(drive', got[q].metadata, "metadata", got[q].folder, job[q])
                             /\ drive'[got[q].metadata] = drive[got[q].metadata]
      BY <2>1, <2>3, <3>1, <3>2, FileStays DEF MetadataInDrive
    <3> QED BY <1>2, <2>1, <3>3, <3>4 DEF SameCall, VideoInDrive, MetadataInDrive
  <2> QED BY <2>2, <2>3, DriveStep
<1>3. ASSUME Pack!DrivePuts(q), up[q].level = 3
      PROVE  VideoInDrive(q)' /\ (phase'[q] \in Late => MetadataInDrive(q)')
  <2> DEFINE k == Pack!IdAfterPut(q)
             folder == up[q].parent
  <2>1. /\ Puts(q) /\ KnownUpload(q) /\ UNCHANGED <<job, made, touched>>
        /\ job[q] \in Run /\ phase[q] = "upload"
    BY <1>3 DEF Pack!DrivePuts, Puts, Uploading, LocksHeld, Pack!history
  <2>2. /\ got' = [got EXCEPT ![q][up[q].file] = k,
                              ![q].folder = IF @ = None THEN folder ELSE @]
        /\ phase' = [phase EXCEPT ![q] = IF up[q].file = "mp4" THEN "record" ELSE "recordAll"]
    BY <1>3 DEF Pack!DrivePuts
  <2>3. RunFolder(drive, folder, job[q]) /\ up[q].file \in {"mp4", "metadata"}
    BY <1>3, <2>1 DEF KnownUpload, InPlace
  <2>4. /\ Grows /\ k \in 1..Len(drive')
        /\ drive'[k].name = up[q].file /\ drive'[k].parent = folder
        /\ drive'[k].content = Pack!Content(q)
    BY <1>3, <2>1, PutEffect DEF Pack!Wanted
  <2>5. FileOf(drive', k, up[q].file, folder, job[q])
    BY <2>3, <2>4, FoldersStay DEF FileOf
  <2>6. Pack!Content(q) # None
    BY <1>3, <2>1 DEF Puts, Pack!FileReadable
  <2> HIDE DEF k, folder
  <2>7. CASE up[q].file = "mp4"
    <3>1. got[q] = Pack!NoIds /\ q \notin touched => Pack!Content(q) = made[q]
      BY <1>1, <1>3, <2>1, <2>6, <2>7
      DEF LocalKnown, NoIdsYet, HasVideoUp, OwnVideo, VideoMade, Pack!Content, Late
    <3>2. got[q] = Pack!NoIds
      BY <1>1, <2>1, <2>7 DEF LocalKnown, NoIdsYet, HasVideoUp, Late
    <3>3. got'[q].mp4 = k /\ got'[q].folder = folder
      BY <2>2, <2>7, <3>2 DEF CallTypes, Pack!NoIds
    <3>4. phase'[q] = "record"
      BY <2>2, <2>7 DEF CallTypes
    <3> QED BY <2>1, <2>4, <2>5, <2>7, <3>1, <3>2, <3>3, <3>4 DEF VideoInDrive, Late
  <2>8. CASE up[q].file = "metadata"
    <3>1. VideoInDrive(q) /\ OwnMetadata(q)
      BY <1>1, <2>1, <2>8 DEF Uploaded, HasVideoUp, LocalKnown
    <3>2. got[q].folder = folder
      BY <2>1, <2>3, <3>1, OneFolder DEF VideoInDrive, FileOf
    <3>3. got'[q].mp4 = got[q].mp4 /\ got'[q].metadata = k /\ got'[q].folder = folder
      BY <2>2, <2>8, <3>2 DEF CallTypes
    <3>4. Pack!Content(q) = Pack!Described(q)
      BY <1>3, <2>1, <2>6, <2>8, <3>1 DEF OwnMetadata, Pack!Content
    <3>5. /\ FileOf(drive', got[q].mp4, "mp4", folder, job[q])
          /\ drive'[got[q].mp4] = drive[got[q].mp4]
      BY <2>1, <2>8, <3>1, <3>2, FileStays DEF VideoInDrive
    <3>6. VideoInDrive(q)'
      BY <2>1, <3>1, <3>3, <3>5 DEF VideoInDrive
    <3>7. MetadataInDrive(q)'
      BY <2>1, <2>4, <2>5, <2>8, <3>3, <3>4 DEF MetadataInDrive, Pack!Described
    <3> QED BY <3>6, <3>7
  <2> QED BY <2>3, <2>7, <2>8
<1> QED BY <1>0, <1>2, <1>3, CallStep

\* ... and after that until the run is packaged again.
LEMMA CompletedKept ==
  ASSUME DriveInv, Packaging, Completed, [Pack!Next]_Pack!vars, NEW r \in Run
  PROVE  KnownDone(r)'
<1> USE DEF DriveInv
<1>1. ASSUME NEW p \in Pack!Packager, job[p] = r, Pack!PackageCompletes(p), r \in Uploads,
               done'[r] # None
      PROVE  KnownDone(r)'
  <2>1. /\ phase[p] = "retain" /\ UNCHANGED drive
        /\ p \notin touched /\ done'[r] = [video |-> made[p], ids |-> got[p]]
    BY <1>1 DEF Pack!PackageCompletes, DiskTypes
  <2>2. VideoInDrive(p) /\ MetadataInDrive(p)
    BY <1>1, <2>1 DEF Packaging, Uploaded, HasVideoUp, Late
  <2> QED BY <1>1, <2>1, <2>2 DEF KnownDone, VideoInDrive, MetadataInDrive
<1>2. ASSUME done'[r] = done[r], r \in Uploads, done[r] # None PROVE KnownDone(r)'
  <2>1. KnownDone(r)
    BY DEF Completed
  <2>2. CASE UNCHANGED drive
    BY <1>2, <2>1, <2>2 DEF KnownDone
  <2>3. ASSUME NEW p \in Pack!Packager, Puts(p) PROVE KnownDone(r)'
    <3>1. job[p] # r
      BY <1>2, <2>3 DEF Packaging, LocalKnown, NotDone, Puts
    <3> QED BY <1>2, <2>1, <2>3, <3>1, FileStays DEF KnownDone
  <2> QED BY <2>2, <2>3, DriveStep
<1> QED BY <1>1, <1>2, DoneStep DEF KnownDone

LEMMA DriveInit == Pack!Init => DriveInv
<1> SUFFICES ASSUME Pack!Init PROVE DriveInv
  OBVIOUS
<1> USE DEF Pack!Init
<1>1. CallTypes
  BY DEF CallTypes, Place, VideoMade, Pack!NoUpload, Pack!NoIds
<1>2. DiskTypes
  BY DEF DiskTypes, Pack!NoDir
<1>3. Len(drive) = 0 /\ IsSeq(drive)
  BY DEF IsSeq
<1>4. DriveTypes /\ NoTwins
  BY <1>3 DEF DriveTypes, NoTwins
<1>5. LocksHeld /\ Uploading
  BY DEF LocksHeld, Uploading, KnownUpload
<1> QED BY <1>1, <1>2, <1>4, <1>5 DEF DriveInv

LEMMA PackagingInit == Pack!Init => Packaging /\ Completed
<1> SUFFICES ASSUME Pack!Init PROVE Packaging /\ Completed
  OBVIOUS
<1> USE DEF Pack!Init
<1>1. ASSUME NEW p \in Pack!Packager PROVE phase[p] = "idle" /\ got[p] = Pack!NoIds
  OBVIOUS
<1>2. Packaging
  BY <1>1 DEF Packaging, LocalKnown, NotDone, OwnVideo, VideoMade, NoIdsYet, OwnMetadata,
       Uploaded, HasVideoUp, Late
<1>3. Completed
  BY DEF Completed, KnownDone
<1> QED BY <1>2, <1>3

LEMMA PackageInvKept == DistinctNames /\ PackageInv /\ [Pack!Next]_Pack!vars => PackageInv'
<1> SUFFICES ASSUME DistinctNames, PackageInv, [Pack!Next]_Pack!vars PROVE PackageInv'
  OBVIOUS
<1> USE DEF PackageInv
<1>1. DriveInv'
  BY DriveInvKept
<1>2. ASSUME NEW q \in Pack!Packager PROVE LocalKnown(q)' /\ Uploaded(q)'
  <2>1. LocalKnown(q)
    BY DEF Packaging
  <2>2. LocalKnown(q)'
    BY <2>1, NotDoneKept, OwnVideoKept, NoIdsYetKept, OwnMetadataKept DEF LocalKnown, DriveInv
  <2>3. Uploaded(q)'
    BY UploadedKept
  <2> QED BY <2>2, <2>3
<1>3. Packaging'
  BY <1>2 DEF Packaging
<1>4. Completed'
  BY CompletedKept DEF Completed
<1> QED BY <1>1, <1>3, <1>4

\* A start waits for the lock, and a recording that goes on is not packaged, so the recording a
\* call packages stays as it is.
LEMMA CurrentRecordedKept ==
  ASSUME CurrentOnly, CallTypes, LocksHeld, CurrentRecorded, [Pack!Next]_Pack!vars
  PROVE  CurrentRecorded'
<1> USE DEF Pack!disk, Pack!callVars, Pack!history, CallTypes, LocksHeld, CurrentRecorded
<1>1. ASSUME NEW r \in Run,
             \/ Pack!Expires(r) \/ Pack!DeleteArtifact(r)
             \/ Pack!RenameChecks(r, "mp4", "extra")
             \/ Pack!RenameChecks(r, "extra", "mp4")
      PROVE  CurrentRecorded'
  BY <1>1 DEF Pack!Expires, Pack!DeleteArtifact, Pack!Changed, Pack!Touch,
       Pack!ArtifactRequest, Pack!RenameChecks
<1>2. ASSUME Pack!RenameMoves PROVE CurrentRecorded'
  BY <1>2 DEF Pack!RenameMoves, Pack!Changed, Pack!Touch
<1>3. ASSUME NEW p \in Pack!Packager, NEW r \in Run, Pack!PackageBegins(p, r) PROVE CurrentRecorded'
  BY <1>3 DEF Pack!PackageBegins, Pack!Changed, Pack!Requested, Pack!LockFree
<1>4. ASSUME NEW p \in Pack!Packager,
             \/ Pack!RemuxEnds(p) \/ Pack!OldVideoRemoved(p)
             \/ Pack!NewVideoRenamed(p) \/ Pack!SidecarsCopied(p)
      PROVE  CurrentRecorded'
  BY <1>4 DEF Pack!RemuxEnds, Pack!Changed, Pack!OldVideoRemoved, Pack!NewVideoRenamed,
       Pack!SidecarsCopied, Pack!NextUpload
<1>5. ASSUME NEW p \in Pack!Packager,
             \/ Pack!DriveFinds(p) \/ Pack!DrivePuts(p) \/ Pack!UploadRetried(p)
             \/ Pack!DryRunUploads(p)
      PROVE  CurrentRecorded'
  BY <1>5 DEF Pack!DriveFinds, Pack!DrivePuts, Pack!UploadRetried, Pack!NextUpload,
       Pack!DryRunUploads
<1>6. ASSUME NEW p \in Pack!Packager, Pack!MetadataRecorded(p) PROVE CurrentRecorded'
  BY <1>6 DEF Pack!MetadataRecorded, Pack!Changed, Pack!NextUpload, Pack!Described
<1>7. ASSUME NEW p \in Pack!Packager,
             Pack!DirectoryChecked(p) \/ Pack!DirectoryRemoved(p)
      PROVE  CurrentRecorded'
  BY <1>7 DEF Pack!DirectoryChecked, Pack!DirectoryRemoved
<1>8. ASSUME NEW p \in Pack!Packager,
             \/ Pack!UploadFails(p) \/ Pack!PackageCompletes(p)
             \/ Pack!PackageFails(p)
      PROVE  CurrentRecorded'
  BY <1>8 DEF Pack!UploadFails, Pack!Returned, Pack!PackageCompletes, Pack!PackageFails
<1>9. ASSUME NEW s \in Pack!Stream, Pack!RunEnds(s) PROVE CurrentRecorded'
  BY <1>9 DEF Pack!RunEnds
<1>10. ASSUME Pack!Crash \/ UNCHANGED Pack!vars PROVE CurrentRecorded'
  BY <1>10 DEF Pack!Crash, Pack!vars
<1>11. ASSUME NEW r \in Run, Pack!StartRun(r) PROVE CurrentRecorded'
  <2>1. /\ StreamOf[r] \notin locks /\ UNCHANGED <<phase, job>>
        /\ recording' = [recording EXCEPT ![StreamOf[r]] = [run |-> r, whole |-> FALSE]]
    BY <1>11 DEF Pack!StartRun
  <2>2. \A p \in Pack!Packager : phase[p] # "idle" =>
          StreamOf[job[p]] # StreamOf[r] /\ StreamOf[job[p]] \in Pack!Stream
    BY <2>1 DEF Pack!Stream
  <2> QED BY <2>1, <2>2
<1> QED BY <1>11, <1>1, <1>2, <1>3, <1>4, <1>5, <1>6, <1>7, <1>8, <1>9, <1>10 DEF Pack!Next,
     Pack!PackageStep

\* A directory gets only videos of its own run ...
LEMMA OneDirectory ==
  ASSUME DiskTypes, OwnFiles, NEW r \in Run, NEW g, final' = [final EXCEPT ![r] = g],
         OfRun(r, g.mp4), OfRun(r, g.extra), OfRun(r, g.temp)
  PROVE  OwnFiles'
  BY DEF OwnFiles, DiskTypes

\* ... for remux takes the recording of the call's run, and all others move what is there.
LEMMA OwnFilesKept ==
  ASSUME CallTypes, LocksHeld, DiskTypes, CurrentRecorded, OwnFiles, [Pack!Next]_Pack!vars
  PROVE  OwnFiles'
<1>0. ASSUME NEW r \in Run
      PROVE  /\ DOMAIN final[r] = {"exists", "old", "mp4", "temp", "meta", "extra"}
             /\ OfRun(r, final[r].mp4) /\ OfRun(r, final[r].extra) /\ OfRun(r, final[r].temp)
  BY DEF DiskTypes, OwnFiles
<1>1. ASSUME NEW r \in Run, Pack!Expires(r) \/ Pack!DeleteArtifact(r) PROVE OwnFiles'
  <2>1. PICK f : /\ final' = [final EXCEPT ![r] = f]
                 /\ f = [final[r] EXCEPT !.old = TRUE] \/
                      f = [final[r] EXCEPT !.mp4 = None, !.exists = TRUE, !.old = FALSE]
    BY <1>1, <1>0 DEF Pack!Expires, Pack!DeleteArtifact, Pack!Changed, DiskTypes
  <2>2. OfRun(r, f.mp4) /\ OfRun(r, f.extra) /\ OfRun(r, f.temp)
    BY <1>0, <2>1 DEF OfRun
  <2> QED BY <2>1, <2>2, OneDirectory
<1>2. ASSUME Pack!RenameMoves PROVE OwnFiles'
  <2> DEFINE r == renaming.run
             old == final[r]
             new == [old EXCEPT ![renaming.to] = old[renaming.from], ![renaming.from] = None]
             f == [new EXCEPT !.exists = TRUE, !.old = FALSE]
  <2>1. /\ r \in Run /\ {renaming.from, renaming.to} \subseteq {"mp4", "extra"}
        /\ UNCHANGED final \/ final' = [final EXCEPT ![r] = f]
    BY <1>2 DEF Pack!RenameMoves, Pack!Changed, DiskTypes
  <2>2. OfRun(r, f.mp4) /\ OfRun(r, f.extra) /\ OfRun(r, f.temp)
    BY <1>0, <2>1 DEF OfRun
  <2> HIDE DEF r, f
  <2>3. CASE UNCHANGED final
    BY <2>3 DEF OwnFiles
  <2>4. CASE final' = [final EXCEPT ![r] = f]
    BY <2>1, <2>2, <2>4, OneDirectory
  <2> QED BY <2>1, <2>3, <2>4
<1>3. ASSUME NEW p \in Pack!Packager, NEW r \in Run, Pack!PackageBegins(p, r) PROVE OwnFiles'
  <2> DEFINE f == [final[r] EXCEPT !.exists = TRUE, !.old = FALSE]
  <2>1. final' = [final EXCEPT ![r] = f]
    BY <1>3 DEF Pack!PackageBegins, Pack!Changed
  <2>2. OfRun(r, f.mp4) /\ OfRun(r, f.extra) /\ OfRun(r, f.temp)
    BY <1>0
  <2> QED BY <2>1, <2>2, OneDirectory
<1>4. ASSUME NEW p \in Pack!Packager, Pack!RemuxEnds(p) PROVE OwnFiles'
  <2>0. job[p] \in Run /\ recording[StreamOf[job[p]]].run = job[p]
    <3>1. phase[p] # "idle"
      BY <1>4 DEF Pack!RemuxEnds
    <3>2. job[p] \in Run
      BY <3>1 DEF LocksHeld
    <3>3. recording[StreamOf[job[p]]] = [run |-> job[p], whole |-> TRUE]
      BY <3>1 DEF CurrentRecorded
    <3> QED BY <3>2, <3>3
  <2>1. PICK video : video.run = job[p] /\ final' =
          [final EXCEPT ![job[p]] = [[final[job[p]] EXCEPT !.temp = video]
             EXCEPT !.exists = TRUE, !.old = FALSE]]
    BY <1>4, <2>0 DEF Pack!RemuxEnds, Pack!Changed
  <2> DEFINE f == [[final[job[p]] EXCEPT !.temp = video] EXCEPT !.exists = TRUE, !.old = FALSE]
  <2>2. OfRun(job[p], f.mp4) /\ OfRun(job[p], f.extra) /\ OfRun(job[p], f.temp)
    BY <1>0, <2>0, <2>1 DEF OfRun
  <2> QED BY <2>0, <2>1, <2>2, OneDirectory
<1>5. ASSUME NEW p \in Pack!Packager,
             \/ Pack!OldVideoRemoved(p) \/ Pack!NewVideoRenamed(p)
             \/ Pack!SidecarsCopied(p) \/ Pack!MetadataRecorded(p)
             \/ Pack!UploadFails(p) \/ Pack!PackageCompletes(p) \/ Pack!PackageFails(p)
      PROVE  OwnFiles'
  <2>0. job[p] \in Run
    BY <1>5 DEF Pack!OldVideoRemoved, Pack!NewVideoRenamed, Pack!SidecarsCopied,
         Pack!MetadataRecorded, Pack!UploadFails, Pack!PackageCompletes, Pack!PackageFails,
         LocksHeld
  <2> DEFINE old == final[job[p]]
  <2>1. PICK g : /\ final' = [final EXCEPT ![job[p]] = g]
                 /\ OfRun(job[p], g.mp4) /\ OfRun(job[p], g.extra) /\ OfRun(job[p], g.temp)
    <3>1. CASE Pack!OldVideoRemoved(p)
      <4> WITNESS [[old EXCEPT !.mp4 = None] EXCEPT !.exists = TRUE, !.old = FALSE]
      <4> QED BY <1>0, <2>0, <3>1 DEF Pack!OldVideoRemoved, Pack!Changed, OfRun
    <3>2. CASE Pack!NewVideoRenamed(p)
      <4> WITNESS [[old EXCEPT !.mp4 = old.temp, !.temp = None]
                     EXCEPT !.exists = TRUE, !.old = FALSE]
      <4> QED BY <1>0, <2>0, <3>2 DEF Pack!NewVideoRenamed, Pack!Changed, OfRun
    <3>3. CASE Pack!SidecarsCopied(p)
      <4> WITNESS [old EXCEPT !.exists = TRUE, !.old = FALSE]
      <4> QED BY <1>0, <2>0, <3>3 DEF Pack!SidecarsCopied, Pack!Changed
    <3>4. CASE Pack!MetadataRecorded(p)
      <4> WITNESS [[old EXCEPT !.meta = Pack!Described(p)] EXCEPT !.exists = TRUE, !.old = FALSE]
      <4> QED BY <1>0, <2>0, <3>4 DEF Pack!MetadataRecorded, Pack!Changed
    <3>5. CASE Pack!UploadFails(p) \/ Pack!PackageCompletes(p) \/ Pack!PackageFails(p)
      <4> WITNESS [old EXCEPT !.temp = None]
      <4> QED BY <1>0, <2>0, <3>5 DEF Pack!UploadFails, Pack!PackageCompletes, Pack!PackageFails,
                   Pack!Returned, DiskTypes, OfRun
    <3> QED BY <1>5, <3>1, <3>2, <3>3, <3>4, <3>5
  <2> QED BY <2>0, <2>1, OneDirectory
<1>6. ASSUME NEW p \in Pack!Packager, Pack!DirectoryRemoved(p) PROVE OwnFiles'
  BY <1>6 DEF Pack!DirectoryRemoved, OwnFiles, OfRun, Pack!NoDir
<1>7. ASSUME UNCHANGED final PROVE OwnFiles'
  BY <1>7 DEF OwnFiles
<1>8. ASSUME NEW p \in Pack!Packager,
             \/ Pack!DriveFinds(p) \/ Pack!DrivePuts(p) \/ Pack!UploadRetried(p)
             \/ Pack!DryRunUploads(p) \/ Pack!DirectoryChecked(p)
      PROVE  UNCHANGED final
  BY <1>8 DEF Pack!DriveFinds, Pack!DrivePuts, Pack!UploadRetried, Pack!DryRunUploads,
       Pack!DirectoryChecked, Pack!disk
<1>9. ASSUME \/ UNCHANGED Pack!vars \/ Pack!Crash
             \/ \E s \in Pack!Stream : Pack!RunEnds(s)
             \/ \E q \in Run : \/ Pack!StartRun(q)
                               \/ Pack!RenameChecks(q, "mp4", "extra")
                               \/ Pack!RenameChecks(q, "extra", "mp4")
      PROVE  UNCHANGED final
  BY <1>9 DEF Pack!vars, Pack!Crash, Pack!RunEnds, Pack!StartRun, Pack!RenameChecks, Pack!disk
<1> QED BY <1>1, <1>2, <1>3, <1>4, <1>5, <1>6, <1>7, <1>8, <1>9 DEF Pack!Next, Pack!PackageStep

\* A put brings the video of its run into the folder of that run.
LEMMA OwnObjectsKept ==
  ASSUME DriveInv, OwnFiles, OwnObjects, [Pack!Next]_Pack!vars
  PROVE  OwnObjects'
<1> USE DEF DriveInv
<1>1. CASE UNCHANGED drive
  BY <1>1 DEF OwnObjects, FileOf, RunFolder, StreamFolder
<1>2. ASSUME NEW p \in Pack!Packager, Puts(p), NEW i \in 1..Len(drive'), drive'[i].name = "mp4",
             drive'[i].content # None
      PROVE  \E r \in Run :
               drive'[i].content.run = r /\ FileOf(drive', i, "mp4", drive'[i].parent, r)
  <2>1. KnownUpload(p) /\ up[p].level \in 1..3 /\ InPlace(p) /\ job[p] \in Run
    BY <1>2 DEF Uploading, KnownUpload, Puts, LocksHeld
  <2>2. /\ Grows
        /\ drive'[Pack!IdAfterPut(p)].name = Pack!Wanted(p).name
        /\ drive'[Pack!IdAfterPut(p)].parent = up[p].parent
        /\ drive'[Pack!IdAfterPut(p)].content = Pack!Content(p)
        /\ \A k \in 1..Len(drive') : k # Pack!IdAfterPut(p) =>
             k \in 1..Len(drive) /\ drive'[k] = drive[k]
    BY <1>2, <2>1, PutEffect
  <2>3. CASE i = Pack!IdAfterPut(p)
    <3>0. Pack!Content(p) # None /\ Pack!Wanted(p).name = "mp4"
      BY <1>2, <2>2, <2>3
    <3>1. up[p].level = 3 /\ up[p].file = "mp4" /\ Pack!Content(p) = final[job[p]].mp4
      <4>1. up[p].level = 3
        BY <2>1, <3>0 DEF Pack!Content
      <4>2. up[p].file = "mp4"
        BY <3>0, <4>1 DEF Pack!Wanted
      <4> QED BY <4>1, <4>2 DEF Pack!Content
    <3>2. Pack!Content(p).run = job[p]
      BY <1>2, <2>1, <2>2, <2>3, <3>1 DEF OwnFiles, OfRun
    <3>3. RunFolder(drive', up[p].parent, job[p])
      BY <2>1, <2>2, <3>1, FoldersStay DEF InPlace
    <3> QED BY <1>2, <2>1, <2>2, <2>3, <3>2, <3>3 DEF FileOf
  <2>4. CASE i # Pack!IdAfterPut(p)
    <3>1. i \in 1..Len(drive) /\ drive'[i] = drive[i]
      BY <2>2, <2>4
    <3>2. PICK r \in Run : drive[i].content.run = r /\ FileOf(drive, i, "mp4", drive[i].parent, r)
      BY <1>2, <3>1 DEF OwnObjects
    <3>3. FileOf(drive', i, "mp4", drive[i].parent, r)
      BY <2>2, <3>2, FoldersStay
    <3> QED BY <3>1, <3>2, <3>3
  <2> QED BY <2>3, <2>4
<1> QED BY <1>1, <1>2, DriveStep DEF OwnObjects

LEMMA KeepInvKept == CurrentOnly /\ KeepInv /\ [Pack!Next]_Pack!vars => KeepInv'
<1> SUFFICES ASSUME CurrentOnly, KeepInv, [Pack!Next]_Pack!vars PROVE KeepInv'
  OBVIOUS
<1> USE DEF KeepInv
<1>1. CurrentRecorded' /\ OwnFiles'
  BY CurrentRecordedKept, OwnFilesKept DEF DriveInv
<1> QED BY <1>1, DriveInvKept, OwnObjectsKept

\* What a step of packaging leaves of the videos of another run.
LEMMA OtherVideosStay ==
  ASSUME DriveInv, OwnObjects, NEW p \in Pack!Packager, Puts(p) \/ UNCHANGED drive, NEW r \in Run,
         r # job[p], NEW i \in 1..Len(drive), drive[i].name = "mp4", Holds(r, drive[i].content)
  PROVE  i \in 1..Len(drive') /\ drive'[i] = drive[i]
<1>1. CASE UNCHANGED drive
  BY <1>1
<1>2. CASE Puts(p)
  <2>1. FileOf(drive, i, "mp4", drive[i].parent, r) /\ drive[i].parent \in Nat
    BY DEF OwnObjects, Holds, DriveInv, DriveTypes
  <2>2. drive'[i] = drive[i] /\ FileOf(drive', i, "mp4", drive[i].parent, r)
    BY <1>2, <2>1, FileStays
  <2> QED BY <2>2 DEF FileOf
<1> QED BY <1>1, <1>2

\* The files of another run are not touched, except that retention removes its directory.
LEMMA OtherDirectoriesStay ==
  ASSUME CallTypes, LocksHeld, DiskTypes, Uploading, NEW p \in Pack!Packager, Pack!PackageStep(p)
  PROVE  /\ phase[p] # "idle" /\ job[p] \in Run /\ UNCHANGED recording
         /\ Puts(p) \/ UNCHANGED drive
         /\ \A r \in Run : r # job[p] =>
              final'[r] = final[r] \/ (phase[p] = "expire" /\ r \in todo[p])
<1> DEFINE Goal == /\ phase[p] # "idle" /\ job[p] \in Run /\ UNCHANGED recording
                   /\ Puts(p) \/ UNCHANGED drive
                   /\ \A r \in Run : r # job[p] =>
                        final'[r] = final[r] \/ (phase[p] = "expire" /\ r \in todo[p])
<1> USE DEF Pack!disk, Pack!callVars, Pack!history, CallTypes, LocksHeld, DiskTypes, Puts,
     Uploading, KnownUpload
<1>1. ASSUME \/ Pack!RemuxEnds(p) \/ Pack!OldVideoRemoved(p)
             \/ Pack!NewVideoRenamed(p) \/ Pack!SidecarsCopied(p)
      PROVE  Goal
  BY <1>1 DEF Pack!RemuxEnds, Pack!Changed, Pack!OldVideoRemoved, Pack!NewVideoRenamed,
       Pack!SidecarsCopied
<1>2. ASSUME \/ Pack!DriveFinds(p) \/ Pack!DrivePuts(p) \/ Pack!UploadRetried(p)
             \/ Pack!DryRunUploads(p)
      PROVE  Goal
  BY <1>2 DEF Pack!DriveFinds, Pack!DrivePuts, Pack!UploadRetried, Pack!DryRunUploads
<1>3. ASSUME Pack!MetadataRecorded(p) PROVE Goal
  BY <1>3 DEF Pack!MetadataRecorded, Pack!Changed
<1>4. ASSUME Pack!DirectoryChecked(p) \/ Pack!DirectoryRemoved(p) PROVE Goal
  BY <1>4 DEF Pack!DirectoryChecked, Pack!DirectoryRemoved
<1>5. ASSUME \/ Pack!UploadFails(p) \/ Pack!PackageCompletes(p)
             \/ Pack!PackageFails(p)
      PROVE  Goal
  BY <1>5 DEF Pack!UploadFails, Pack!Returned, Pack!PackageCompletes, Pack!PackageFails
<1> QED BY <1>1, <1>2, <1>3, <1>4, <1>5 DEF Pack!PackageStep

\* A step of a call keeps its own run in the recording, and every other run where it is.
LEMMA PackagingKeeps ==
  ASSUME KeepInv, [Pack!Next]_Pack!vars, <<phase, todo, drive>>' # <<phase, todo, drive>>,
         NEW r \in Run, Kept(r)
  PROVE  Kept(r)' \/ \E p \in Pack!Packager : phase[p] = "expire" /\ r \in todo[p]
<1> DEFINE Goal == Kept(r)' \/ \E p \in Pack!Packager : phase[p] = "expire" /\ r \in todo[p]
<1> USE DEF KeepInv, DriveInv
<1>1. ASSUME UNCHANGED <<recording, drive>>,
             \A f \in {"mp4", "extra"} : final'[r][f] = final[r][f]
      PROVE  Goal
  BY <1>1 DEF Kept, Holds
<1>2. ASSUME NEW p \in Pack!Packager, Pack!PackageStep(p) PROVE Goal
  <2>1. /\ phase[p] # "idle" /\ job[p] \in Run /\ UNCHANGED recording
        /\ Puts(p) \/ UNCHANGED drive
        /\ r # job[p] => final'[r] = final[r] \/ (phase[p] = "expire" /\ r \in todo[p])
    BY <1>2, OtherDirectoriesStay
  <2>2. CASE r = job[p]
    BY <2>1, <2>2 DEF CurrentRecorded, Kept
  <2>3. CASE r # job[p] /\ final'[r] = final[r]
    <3>1. \A i \in 1..Len(drive) : drive[i].name = "mp4" /\ Holds(r, drive[i].content) =>
            i \in 1..Len(drive') /\ drive'[i] = drive[i]
      BY <2>1, <2>3, OtherVideosStay
    <3> QED BY <2>1, <2>3, <3>1 DEF Kept, Holds
  <2> QED BY <2>1, <2>2, <2>3
<1>3. ASSUME NEW p \in Pack!Packager, NEW q \in Run, Pack!PackageBegins(p, q) PROVE Goal
  <2>1. UNCHANGED <<recording, drive>> /\ \A f \in {"mp4", "extra"} : final'[r][f] = final[r][f]
    BY <1>3 DEF Pack!PackageBegins, Pack!Changed, DiskTypes
  <2> QED BY <1>1, <2>1
<1>4. CASE Pack!Crash
  <2>1. UNCHANGED <<recording, drive, final>>
    BY <1>4 DEF Pack!Crash, Pack!disk
  <2> QED BY <1>1, <2>1
<1>5. ASSUME \/ UNCHANGED Pack!vars \/ Pack!RenameMoves
             \/ \E s \in Pack!Stream : Pack!RunEnds(s)
             \/ \E q \in Run : \/ Pack!StartRun(q) \/ Pack!Expires(q) \/ Pack!DeleteArtifact(q)
                               \/ Pack!RenameChecks(q, "mp4", "extra")
                               \/ Pack!RenameChecks(q, "extra", "mp4")
      PROVE  FALSE
  <2>1. UNCHANGED <<phase, todo, drive>>
    BY <1>5 DEF Pack!vars, Pack!callVars, Pack!RenameMoves, Pack!RunEnds, Pack!StartRun,
         Pack!Expires, Pack!DeleteArtifact, Pack!RenameChecks
  <2> QED BY <2>1
<1> QED BY <1>2, <1>3, <1>4, <1>5 DEF Pack!Next

LEMMA KeepInit == Pack!Init => KeepInv
<1> SUFFICES ASSUME Pack!Init PROVE KeepInv
  OBVIOUS
<1>1. CurrentRecorded
  BY DEF Pack!Init, CurrentRecorded
<1>2. OwnFiles
  BY DEF Pack!Init, Pack!NoDir, OwnFiles, OfRun
<1>3. Len(drive) = 0
  BY DEF Pack!Init
<1>4. OwnObjects
  BY <1>3 DEF OwnObjects
<1> QED BY <1>1, <1>2, <1>4, DriveInit DEF KeepInv

\* What the calls know of the Drive stays true through any answers, lost answers, retries, crashes
\* and calls for other streams (RetryUploader, ensureDriveFolder, uploadFile). It needs no
\* assumption on the names of the streams.
THEOREM DriveInvariant == Pack!Spec => []DriveInv
<1>1. Pack!Init => DriveInv
  BY DriveInit
<1>2. DriveInv /\ [Pack!Next]_Pack!vars => DriveInv'
  BY DriveInvKept
<1> QED BY <1>1, <1>2, PTL DEF Pack!Spec

\* The same of what was uploaded and reported, when every stream has a name of its own
\* (uploadArchiveFiles).
THEOREM PackageInvariant == DistinctNames => (Pack!Spec => []PackageInv)
<1> SUFFICES ASSUME DistinctNames PROVE Pack!Spec => []PackageInv
  OBVIOUS
<1>1. Pack!Init => PackageInv
  BY DriveInit, PackagingInit DEF PackageInv
<1>2. PackageInv /\ [Pack!Next]_Pack!vars => PackageInv'
  BY PackageInvKept
<1> QED BY <1>1, <1>2, PTL DEF Pack!Spec

\* Whatever the streams are called, only the folders of streams of one name may be doubled: neither
\* a retry nor a lost answer nor a crash doubles an object (ensureDriveFolder, uploadFile).
THEOREM OnlySharedNamesDouble == Pack!Spec => []NoTwins
<1>1. DriveInv => NoTwins
  BY DEF DriveInv
<1> QED BY <1>1, DriveInvariant, PTL

\* When every stream has a name of its own, the Drive never has two objects of one name in one
\* folder (ensureDriveFolder and uploadFile look before they create).
THEOREM ObjectsNotDoubled == DistinctNames => (Pack!Spec => []NoDuplicateObjects)
<1> SUFFICES ASSUME DistinctNames PROVE Pack!Spec => []NoDuplicateObjects
  OBVIOUS
<1>1. DriveInv => NoDuplicateObjects
  BY DEF DriveInv, NoTwins, DistinctNames, Shared, NoDuplicateObjects
<1> QED BY <1>1, DriveInvariant, PTL

\* And a package reported as completed has its video and its metadata in one folder under the ids
\* it recorded, until the run is packaged again (uploadArchiveFiles, acquirePackageLock).
THEOREM CompletedStaysUploaded == Pack!ArchiveAssumption /\ DistinctNames => (Pack!Spec =>
  []CompletedIsUploaded)
<1> SUFFICES ASSUME Pack!ArchiveAssumption, DistinctNames
             PROVE  Pack!Spec => []CompletedIsUploaded
  OBVIOUS
<1>1. ASSUME PackageInv PROVE CompletedIsUploaded
  <2> SUFFICES ASSUME NEW r \in Uploads, done[r] # None
               PROVE  LET ids == done[r].ids IN
                        /\ drive[ids.mp4] = [name |-> "mp4", parent |-> ids.folder,
                             content |-> done[r].video]
                        /\ drive[ids.metadata].parent = ids.folder
                        /\ drive[ids.metadata].content.partial = done[r].video.partial
                        /\ drive[ids.metadata].content.ids.mp4 = ids.mp4
    BY DEF CompletedIsUploaded
  <2> DEFINE ids == done[r].ids
             o == drive[ids.mp4]
  <2>1. r \in Run
    BY DEF Pack!ArchiveAssumption
  <2>2. KnownDone(r)
    BY <1>1, <2>1 DEF PackageInv, Completed
  <2>3. /\ ids.mp4 \in 1..Len(drive) /\ o.name = "mp4" /\ o.parent = ids.folder /\
             o.content = done[r].video
        /\ drive[ids.metadata].parent = ids.folder
        /\ drive[ids.metadata].content.partial = done[r].video.partial
        /\ drive[ids.metadata].content.ids.mp4 = ids.mp4
    BY <2>2 DEF KnownDone, FileOf
  <2>4. DriveTypes
    BY <1>1 DEF PackageInv, DriveInv
  <2>5. o = [name |-> o.name, parent |-> o.parent, content |-> o.content]
    BY <2>3, <2>4 DEF DriveTypes
  <2>6. o = [name |-> "mp4", parent |-> ids.folder, content |-> done[r].video]
    BY <2>3, <2>5
  <2> QED BY <2>3, <2>6
<1> QED BY <1>1, PackageInvariant, PTL

\* When a run is packaged before its stream is started again, the videos in its directory and in
\* its folder are its own (packageArchive, StartPreparation).
THEOREM VideosOfTheirRuns == CurrentOnly => (Pack!Spec => []KeepInv)
<1> SUFFICES ASSUME CurrentOnly PROVE Pack!Spec => []KeepInv
  OBVIOUS
<1>1. Pack!Init => KeepInv
  BY KeepInit
<1>2. KeepInv /\ [Pack!Next]_Pack!vars => KeepInv'
  BY KeepInvKept
<1> QED BY <1>1, <1>2, PTL DEF Pack!Spec

\* And then packaging never takes away the last copy of a recording, for any number of runs and
\* calls, failures, crashes and artifact requests (replaceFileNoSymlink, uploadFile,
\* cleanupExpiredLocalArchives).
THEOREM RecordingsKept == CurrentOnly => (Pack!Spec => PackagingNeverLoses)
<1> SUFFICES ASSUME CurrentOnly PROVE Pack!Spec => PackagingNeverLoses
  OBVIOUS
<1> DEFINE Keeps == (\E p \in Packager : phase[p] # "idle") =>
                      \A r \in Run : Kept(r) =>
                        \/ Kept(r)'
                        \/ \E p \in Packager : phase[p] = "expire" /\ r \in todo[p]
<1>1. KeepInv /\ [Pack!Next]_Pack!vars => [Keeps]_<<phase, todo, drive>>
  BY PackagingKeeps DEF Packager, Pack!Packager
<1> QED BY <1>1, VideosOfTheirRuns, PTL DEF Pack!Spec, PackagingNeverLoses
=============================================================================
