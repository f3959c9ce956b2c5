------------------------- MODULE StopReceipt_proofs -------------------------
(***************************************************************************)
(* Proofs about StopReceipt, for any number of starts and stops of the     *)
(* stream: an answered stop is remembered, a receipt stands for a child    *)
(* that is gone, and a receipt whose removal was synced does not come      *)
(* back, across failed syncs, expiry and power losses.                     *)
(***************************************************************************)
EXTENDS StopReceipt, TLAPS

Over == {"packaging", "failed", "completed", "package_failed"}
WrittenBy == {"written", "answered", "over"}

\* What the places of one run say about each other.  A run is started once, and is told to stop
\* once, so what is past "running" never comes back to it.
RunPlaces(r) ==
  /\ status[r] = "starting" => starter[r] \in {"reserved", "over"}
  /\ status[r] \in {"running", "stopping"} \cup Over => starter[r] = "started"
  /\ exited[r] => status[r] \in Over
  /\ stopper[r] # "none" => starter[r] = "started" /\ status[r] \in {"none", "stopping"} \cup Over
  /\ entry = r => status[r] # "none"

Places == \A r \in Run : RunPlaces(r)

\* A receipt was written by a stop that will not write again: this is so of the files, of those
\* that have expired and of those a start has found.
WrittenOnce ==
  /\ \A r \in Run : (receipt = r \/ durable = r \/ r \in expired) => stopper[r] \in WrittenBy
  /\ \A q, r \in Run : r \in inherited[q] => stopper[r] \in WrittenBy

\* Between the removal of a receipt and the sync the file does not come back, and a start that
\* has synced is past its removal.
Removal ==
  /\ \A r \in Run : starter[r] = "removed" => receipt \notin inherited[r]
  /\ \A r \in synced : starter[r] # "idle"

\* A start that is under way counts as one since the stop, and without one nobody else gets
\* into the slot.
SinceStop ==
  \A r \in Run : stopper[r] # "none" =>
    /\ \A q \in Run : Starting(q) => q \in since[r]
    /\ since[r] = {} => entry \in {r, NoRun}

\* The receipt of a stop, or one that was written after it, is in place, and once the stop is
\* answered a power loss leaves it there.
Valid(r) == r # NoRun /\ r \notin expired

StillThere ==
  \A r \in Run : since[r] = {} /\ r \notin expired =>
    /\ stopper[r] \in {"written", "answered"} => Valid(receipt)
    /\ stopper[r] = "answered" => Valid(durable)

ReceiptInv ==
  /\ TypeOK /\ Places /\ WrittenOnce /\ Removal /\ SinceStop /\ StillThere
  /\ ReceiptMeansExit /\ SyncedRemovalIsFinal

LEMMA ReceiptInit == Init => ReceiptInv
<1> SUFFICES ASSUME Init PROVE ReceiptInv
  OBVIOUS
<1> USE ReceiptAssumption DEF Init
<1>1. TypeOK
  BY DEF TypeOK
<1>2. Places /\ WrittenOnce /\ Removal
  BY DEF Places, RunPlaces, Over, WrittenOnce, Removal
<1>3. SinceStop /\ StillThere
  BY DEF SinceStop, StillThere
<1>4. ReceiptMeansExit /\ SyncedRemovalIsFinal
  BY DEF ReceiptMeansExit, SyncedRemovalIsFinal
<1> QED BY <1>1, <1>2, <1>3, <1>4 DEF ReceiptInv

\* Every step keeps the types.
LEMMA TypesKept ==
  ASSUME TypeOK, [Next]_vars
  PROVE  TypeOK'
<1> USE ReceiptAssumption DEF memory, disk, history
<1>1. ASSUME NEW r \in Run, StartRemovesReceipt(r) PROVE TypeOK'
  BY <1>1 DEF StartRemovesReceipt, TypeOK
<1>2. ASSUME NEW r \in Run, StartSyncsClear(r) PROVE TypeOK'
  BY <1>2 DEF StartSyncsClear, TypeOK
<1>3. ASSUME NEW r \in Run, StartSyncFails(r) PROVE TypeOK'
  BY <1>3 DEF StartSyncFails, TypeOK
<1>4. ASSUME NEW r \in Run, StartReserves(r) PROVE TypeOK'
  BY <1>4 DEF StartReserves, TypeOK
<1>5. ASSUME NEW r \in Run, StartRefused(r) PROVE TypeOK'
  BY <1>5 DEF StartRefused, TypeOK
<1>6. ASSUME NEW r \in Run, StartFails(r) PROVE TypeOK'
  BY <1>6 DEF StartFails, TypeOK
<1>7. ASSUME NEW r \in Run, StartRuns(r) PROVE TypeOK'
  BY <1>7 DEF StartRuns, TypeOK
<1>8. ASSUME NEW r \in Run, NEW f \in BOOLEAN, ChildExits(r, f) PROVE TypeOK'
  BY <1>8 DEF ChildExits, TypeOK
<1>9. ASSUME NEW r \in Run, CleaningEnds(r) PROVE TypeOK'
  BY <1>9 DEF CleaningEnds, TypeOK
<1>10. ASSUME NEW r \in Run, PackagingEnds(r) PROVE TypeOK'
  BY <1>10 DEF PackagingEnds, TypeOK
<1>11. ASSUME NEW r \in Run, StopBegins(r) PROVE TypeOK'
  BY <1>11 DEF StopBegins, TypeOK
<1>12. ASSUME NEW r \in Run, StopWritesReceipt(r) PROVE TypeOK'
  BY <1>12 DEF StopWritesReceipt, TypeOK
<1>13. ASSUME NEW r \in Run, StopAnswered(r) PROVE TypeOK'
  BY <1>13 DEF StopAnswered, TypeOK
<1>14. ASSUME NEW r \in Run, StopFails(r) PROVE TypeOK'
  BY <1>14 DEF StopFails, TypeOK
<1>15. CASE ReceiptExpires
  BY <1>15 DEF ReceiptExpires, TypeOK
<1>16. CASE Crash
  BY <1>16 DEF Crash, TypeOK
<1>17. CASE UNCHANGED vars
  BY <1>17 DEF vars, TypeOK
<1> QED BY <1>1, <1>2, <1>3, <1>4, <1>5, <1>6, <1>7, <1>8, <1>9, <1>10, <1>11, <1>12, <1>13,
       <1>14, <1>15, <1>16, <1>17 DEF Next

\* A start is made once and a stop of a run only follows its start.
LEMMA PlacesKept ==
  ASSUME Places, TypeOK, [Next]_vars
  PROVE  Places'
<1> USE ReceiptAssumption DEF memory, disk, history
<1>1. ASSUME NEW r \in Run, StartRemovesReceipt(r) PROVE Places'
  BY <1>1 DEF StartRemovesReceipt, Places, RunPlaces
<1>2. ASSUME NEW r \in Run, StartSyncsClear(r) PROVE Places'
  BY <1>2 DEF StartSyncsClear, Places, RunPlaces
<1>3. ASSUME NEW r \in Run, StartSyncFails(r) PROVE Places'
  BY <1>3 DEF StartSyncFails, Places, RunPlaces
<1>4. ASSUME NEW r \in Run, StartReserves(r) PROVE Places'
  BY <1>4 DEF StartReserves, Places, TypeOK, RunPlaces, Over
<1>5. ASSUME NEW r \in Run, StartRefused(r) PROVE Places'
  BY <1>5 DEF StartRefused, Places, RunPlaces
<1>6. ASSUME NEW r \in Run, StartFails(r) PROVE Places'
  BY <1>6 DEF StartFails, Places, RunPlaces
<1>7. ASSUME NEW r \in Run, StartRuns(r) PROVE Places'
  BY <1>7 DEF StartRuns, Places, TypeOK, RunPlaces
<1>8. ASSUME NEW r \in Run, NEW f \in BOOLEAN, ChildExits(r, f) PROVE Places'
  BY <1>8 DEF ChildExits, Places, TypeOK, RunPlaces, Over
<1>9. ASSUME NEW r \in Run, CleaningEnds(r) PROVE Places'
  BY <1>9 DEF CleaningEnds, Places, RunPlaces
<1>10. ASSUME NEW r \in Run, PackagingEnds(r) PROVE Places'
  BY <1>10 DEF PackagingEnds, Places, RunPlaces, Over
<1>11. ASSUME NEW r \in Run, StopBegins(r) PROVE Places'
  BY <1>11 DEF StopBegins, Places, TypeOK, RunPlaces, Over
<1>12. ASSUME NEW r \in Run, StopWritesReceipt(r) PROVE Places'
  BY <1>12 DEF StopWritesReceipt, Places, RunPlaces
<1>13. ASSUME NEW r \in Run, StopAnswered(r) PROVE Places'
  BY <1>13 DEF StopAnswered, Places, RunPlaces
<1>14. ASSUME NEW r \in Run, StopFails(r) PROVE Places'
  BY <1>14 DEF StopFails, Places, RunPlaces
<1>15. CASE ReceiptExpires
  BY <1>15 DEF ReceiptExpires, Places, RunPlaces
<1>16. CASE Crash
  BY <1>16 DEF Crash, Places, RunPlaces, Over
<1>17. CASE UNCHANGED vars
  BY <1>17 DEF vars, Places, RunPlaces
<1> QED BY <1>1, <1>2, <1>3, <1>4, <1>5, <1>6, <1>7, <1>8, <1>9, <1>10, <1>11, <1>12, <1>13,
       <1>14, <1>15, <1>16, <1>17 DEF Next

\* Only a stop that is waiting writes, so a receipt names a stop that is past its write.
LEMMA WrittenOnceKept ==
  ASSUME WrittenOnce, TypeOK, Places, [Next]_vars
  PROVE  WrittenOnce'
<1> USE ReceiptAssumption DEF memory, disk, history
<1>1. ASSUME NEW r \in Run, StartRemovesReceipt(r) PROVE WrittenOnce'
  BY <1>1 DEF StartRemovesReceipt, WrittenOnce
<1>2. ASSUME NEW r \in Run, StartSyncsClear(r) PROVE WrittenOnce'
  BY <1>2 DEF StartSyncsClear, WrittenOnce
<1>3. ASSUME NEW r \in Run, StartSyncFails(r) PROVE WrittenOnce'
  BY <1>3 DEF StartSyncFails, WrittenOnce
<1>4. ASSUME NEW r \in Run, StartReserves(r) PROVE WrittenOnce'
  BY <1>4 DEF StartReserves, WrittenOnce
<1>5. ASSUME NEW r \in Run, StartRefused(r) PROVE WrittenOnce'
  BY <1>5 DEF StartRefused, WrittenOnce
<1>6. ASSUME NEW r \in Run, StartFails(r) PROVE WrittenOnce'
  BY <1>6 DEF StartFails, WrittenOnce
<1>7. ASSUME NEW r \in Run, StartRuns(r) PROVE WrittenOnce'
  BY <1>7 DEF StartRuns, WrittenOnce
<1>8. ASSUME NEW r \in Run, NEW f \in BOOLEAN, ChildExits(r, f) PROVE WrittenOnce'
  BY <1>8 DEF ChildExits, WrittenOnce
<1>9. ASSUME NEW r \in Run, CleaningEnds(r) PROVE WrittenOnce'
  BY <1>9 DEF CleaningEnds, WrittenOnce
<1>10. ASSUME NEW r \in Run, PackagingEnds(r) PROVE WrittenOnce'
  BY <1>10 DEF PackagingEnds, WrittenOnce
<1>11. ASSUME NEW r \in Run, StopBegins(r) PROVE WrittenOnce'
  BY <1>11 DEF StopBegins, WrittenOnce, Places, WrittenBy, RunPlaces, Over
<1>12. ASSUME NEW r \in Run, StopWritesReceipt(r) PROVE WrittenOnce'
  BY <1>12 DEF StopWritesReceipt, WrittenOnce, TypeOK, WrittenBy
<1>13. ASSUME NEW r \in Run, StopAnswered(r) PROVE WrittenOnce'
  BY <1>13 DEF StopAnswered, WrittenOnce, WrittenBy
<1>14. ASSUME NEW r \in Run, StopFails(r) PROVE WrittenOnce'
  BY <1>14 DEF StopFails, WrittenOnce, WrittenBy
<1>15. CASE ReceiptExpires
  BY <1>15 DEF ReceiptExpires, WrittenOnce, WrittenBy
<1>16. CASE Crash
  BY <1>16 DEF Crash, WrittenOnce, WrittenBy
<1>17. CASE UNCHANGED vars
  BY <1>17 DEF vars, WrittenOnce
<1> QED BY <1>1, <1>2, <1>3, <1>4, <1>5, <1>6, <1>7, <1>8, <1>9, <1>10, <1>11, <1>12, <1>13,
       <1>14, <1>15, <1>16, <1>17 DEF Next

\* The stop whose receipt was found has already written, so nobody writes that receipt again.
LEMMA RemovalKept ==
  ASSUME Removal, TypeOK, Places, WrittenOnce, [Next]_vars
  PROVE  Removal'
<1> USE ReceiptAssumption DEF memory, disk, history
<1>1. ASSUME NEW r \in Run, StartRemovesReceipt(r) PROVE Removal'
  BY <1>1 DEF StartRemovesReceipt, Removal, TypeOK
<1>2. ASSUME NEW r \in Run, StartSyncsClear(r) PROVE Removal'
  BY <1>2 DEF StartSyncsClear, Removal
<1>3. ASSUME NEW r \in Run, StartSyncFails(r) PROVE Removal'
  BY <1>3 DEF StartSyncFails, Removal
<1>4. ASSUME NEW r \in Run, StartReserves(r) PROVE Removal'
  BY <1>4 DEF StartReserves, Removal
<1>5. ASSUME NEW r \in Run, StartRefused(r) PROVE Removal'
  BY <1>5 DEF StartRefused, Removal
<1>6. ASSUME NEW r \in Run, StartFails(r) PROVE Removal'
  BY <1>6 DEF StartFails, Removal
<1>7. ASSUME NEW r \in Run, StartRuns(r) PROVE Removal'
  BY <1>7 DEF StartRuns, Removal
<1>8. ASSUME NEW r \in Run, NEW f \in BOOLEAN, ChildExits(r, f) PROVE Removal'
  BY <1>8 DEF ChildExits, Removal
<1>9. ASSUME NEW r \in Run, CleaningEnds(r) PROVE Removal'
  BY <1>9 DEF CleaningEnds, Removal
<1>10. ASSUME NEW r \in Run, PackagingEnds(r) PROVE Removal'
  BY <1>10 DEF PackagingEnds, Removal
<1>11. ASSUME NEW r \in Run, StopBegins(r) PROVE Removal'
  BY <1>11 DEF StopBegins, Removal
<1>12. ASSUME NEW r \in Run, StopWritesReceipt(r) PROVE Removal'
  BY <1>12 DEF StopWritesReceipt, Removal, WrittenOnce, WrittenBy
<1>13. ASSUME NEW r \in Run, StopAnswered(r) PROVE Removal'
  BY <1>13 DEF StopAnswered, Removal
<1>14. ASSUME NEW r \in Run, StopFails(r) PROVE Removal'
  BY <1>14 DEF StopFails, Removal
<1>15. CASE ReceiptExpires
  BY <1>15 DEF ReceiptExpires, Removal
<1>16. CASE Crash
  BY <1>16 DEF Crash, Removal, TypeOK
<1>17. CASE UNCHANGED vars
  BY <1>17 DEF vars, Removal
<1> QED BY <1>1, <1>2, <1>3, <1>4, <1>5, <1>6, <1>7, <1>8, <1>9, <1>10, <1>11, <1>12, <1>13,
       <1>14, <1>15, <1>16, <1>17 DEF Next

\* A start that begins after the stop is counted by it; without one the slot stays with the run.
LEMMA SinceStopKept ==
  ASSUME SinceStop, TypeOK, Places, [Next]_vars
  PROVE  SinceStop'
<1> USE ReceiptAssumption DEF memory, disk, history
<1>1. ASSUME NEW r \in Run, StartRemovesReceipt(r) PROVE SinceStop'
  BY <1>1 DEF StartRemovesReceipt, SinceStop, Starting
<1>2. ASSUME NEW r \in Run, StartSyncsClear(r) PROVE SinceStop'
  BY <1>2 DEF StartSyncsClear, SinceStop, Starting
<1>3. ASSUME NEW r \in Run, StartSyncFails(r) PROVE SinceStop'
  BY <1>3 DEF StartSyncFails, SinceStop, Starting
<1>4. ASSUME NEW r \in Run, StartReserves(r) PROVE SinceStop'
  BY <1>4 DEF StartReserves, SinceStop, Starting
<1>5. ASSUME NEW r \in Run, StartRefused(r) PROVE SinceStop'
  BY <1>5 DEF StartRefused, SinceStop, Starting
<1>6. ASSUME NEW r \in Run, StartFails(r) PROVE SinceStop'
  BY <1>6 DEF StartFails, SinceStop, Starting
<1>7. ASSUME NEW r \in Run, StartRuns(r) PROVE SinceStop'
  BY <1>7 DEF StartRuns, SinceStop, Starting
<1>8. ASSUME NEW r \in Run, NEW f \in BOOLEAN, ChildExits(r, f) PROVE SinceStop'
  BY <1>8 DEF ChildExits, SinceStop, Starting
<1>9. ASSUME NEW r \in Run, CleaningEnds(r) PROVE SinceStop'
  BY <1>9 DEF CleaningEnds, SinceStop, Starting
<1>10. ASSUME NEW r \in Run, PackagingEnds(r) PROVE SinceStop'
  BY <1>10 DEF PackagingEnds, SinceStop, Starting
<1>11. ASSUME NEW r \in Run, StopBegins(r) PROVE SinceStop'
  BY <1>11 DEF StopBegins, SinceStop, TypeOK, Places, RunPlaces, Starting
<1>12. ASSUME NEW r \in Run, StopWritesReceipt(r) PROVE SinceStop'
  BY <1>12 DEF StopWritesReceipt, SinceStop, Starting
<1>13. ASSUME NEW r \in Run, StopAnswered(r) PROVE SinceStop'
  BY <1>13 DEF StopAnswered, SinceStop, Starting
<1>14. ASSUME NEW r \in Run, StopFails(r) PROVE SinceStop'
  BY <1>14 DEF StopFails, SinceStop, Starting
<1>15. CASE ReceiptExpires
  BY <1>15 DEF ReceiptExpires, SinceStop, Starting
<1>16. CASE Crash
  BY <1>16 DEF Crash, SinceStop, Starting
<1>17. CASE UNCHANGED vars
  BY <1>17 DEF vars, SinceStop, Starting
<1> QED BY <1>1, <1>2, <1>3, <1>4, <1>5, <1>6, <1>7, <1>8, <1>9, <1>10, <1>11, <1>12, <1>13,
       <1>14, <1>15, <1>16, <1>17 DEF Next

\* Only a start removes a receipt, and a start is counted; a stop that writes later leaves its own.
LEMMA StillThereKept ==
  ASSUME StillThere, TypeOK, Places, WrittenOnce, [Next]_vars
  PROVE  StillThere'
<1> USE ReceiptAssumption DEF memory, disk, history
<1>1. ASSUME NEW r \in Run, StartRemovesReceipt(r) PROVE StillThere'
  BY <1>1 DEF StartRemovesReceipt, StillThere
<1>2. ASSUME NEW r \in Run, StartSyncsClear(r) PROVE StillThere'
  BY <1>2 DEF StartSyncsClear, StillThere, Valid
<1>3. ASSUME NEW r \in Run, StartSyncFails(r) PROVE StillThere'
  BY <1>3 DEF StartSyncFails, StillThere, Valid
<1>4. ASSUME NEW r \in Run, StartReserves(r) PROVE StillThere'
  BY <1>4 DEF StartReserves, StillThere, Valid
<1>5. ASSUME NEW r \in Run, StartRefused(r) PROVE StillThere'
  BY <1>5 DEF StartRefused, StillThere, Valid
<1>6. ASSUME NEW r \in Run, StartFails(r) PROVE StillThere'
  BY <1>6 DEF StartFails, StillThere, Valid
<1>7. ASSUME NEW r \in Run, StartRuns(r) PROVE StillThere'
  BY <1>7 DEF StartRuns, StillThere, Valid
<1>8. ASSUME NEW r \in Run, NEW f \in BOOLEAN, ChildExits(r, f) PROVE StillThere'
  BY <1>8 DEF ChildExits, StillThere, Valid
<1>9. ASSUME NEW r \in Run, CleaningEnds(r) PROVE StillThere'
  BY <1>9 DEF CleaningEnds, StillThere, Valid
<1>10. ASSUME NEW r \in Run, PackagingEnds(r) PROVE StillThere'
  BY <1>10 DEF PackagingEnds, StillThere, Valid
<1>11. ASSUME NEW r \in Run, StopBegins(r) PROVE StillThere'
  BY <1>11 DEF StopBegins, StillThere, TypeOK, Valid
<1>12. ASSUME NEW r \in Run, StopWritesReceipt(r) PROVE StillThere'
  BY <1>12 DEF StopWritesReceipt, StillThere, WrittenOnce, Valid, WrittenBy
<1>13. ASSUME NEW r \in Run, StopAnswered(r) PROVE StillThere'
  BY <1>13 DEF StopAnswered, StillThere, Valid
<1>14. ASSUME NEW r \in Run, StopFails(r) PROVE StillThere'
  BY <1>14 DEF StopFails, StillThere, Valid
<1>15. CASE ReceiptExpires
  BY <1>15 DEF ReceiptExpires, StillThere
<1>16. CASE Crash
  BY <1>16 DEF Crash, StillThere, Valid
<1>17. CASE UNCHANGED vars
  BY <1>17 DEF vars, StillThere, Valid
<1> QED BY <1>1, <1>2, <1>3, <1>4, <1>5, <1>6, <1>7, <1>8, <1>9, <1>10, <1>11, <1>12, <1>13,
       <1>14, <1>15, <1>16, <1>17 DEF Next

\* A run that has a receipt has exited, and is never started or stopped again.
LEMMA ReceiptMeansExitKept ==
  ASSUME ReceiptMeansExit, TypeOK, Places, WrittenOnce, [Next]_vars
  PROVE  ReceiptMeansExit'
<1> USE ReceiptAssumption DEF memory, disk, history
<1>1. ASSUME NEW r \in Run, StartRemovesReceipt(r) PROVE ReceiptMeansExit'
  BY <1>1 DEF StartRemovesReceipt, ReceiptMeansExit
<1>2. ASSUME NEW r \in Run, StartSyncsClear(r) PROVE ReceiptMeansExit'
  BY <1>2 DEF StartSyncsClear, ReceiptMeansExit
<1>3. ASSUME NEW r \in Run, StartSyncFails(r) PROVE ReceiptMeansExit'
  BY <1>3 DEF StartSyncFails, ReceiptMeansExit
<1>4. ASSUME NEW r \in Run, StartReserves(r) PROVE ReceiptMeansExit'
  BY <1>4 DEF StartReserves, ReceiptMeansExit, Places, WrittenOnce, RunPlaces, WrittenBy
<1>5. ASSUME NEW r \in Run, StartRefused(r) PROVE ReceiptMeansExit'
  BY <1>5 DEF StartRefused, ReceiptMeansExit
<1>6. ASSUME NEW r \in Run, StartFails(r) PROVE ReceiptMeansExit'
  BY <1>6 DEF StartFails, ReceiptMeansExit
<1>7. ASSUME NEW r \in Run, StartRuns(r) PROVE ReceiptMeansExit'
  BY <1>7 DEF StartRuns, ReceiptMeansExit, Places, WrittenOnce, RunPlaces, WrittenBy
<1>8. ASSUME NEW r \in Run, NEW f \in BOOLEAN, ChildExits(r, f) PROVE ReceiptMeansExit'
  BY <1>8 DEF ChildExits, ReceiptMeansExit
<1>9. ASSUME NEW r \in Run, CleaningEnds(r) PROVE ReceiptMeansExit'
  BY <1>9 DEF CleaningEnds, ReceiptMeansExit
<1>10. ASSUME NEW r \in Run, PackagingEnds(r) PROVE ReceiptMeansExit'
  BY <1>10 DEF PackagingEnds, ReceiptMeansExit
<1>11. ASSUME NEW r \in Run, StopBegins(r) PROVE ReceiptMeansExit'
  BY <1>11 DEF StopBegins, ReceiptMeansExit
<1>12. ASSUME NEW r \in Run, StopWritesReceipt(r) PROVE ReceiptMeansExit'
  BY <1>12 DEF StopWritesReceipt, ReceiptMeansExit, Places, RunPlaces, Over, MayWriteReceipt
<1>13. ASSUME NEW r \in Run, StopAnswered(r) PROVE ReceiptMeansExit'
  BY <1>13 DEF StopAnswered, ReceiptMeansExit
<1>14. ASSUME NEW r \in Run, StopFails(r) PROVE ReceiptMeansExit'
  BY <1>14 DEF StopFails, ReceiptMeansExit
<1>15. CASE ReceiptExpires
  BY <1>15 DEF ReceiptExpires, ReceiptMeansExit
<1>16. CASE Crash
  BY <1>16 DEF Crash, ReceiptMeansExit, TypeOK
<1>17. CASE UNCHANGED vars
  BY <1>17 DEF vars, ReceiptMeansExit
<1> QED BY <1>1, <1>2, <1>3, <1>4, <1>5, <1>6, <1>7, <1>8, <1>9, <1>10, <1>11, <1>12, <1>13,
       <1>14, <1>15, <1>16, <1>17 DEF Next

\* After the sync neither directory has the receipt the start found, and nobody writes it again.
LEMMA SyncedRemovalKept ==
  ASSUME SyncedRemovalIsFinal, TypeOK, Places, WrittenOnce, Removal, [Next]_vars
  PROVE  SyncedRemovalIsFinal'
<1> USE ReceiptAssumption DEF memory, disk, history
<1>1. ASSUME NEW r \in Run, StartRemovesReceipt(r) PROVE SyncedRemovalIsFinal'
  BY <1>1 DEF StartRemovesReceipt, SyncedRemovalIsFinal, TypeOK, Removal
<1>2. ASSUME NEW r \in Run, StartSyncsClear(r) PROVE SyncedRemovalIsFinal'
  BY <1>2 DEF StartSyncsClear, SyncedRemovalIsFinal, Removal
<1>3. ASSUME NEW r \in Run, StartSyncFails(r) PROVE SyncedRemovalIsFinal'
  BY <1>3 DEF StartSyncFails, SyncedRemovalIsFinal
<1>4. ASSUME NEW r \in Run, StartReserves(r) PROVE SyncedRemovalIsFinal'
  BY <1>4 DEF StartReserves, SyncedRemovalIsFinal
<1>5. ASSUME NEW r \in Run, StartRefused(r) PROVE SyncedRemovalIsFinal'
  BY <1>5 DEF StartRefused, SyncedRemovalIsFinal
<1>6. ASSUME NEW r \in Run, StartFails(r) PROVE SyncedRemovalIsFinal'
  BY <1>6 DEF StartFails, SyncedRemovalIsFinal
<1>7. ASSUME NEW r \in Run, StartRuns(r) PROVE SyncedRemovalIsFinal'
  BY <1>7 DEF StartRuns, SyncedRemovalIsFinal
<1>8. ASSUME NEW r \in Run, NEW f \in BOOLEAN, ChildExits(r, f) PROVE SyncedRemovalIsFinal'
  BY <1>8 DEF ChildExits, SyncedRemovalIsFinal
<1>9. ASSUME NEW r \in Run, CleaningEnds(r) PROVE SyncedRemovalIsFinal'
  BY <1>9 DEF CleaningEnds, SyncedRemovalIsFinal
<1>10. ASSUME NEW r \in Run, PackagingEnds(r) PROVE SyncedRemovalIsFinal'
  BY <1>10 DEF PackagingEnds, SyncedRemovalIsFinal
<1>11. ASSUME NEW r \in Run, StopBegins(r) PROVE SyncedRemovalIsFinal'
  BY <1>11 DEF StopBegins, SyncedRemovalIsFinal
<1>12. ASSUME NEW r \in Run, StopWritesReceipt(r) PROVE SyncedRemovalIsFinal'
  BY <1>12 DEF StopWritesReceipt, SyncedRemovalIsFinal, TypeOK, WrittenOnce, WrittenBy
<1>13. ASSUME NEW r \in Run, StopAnswered(r) PROVE SyncedRemovalIsFinal'
  BY <1>13 DEF StopAnswered, SyncedRemovalIsFinal
<1>14. ASSUME NEW r \in Run, StopFails(r) PROVE SyncedRemovalIsFinal'
  BY <1>14 DEF StopFails, SyncedRemovalIsFinal
<1>15. CASE ReceiptExpires
  BY <1>15 DEF ReceiptExpires, SyncedRemovalIsFinal
<1>16. CASE Crash
  BY <1>16 DEF Crash, SyncedRemovalIsFinal
<1>17. CASE UNCHANGED vars
  BY <1>17 DEF vars, SyncedRemovalIsFinal
<1> QED BY <1>1, <1>2, <1>3, <1>4, <1>5, <1>6, <1>7, <1>8, <1>9, <1>10, <1>11, <1>12, <1>13,
       <1>14, <1>15, <1>16, <1>17 DEF Next

LEMMA ReceiptStep == ReceiptInv /\ [Next]_vars => ReceiptInv'
<1> SUFFICES ASSUME ReceiptInv, [Next]_vars PROVE ReceiptInv'
  OBVIOUS
<1>1. TypeOK' /\ Places' /\ WrittenOnce'
  BY TypesKept, PlacesKept, WrittenOnceKept DEF ReceiptInv
<1>2. Removal' /\ SinceStop' /\ StillThere'
  BY RemovalKept, SinceStopKept, StillThereKept DEF ReceiptInv
<1>3. ReceiptMeansExit' /\ SyncedRemovalIsFinal'
  BY ReceiptMeansExitKept, SyncedRemovalKept DEF ReceiptInv
<1> QED BY <1>1, <1>2, <1>3 DEF ReceiptInv

\* The parts above hold together in every state: each step of a start, a stop, the end of a
\* child, an expiry or a power loss keeps them (stop_receipt.go, Stop, startProcess).
THEOREM ReceiptInvariant == Spec => []ReceiptInv
<1>1. Init => ReceiptInv
  BY ReceiptInit
<1>2. ReceiptInv /\ [Next]_vars => ReceiptInv'
  BY ReceiptStep
<1> QED BY <1>1, <1>2, PTL DEF Spec

\* What Stop answers, from the slot or, when the stream is not in it, from the receipt.
LEMMA RememberedNow == ReceiptInv => AnsweredStopIsRemembered
<1> SUFFICES ASSUME ReceiptInv, NEW r \in Run,
                    stopper[r] = "answered", since[r] = {}, r \notin expired
             PROVE  StopAnswer = "already stopped" \/ (entry = r /\ status[r] = "completed")
  BY DEF AnsweredStopIsRemembered
<1>1. entry \in {r, NoRun}
  BY DEF ReceiptInv, SinceStop
<1>2. CASE entry = NoRun
  <2>1. receipt # NoRun /\ receipt \notin expired
    BY DEF ReceiptInv, StillThere, Valid
  <2> QED BY <1>2, <2>1 DEF StopAnswer
<1>3. CASE entry = r
  <2>1. r # NoRun
    BY ReceiptAssumption
  <2>2. status[r] \in {"stopping"} \cup Over
    BY <1>3 DEF ReceiptInv, Places, RunPlaces
  <2> QED BY <1>3, <2>1, <2>2 DEF StopAnswer, Over
<1> QED BY <1>1, <1>2, <1>3

\* Whatever starts, stops, failures and power losses happen, a stop that was answered is
\* answered "already stopped" again until the receipt expires or the stream is started again
\* (Stop, writeStopReceipt and hasStopReceipt).
THEOREM StopsRemembered == Spec => []AnsweredStopIsRemembered
  BY ReceiptInvariant, RememberedNow, PTL

\* No receipt, on disk or brought back by a power loss, stands for a run whose child wait has
\* not seen exit (Stop writes it after the wait).
THEOREM ReceiptsMeanExit == Spec => []ReceiptMeansExit
<1>1. ReceiptInv => ReceiptMeansExit
  BY DEF ReceiptInv
<1> QED BY <1>1, ReceiptInvariant, PTL

\* A receipt whose removal a start has synced does not come back, whatever power losses and
\* later stops follow (clearStopReceipt).
THEOREM RemovalsFinal == Spec => []SyncedRemovalIsFinal
<1>1. ReceiptInv => SyncedRemovalIsFinal
  BY DEF ReceiptInv
<1> QED BY <1>1, ReceiptInvariant, PTL
=============================================================================
