--------------------------- MODULE Bridges_proofs ---------------------------
(***************************************************************************)
(* Proofs about Bridges, for any number of starts, stops and frames: no    *)
(* bridge is lost, the newest frame is kept, and with a patient control    *)
(* panel a run keeps the bridges it was started with, unless it was a      *)
(* direct start that came before the exit hook of an earlier one; and      *)
(* about the audio bridge behind an entry of the manager (AudioIngest):    *)
(* what is heard is heard in order and in time, and no packet is missing   *)
(* from the books.                                                         *)
(***************************************************************************)
EXTENDS Bridges, AudioPromise, FiniteSetTheorems, TLAPS

SlotTypes ==
  /\ owner \in Start \cup {None} /\ cleaning \in BOOLEAN
  /\ status \in {"starting", "running", "stopping", "packaging", "ended"}
  /\ at \in [Start -> {"new", "video", "audio", "cleanup", "prepare", "prepared", "failing",
                       "failed", "reserve", "start", "close", "done"}]
  /\ hasty \subseteq Direct
  /\ abort \in [Staged -> {"no", "begun", "cleanup", "ended"}]
  /\ wait \in [Start -> {"no", "child", "audio", "video", "release", "cleanup", "end"}]
  /\ cleaner \in [Staged -> {"no", "set", "video", "close", "audio", "done"}]
  /\ stop \in [Stop -> {"new", "call", "wait", "audio", "video", "done"}]
  /\ target \in [Stop -> Start \cup {None}]

BridgeTypes ==
  /\ videoMap \in Staged \cup {None} /\ audioMap \in Start \cup {None}
  /\ video \in [Staged -> {"open", "closed"}]
  /\ audio \in [Start -> {"open", "closed"}]
  /\ closing \subseteq Staged /\ stopped \subseteq Staged
  /\ pump \in [Staged -> {"none", "accept", "pump", "finish", "end"}]

FrameTypes ==
  /\ read \in [Staged -> Nat] /\ latest \in [Staged -> Nat]
  /\ chan \in [Staged -> Seq(Nat)]
  /\ reader \in [Staged -> {"idle", "send", "drop"}]

\* A reader that is between frames has left nothing but its newest frame in the channel.
ChannelHasNewest ==
  \A p \in Staged : reader[p] = "idle" => chan[p] = <<>> \/ chan[p] = <<read[p]>>

\* A video bridge is opened once, and one that is being closed has left the map for good.
OpenedOnce ==
  /\ \A p \in Staged : at[p] \in {"new", "video"} => p \notin closing /\ videoMap # p
  /\ \A p \in closing : videoMap # p

\* How far each start has come: which of its goroutines can be there already.
Places ==
  /\ \A p \in Direct : /\ at[p] \in {"new", "reserve", "start", "close", "done"}
                       /\ at[p] # "done" => wait[p] = "no"
  /\ \A p \in Staged :
       /\ at[p] \in {"new", "video", "audio", "cleanup", "prepare"} => wait[p] = "no"
       /\ at[p] \in {"new", "video", "audio", "cleanup"} => cleaner[p] = "no"
       /\ abort[p] = "cleanup" => PrepareDone(p) /\ wait[p] # "child"

\* A start keeps the slot from its reservation to the end of its child, and a direct start until
\* the hook has closed what it finds.
SlotKept ==
  /\ \A p \in Staged :
       at[p] \in {"video", "audio", "cleanup", "prepare"} => owner = p /\ status = "starting"
  /\ \A p \in Direct : at[p] = "start" => owner = p /\ status = "starting"
  /\ \A p \in Start :
       wait[p] = "child" => owner = p /\ status \in {"starting", "running", "stopping"}
  /\ \A p \in Direct : wait[p] \in {"audio", "video", "release"}
                         => owner = p /\ cleaning /\ status \in {"packaging", "ended"}

\* Who is in the slot: a start with a child, once it runs.
SlotTaken ==
  /\ status \in {"running", "stopping"} => owner \in Start /\ wait[owner] = "child"
  /\ \A p \in Direct : owner = p /\ status = "starting" => at[p] = "start"

\* The bridges of a start that nobody has aborted or stopped, from the moment each is opened.
Live(p) == owner = p /\ status \in {"starting", "running"} /\ (p \in Staged => abort[p] = "no")
VideoUp(p) ==
  p \in Staged /\ pump[p] \in {"accept", "pump"} => videoMap = p /\ video[p] = "open"
AudioUp(p) == audioMap = p /\ audio[p] = "open"
PastAudio(p) == at[p] \in {"cleanup", "prepare", "start"} \/ wait[p] = "child"

\* The cleanup function runs at the end of a preparation only.
CleanedAtEnd == \A p \in Staged : Live(p) => cleaner[p] \in {"no", "set"}

\* With a patient control panel: a stop that closes bridges finds no run it was not sent for, one
\* start is answered at a time, and a direct start finds the audio bridge it has opened, unless
\* the hook of an earlier run is still to come.
StopsFindNoRun ==
  \A h \in Stop : stop[h] \in {"wait", "audio", "video"} => status \notin {"starting", "running"}

OneAtATime == \A p, q \in Start : InFlight(p) /\ InFlight(q) => p = q

DirectHasAudio ==
  \A p \in Direct : at[p] \in {"reserve", "start", "close"} =>
    /\ audioMap \in {p, None}
    /\ \A h \in Stop : Answered(h)
    /\ p \notin hasty => AudioUp(p) /\ ~HookToCome

LiveHasBridges ==
  \A p \in Start \ hasty : Live(p) =>
    /\ at[p] = "audio" \/ PastAudio(p) => VideoUp(p)
    /\ PastAudio(p) => AudioUp(p)

PatientInv == StopsFindNoRun /\ OneAtATime /\ DirectHasAudio /\ LiveHasBridges

BridgesInv ==
  /\ SlotTypes /\ BridgeTypes /\ FrameTypes
  /\ NoOrphanBridge /\ NewestFrameKept /\ ChannelHasNewest /\ OpenedOnce
  /\ Places /\ SlotKept /\ SlotTaken /\ CleanedAtEnd
  /\ Patient => PatientInv

\* Before the first request there is no stream and no bridge (NewManager of both managers).
LEMMA BridgesInit == Init => BridgesInv
<1> SUFFICES ASSUME Init PROVE BridgesInv
  OBVIOUS
<1> USE BridgesAssumption DEF Init
<1>1. Staged \subseteq Start /\ Direct \subseteq Start
  BY DEF Start
<1>2. SlotTypes
  BY <1>1 DEF SlotTypes
<1>3. BridgeTypes
  BY <1>1 DEF BridgeTypes
<1>4. FrameTypes
  BY DEF FrameTypes
<1>5. NoOrphanBridge /\ NewestFrameKept /\ ChannelHasNewest
  BY DEF NoOrphanBridge, NewestFrameKept, ChannelHasNewest
<1>6. OpenedOnce /\ Places /\ SlotKept
  BY <1>1 DEF OpenedOnce, Places, SlotKept
<1>7. SlotTaken /\ CleanedAtEnd
  BY <1>1 DEF SlotTaken, CleanedAtEnd, Live
<1>8. PatientInv
  BY <1>1 DEF PatientInv, StopsFindNoRun, OneAtATime, InFlight, DirectHasAudio, LiveHasBridges, Live
<1> QED BY <1>2, <1>3, <1>4, <1>5, <1>6, <1>7, <1>8 DEF BridgesInv

\* Every step keeps the types.
LEMMA SlotTypesKept ==
  ASSUME SlotTypes, [Next]_vars
  PROVE  SlotTypes'
<1> USE BridgesAssumption DEF slot, starts, ends, stops, handlers, videoBridges, audioBridges,
       bridges, frames
<1>1. ASSUME NEW p \in Staged, PrepareBegins(p) PROVE SlotTypes'
  BY <1>1 DEF PrepareBegins, TakeSlot, SlotFree, StepTo, MayStart, SlotTypes, Start
<1>2. ASSUME NEW p \in Staged, StartVideo(p) PROVE SlotTypes'
  BY <1>2 DEF StartVideo, VideoFree, OpenVideo, StepTo, SlotTypes, Start
<1>3. ASSUME NEW p \in Staged, StartAudio(p) PROVE SlotTypes'
  BY <1>3 DEF StartAudio, DetachOwnVideo, DetachVideo, StepTo, SlotTypes, Start
<1>4. ASSUME NEW p \in Staged, SetCleanup(p) PROVE SlotTypes'
  BY <1>4 DEF SetCleanup, DetachOwnVideo, DetachVideo, CloseOwnAudio, StepTo, SlotTypes, Start
<1>5. ASSUME NEW p \in Staged, PrepareStart(p) PROVE SlotTypes'
  BY <1>5 DEF PrepareStart, StepTo, SlotTypes, Start
<1>6. ASSUME NEW p \in Staged, PrepareAnswers(p) PROVE SlotTypes'
  BY <1>6 DEF PrepareAnswers, StepTo, SlotTypes, Start
<1>7. ASSUME NEW p \in Staged, PrepareFinishes(p) PROVE SlotTypes'
  BY <1>7 DEF PrepareFinishes, StepTo, SlotTypes, Start
<1>8. ASSUME NEW p \in Staged, PrepareFails(p) PROVE SlotTypes'
  BY <1>8 DEF PrepareFails, StepTo, MayAbort, ClaimAbort, PrepareDone, SlotTypes, Start
<1>9. ASSUME NEW p \in Staged, Commit(p) PROVE SlotTypes'
  BY <1>9 DEF Commit, SlotTypes, Start
<1>10. ASSUME NEW p \in Staged, AbortBegins(p) PROVE SlotTypes'
  BY <1>10 DEF AbortBegins, MayAbort, ClaimAbort, PrepareDone, SlotTypes, Start
<1>11. ASSUME NEW p \in Staged, AbortCleansUp(p) PROVE SlotTypes'
  BY <1>11 DEF AbortCleansUp, Cleaned, PrepareDone, SlotTypes, Start
<1>12. ASSUME NEW p \in Staged, AbortEnds(p) PROVE SlotTypes'
  BY <1>12 DEF AbortEnds, ReleaseSlot, SlotTypes, Start
<1>13. ASSUME NEW p \in Staged, AbortTimesOut(p) PROVE SlotTypes'
  BY <1>13 DEF AbortTimesOut, SlotTypes, Start
<1>14. ASSUME NEW p \in Staged, CleanupVideo(p) PROVE SlotTypes'
  BY <1>14 DEF CleanupVideo, DetachOwnVideo, DetachVideo, SlotTypes, Start
<1>15. ASSUME NEW p \in Staged, CleanupAudio(p) PROVE SlotTypes'
  BY <1>15 DEF CleanupAudio, CloseOwnAudio, SlotTypes, Start
<1>16. ASSUME NEW p \in Staged,
              CloseVideo(p) \/ Accepts(p) \/ PumpStops(p) \/ Finishes(p) \/ FrameRead(p) \/
              FrameSent(p)
       PROVE  SlotTypes'
  BY <1>16 DEF CloseVideo, Accepts, PumpStops, Finishes, FrameRead, FrameSent, FinishForgets,
       Sends, SlotTypes
<1>17. ASSUME NEW p \in Staged,
              FrameDropped(p) \/ FrameTaken(p)
       PROVE  SlotTypes'
  BY <1>17 DEF FrameDropped, FrameTaken, SlotTypes
<1>18. ASSUME NEW p \in Direct, DirectAudio(p) PROVE SlotTypes'
  BY <1>18 DEF DirectAudio, StepTo, MayStart, SlotTypes, Start
<1>19. ASSUME NEW p \in Direct, DirectReserves(p) PROVE SlotTypes'
  BY <1>19 DEF DirectReserves, TakeSlot, SlotFree, StepTo, SlotTypes, Start
<1>20. ASSUME NEW p \in Direct, DirectStarts(p) PROVE SlotTypes'
  BY <1>20 DEF DirectStarts, StepTo, SlotTypes, Start
<1>21. ASSUME NEW p \in Direct, DirectFails(p) PROVE SlotTypes'
  BY <1>21 DEF DirectFails, StepTo, CloseAudioById, SlotTypes, Start
<1>22. ASSUME NEW p \in Direct, HookClosesAudio(p) PROVE SlotTypes'
  BY <1>22 DEF HookClosesAudio, CloseAudioById, SlotTypes, Start
<1>23. ASSUME NEW p \in Direct, HookClosesVideo(p) PROVE SlotTypes'
  BY <1>23 DEF HookClosesVideo, CloseVideoById, DetachVideo, SlotTypes, Start
<1>24. ASSUME NEW p \in Start, ChildExits(p) PROVE SlotTypes'
  BY <1>24 DEF ChildExits, Cleaned, SlotTypes, Start
<1>25. ASSUME NEW p \in Start, WaitEnds(p) PROVE SlotTypes'
  BY <1>25 DEF WaitEnds, ReleaseSlot, PrepareDone, SlotTypes, Start
<1>26. ASSUME NEW p \in Start, PackagingEnds(p) PROVE SlotTypes'
  BY <1>26 DEF PackagingEnds, SlotTypes, Start
<1>27. ASSUME NEW h \in Stop, StopLooks(h) PROVE SlotTypes'
  BY <1>27 DEF StopLooks, Goes, MayStop, SlotTypes, Start
<1>28. ASSUME NEW h \in Stop, StopCalls(h) PROVE SlotTypes'
  BY <1>28 DEF StopCalls, Goes, SlotTypes, Start
<1>29. ASSUME NEW h \in Stop, StopWaits(h) PROVE SlotTypes'
  BY <1>29 DEF StopWaits, Goes, SlotTypes, Start
<1>30. ASSUME NEW h \in Stop, StopClosesAudio(h) PROVE SlotTypes'
  BY <1>30 DEF StopClosesAudio, Goes, CloseAudioById, SlotTypes, Start
<1>31. ASSUME NEW h \in Stop, StopClosesVideo(h) PROVE SlotTypes'
  BY <1>31 DEF StopClosesVideo, Goes, CloseVideoById, DetachVideo, SlotTypes, Start
<1>32. CASE UNCHANGED vars
  BY <1>32 DEF vars, SlotTypes
<1> QED BY <1>1, <1>2, <1>3, <1>4, <1>5, <1>6, <1>7, <1>8, <1>9, <1>10, <1>11, <1>12, <1>13,
       <1>14, <1>15, <1>16, <1>17, <1>18, <1>19, <1>20, <1>21, <1>22, <1>23, <1>24, <1>25, <1>26,
       <1>27, <1>28, <1>29, <1>30, <1>31, <1>32 DEF Next

\* The maps of the two managers hold the bridge of one start or of none, whichever handler opens
\* or closes it.
LEMMA BridgeTypesKept ==
  ASSUME BridgeTypes, SlotTypes, [Next]_vars
  PROVE  BridgeTypes'
<1> USE BridgesAssumption DEF slot, starts, ends, stops, handlers, videoBridges, audioBridges,
       bridges, frames
<1>1. ASSUME NEW p \in Staged, StartVideo(p) PROVE BridgeTypes'
  BY <1>1 DEF StartVideo, VideoFree, OpenVideo, StepTo, BridgeTypes, SlotTypes, Start
<1>2. ASSUME NEW p \in Staged, StartAudio(p) PROVE BridgeTypes'
  BY <1>2 DEF StartAudio, DetachOwnVideo, DetachVideo, StepTo, BridgeTypes, SlotTypes, Start
<1>3. ASSUME NEW p \in Staged, SetCleanup(p) PROVE BridgeTypes'
  BY <1>3 DEF SetCleanup, DetachOwnVideo, DetachVideo, CloseOwnAudio, StepTo, BridgeTypes,
       SlotTypes, Start
<1>4. ASSUME NEW p \in Staged, CleanupVideo(p) PROVE BridgeTypes'
  BY <1>4 DEF CleanupVideo, DetachOwnVideo, DetachVideo, BridgeTypes, SlotTypes, Start
<1>5. ASSUME NEW p \in Staged, CleanupAudio(p) PROVE BridgeTypes'
  BY <1>5 DEF CleanupAudio, CloseOwnAudio, BridgeTypes, SlotTypes, Start
<1>6. ASSUME NEW p \in Staged, CloseVideo(p) PROVE BridgeTypes'
  BY <1>6 DEF CloseVideo, BridgeTypes, SlotTypes, Start
<1>7. ASSUME NEW p \in Staged, Accepts(p) PROVE BridgeTypes'
  BY <1>7 DEF Accepts, BridgeTypes, SlotTypes, Start
<1>8. ASSUME NEW p \in Staged, PumpStops(p) PROVE BridgeTypes'
  BY <1>8 DEF PumpStops, BridgeTypes, SlotTypes, Start
<1>9. ASSUME NEW p \in Staged, Finishes(p) PROVE BridgeTypes'
  BY <1>9 DEF Finishes, FinishForgets, BridgeTypes, SlotTypes, Start
<1>10. ASSUME NEW p \in Staged,
              PrepareBegins(p) \/ PrepareStart(p) \/ PrepareAnswers(p) \/ PrepareFinishes(p) \/
              PrepareFails(p) \/ Commit(p)
       PROVE  BridgeTypes'
  BY <1>10 DEF PrepareBegins, PrepareStart, PrepareAnswers, PrepareFinishes, PrepareFails, Commit,
       TakeSlot, SlotFree, StepTo, MayStart, MayAbort, ClaimAbort, PrepareDone, BridgeTypes
<1>11. ASSUME NEW p \in Staged,
              AbortBegins(p) \/ AbortCleansUp(p) \/ AbortEnds(p) \/ AbortTimesOut(p) \/
              FrameRead(p) \/ FrameSent(p)
       PROVE  BridgeTypes'
  BY <1>11 DEF AbortBegins, AbortCleansUp, AbortEnds, AbortTimesOut, FrameRead, FrameSent,
       MayAbort, ClaimAbort, PrepareDone, Cleaned, ReleaseSlot, Sends, BridgeTypes
<1>12. ASSUME NEW p \in Staged,
              FrameDropped(p) \/ FrameTaken(p)
       PROVE  BridgeTypes'
  BY <1>12 DEF FrameDropped, FrameTaken, BridgeTypes
<1>13. ASSUME NEW p \in Direct, DirectAudio(p) PROVE BridgeTypes'
  BY <1>13 DEF DirectAudio, StepTo, MayStart, BridgeTypes, SlotTypes, Start
<1>14. ASSUME NEW p \in Direct, DirectFails(p) PROVE BridgeTypes'
  BY <1>14 DEF DirectFails, StepTo, CloseAudioById, BridgeTypes, SlotTypes, Start
<1>15. ASSUME NEW p \in Direct, HookClosesAudio(p) PROVE BridgeTypes'
  BY <1>15 DEF HookClosesAudio, CloseAudioById, BridgeTypes, SlotTypes, Start
<1>16. ASSUME NEW p \in Direct, HookClosesVideo(p) PROVE BridgeTypes'
  BY <1>16 DEF HookClosesVideo, CloseVideoById, DetachVideo, BridgeTypes, SlotTypes, Start
<1>17. ASSUME NEW p \in Direct,
              DirectReserves(p) \/ DirectStarts(p)
       PROVE  BridgeTypes'
  BY <1>17 DEF DirectReserves, DirectStarts, TakeSlot, SlotFree, StepTo, BridgeTypes
<1>18. ASSUME NEW p \in Start,
              ChildExits(p) \/ WaitEnds(p) \/ PackagingEnds(p)
       PROVE  BridgeTypes'
  BY <1>18 DEF ChildExits, WaitEnds, PackagingEnds, Cleaned, ReleaseSlot, PrepareDone, BridgeTypes
<1>19. ASSUME NEW h \in Stop, StopLooks(h) PROVE BridgeTypes'
  BY <1>19 DEF StopLooks, Goes, MayStop, BridgeTypes, SlotTypes, Start
<1>20. ASSUME NEW h \in Stop, StopClosesAudio(h) PROVE BridgeTypes'
  BY <1>20 DEF StopClosesAudio, Goes, CloseAudioById, BridgeTypes, SlotTypes, Start
<1>21. ASSUME NEW h \in Stop, StopClosesVideo(h) PROVE BridgeTypes'
  BY <1>21 DEF StopClosesVideo, Goes, CloseVideoById, DetachVideo, BridgeTypes, SlotTypes, Start
<1>22. ASSUME NEW h \in Stop,
              StopCalls(h) \/ StopWaits(h)
       PROVE  BridgeTypes'
  BY <1>22 DEF StopCalls, StopWaits, Goes, BridgeTypes
<1>23. CASE UNCHANGED vars
  BY <1>23 DEF vars, BridgeTypes
<1> QED BY <1>1, <1>2, <1>3, <1>4, <1>5, <1>6, <1>7, <1>8, <1>9, <1>10, <1>11, <1>12, <1>13,
       <1>14, <1>15, <1>16, <1>17, <1>18, <1>19, <1>20, <1>21, <1>22, <1>23 DEF Next

\* The frames of a connection are read, handed over and taken in the order of their arrival (the
\* reader and the pump of internal/videoingest).
LEMMA FrameTypesKept ==
  ASSUME FrameTypes, [Next]_vars
  PROVE  FrameTypes'
<1> USE BridgesAssumption DEF slot, starts, ends, stops, handlers, videoBridges, audioBridges,
       bridges, frames
<1>1. ASSUME NEW p \in Staged, PumpStops(p) PROVE FrameTypes'
  BY <1>1 DEF PumpStops, FrameTypes
<1>2. ASSUME NEW p \in Staged, FrameRead(p) PROVE FrameTypes'
  BY <1>2 DEF FrameRead, FrameTypes
<1>3. ASSUME NEW p \in Staged, FrameSent(p) PROVE FrameTypes'
  <2>1. <<read[p]>> \in Seq(Nat)
    BY DEF FrameTypes
  <2>2. chan' \in [Staged -> Seq(Nat)]
    BY <1>3, <2>1 DEF FrameSent, Sends, FrameTypes
  <2> QED BY <1>3, <2>2 DEF FrameSent, Sends, FrameTypes
<1>4. ASSUME NEW p \in Staged, FrameDropped(p) PROVE FrameTypes'
  BY <1>4 DEF FrameDropped, FrameTypes
<1>5. ASSUME NEW p \in Staged, FrameTaken(p) PROVE FrameTypes'
  BY <1>5 DEF FrameTaken, FrameTypes
<1>6. ASSUME NEW p \in Staged,
              PrepareBegins(p) \/ StartVideo(p) \/ StartAudio(p) \/ SetCleanup(p) \/
              PrepareStart(p) \/ PrepareAnswers(p)
       PROVE  FrameTypes'
  BY <1>6 DEF PrepareBegins, StartVideo, StartAudio, SetCleanup, PrepareStart, PrepareAnswers,
       TakeSlot, SlotFree, StepTo, MayStart, VideoFree, OpenVideo, DetachOwnVideo, DetachVideo,
       CloseOwnAudio, FrameTypes
<1>7. ASSUME NEW p \in Staged,
              PrepareFinishes(p) \/ PrepareFails(p) \/ Commit(p) \/ AbortBegins(p) \/
              AbortCleansUp(p) \/ AbortEnds(p)
       PROVE  FrameTypes'
  BY <1>7 DEF PrepareFinishes, PrepareFails, Commit, AbortBegins, AbortCleansUp, AbortEnds,
       StepTo, MayAbort, ClaimAbort, PrepareDone, Cleaned, ReleaseSlot, FrameTypes
<1>8. ASSUME NEW p \in Staged,
              AbortTimesOut(p) \/ CleanupVideo(p) \/ CleanupAudio(p) \/ CloseVideo(p) \/
              Accepts(p) \/ Finishes(p)
       PROVE  FrameTypes'
  BY <1>8 DEF AbortTimesOut, CleanupVideo, CleanupAudio, CloseVideo, Accepts, Finishes,
       DetachOwnVideo, DetachVideo, CloseOwnAudio, FinishForgets, FrameTypes
<1>9. ASSUME NEW p \in Direct,
              DirectAudio(p) \/ DirectReserves(p) \/ DirectStarts(p) \/ DirectFails(p) \/
              HookClosesAudio(p) \/ HookClosesVideo(p)
       PROVE  FrameTypes'
  BY <1>9 DEF DirectAudio, DirectReserves, DirectStarts, DirectFails, HookClosesAudio,
       HookClosesVideo, StepTo, MayStart, TakeSlot, SlotFree, CloseAudioById, CloseVideoById,
       DetachVideo, FrameTypes
<1>10. ASSUME NEW p \in Start,
              ChildExits(p) \/ WaitEnds(p) \/ PackagingEnds(p)
       PROVE  FrameTypes'
  BY <1>10 DEF ChildExits, WaitEnds, PackagingEnds, Cleaned, ReleaseSlot, PrepareDone, FrameTypes
<1>11. ASSUME NEW h \in Stop,
              StopLooks(h) \/ StopCalls(h) \/ StopWaits(h) \/ StopClosesAudio(h) \/
              StopClosesVideo(h)
       PROVE  FrameTypes'
  BY <1>11 DEF StopLooks, StopCalls, StopWaits, StopClosesAudio, StopClosesVideo, Goes, MayStop,
       CloseAudioById, CloseVideoById, DetachVideo, FrameTypes
<1>12. CASE UNCHANGED vars
  BY <1>12 DEF vars, FrameTypes
<1> QED BY <1>1, <1>2, <1>3, <1>4, <1>5, <1>6, <1>7, <1>8, <1>9, <1>10, <1>11, <1>12 DEF Next

\* Who takes a bridge out of the map closes it: the video bridge in a second step (stopBridge),
\* the audio bridge in the same one.
LEMMA NoOrphanKept ==
  ASSUME NoOrphanBridge, SlotTypes, BridgeTypes, [Next]_vars
  PROVE  NoOrphanBridge'
<1> USE BridgesAssumption DEF slot, starts, ends, stops, handlers, videoBridges, audioBridges,
       bridges, frames
<1>1. ASSUME NEW p \in Staged, StartVideo(p) PROVE NoOrphanBridge'
  BY <1>1 DEF StartVideo, VideoFree, OpenVideo, StepTo, NoOrphanBridge, SlotTypes, BridgeTypes,
       Start
<1>2. ASSUME NEW p \in Staged, StartAudio(p) PROVE NoOrphanBridge'
  BY <1>2 DEF StartAudio, DetachOwnVideo, DetachVideo, StepTo, NoOrphanBridge, SlotTypes,
       BridgeTypes, Start
<1>3. ASSUME NEW p \in Staged, SetCleanup(p) PROVE NoOrphanBridge'
  BY <1>3 DEF SetCleanup, DetachOwnVideo, DetachVideo, CloseOwnAudio, StepTo, NoOrphanBridge,
       SlotTypes, BridgeTypes, Start
<1>4. ASSUME NEW p \in Staged, CleanupVideo(p) PROVE NoOrphanBridge'
  BY <1>4 DEF CleanupVideo, DetachOwnVideo, DetachVideo, NoOrphanBridge, SlotTypes, BridgeTypes,
       Start
<1>5. ASSUME NEW p \in Staged, CleanupAudio(p) PROVE NoOrphanBridge'
  BY <1>5 DEF CleanupAudio, CloseOwnAudio, NoOrphanBridge, SlotTypes, BridgeTypes, Start
<1>6. ASSUME NEW p \in Staged, CloseVideo(p) PROVE NoOrphanBridge'
  BY <1>6 DEF CloseVideo, NoOrphanBridge, SlotTypes, BridgeTypes, Start
<1>7. ASSUME NEW p \in Staged, Finishes(p) PROVE NoOrphanBridge'
  BY <1>7 DEF Finishes, FinishForgets, NoOrphanBridge, SlotTypes, BridgeTypes, Start
<1>8. ASSUME NEW p \in Staged,
              PrepareBegins(p) \/ PrepareStart(p) \/ PrepareAnswers(p) \/ PrepareFinishes(p) \/
              PrepareFails(p) \/ Commit(p)
       PROVE  NoOrphanBridge'
  BY <1>8 DEF PrepareBegins, PrepareStart, PrepareAnswers, PrepareFinishes, PrepareFails, Commit,
       TakeSlot, SlotFree, StepTo, MayStart, MayAbort, ClaimAbort, PrepareDone, NoOrphanBridge
<1>9. ASSUME NEW p \in Staged,
              AbortBegins(p) \/ AbortCleansUp(p) \/ AbortEnds(p) \/ AbortTimesOut(p) \/ Accepts(p)
              \/ PumpStops(p)
       PROVE  NoOrphanBridge'
  BY <1>9 DEF AbortBegins, AbortCleansUp, AbortEnds, AbortTimesOut, Accepts, PumpStops, MayAbort,
       ClaimAbort, PrepareDone, Cleaned, ReleaseSlot, NoOrphanBridge
<1>10. ASSUME NEW p \in Staged,
              FrameRead(p) \/ FrameSent(p) \/ FrameDropped(p) \/ FrameTaken(p)
       PROVE  NoOrphanBridge'
  BY <1>10 DEF FrameRead, FrameSent, FrameDropped, FrameTaken, Sends, NoOrphanBridge
<1>11. ASSUME NEW p \in Direct, DirectAudio(p) PROVE NoOrphanBridge'
  BY <1>11 DEF DirectAudio, StepTo, MayStart, NoOrphanBridge, SlotTypes, BridgeTypes, Start
<1>12. ASSUME NEW p \in Direct, DirectFails(p) PROVE NoOrphanBridge'
  BY <1>12 DEF DirectFails, StepTo, CloseAudioById, NoOrphanBridge, SlotTypes, BridgeTypes, Start
<1>13. ASSUME NEW p \in Direct, HookClosesAudio(p) PROVE NoOrphanBridge'
  BY <1>13 DEF HookClosesAudio, CloseAudioById, NoOrphanBridge, SlotTypes, BridgeTypes, Start
<1>14. ASSUME NEW p \in Direct, HookClosesVideo(p) PROVE NoOrphanBridge'
  BY <1>14 DEF HookClosesVideo, CloseVideoById, DetachVideo, NoOrphanBridge, SlotTypes,
       BridgeTypes, Start
<1>15. ASSUME NEW p \in Direct,
              DirectReserves(p) \/ DirectStarts(p)
       PROVE  NoOrphanBridge'
  BY <1>15 DEF DirectReserves, DirectStarts, TakeSlot, SlotFree, StepTo, NoOrphanBridge
<1>16. ASSUME NEW p \in Start,
              ChildExits(p) \/ WaitEnds(p) \/ PackagingEnds(p)
       PROVE  NoOrphanBridge'
  BY <1>16 DEF ChildExits, WaitEnds, PackagingEnds, Cleaned, ReleaseSlot, PrepareDone,
       NoOrphanBridge
<1>17. ASSUME NEW h \in Stop, StopClosesAudio(h) PROVE NoOrphanBridge'
  BY <1>17 DEF StopClosesAudio, Goes, CloseAudioById, NoOrphanBridge, SlotTypes, BridgeTypes,
       Start
<1>18. ASSUME NEW h \in Stop, StopClosesVideo(h) PROVE NoOrphanBridge'
  BY <1>18 DEF StopClosesVideo, Goes, CloseVideoById, DetachVideo, NoOrphanBridge, SlotTypes,
       BridgeTypes, Start
<1>19. ASSUME NEW h \in Stop,
              StopLooks(h) \/ StopCalls(h) \/ StopWaits(h)
       PROVE  NoOrphanBridge'
  BY <1>19 DEF StopLooks, StopCalls, StopWaits, Goes, MayStop, NoOrphanBridge
<1>20. CASE UNCHANGED vars
  BY <1>20 DEF vars, NoOrphanBridge
<1> QED BY <1>1, <1>2, <1>3, <1>4, <1>5, <1>6, <1>7, <1>8, <1>9, <1>10, <1>11, <1>12, <1>13,
       <1>14, <1>15, <1>16, <1>17, <1>18, <1>19, <1>20 DEF Next

\* The channel has room for one frame, and a reader that finds it full drops what is there.
LEMMA ChannelKept ==
  ASSUME ChannelHasNewest, FrameTypes, [Next]_vars
  PROVE  ChannelHasNewest'
<1> USE BridgesAssumption DEF slot, starts, ends, stops, handlers, videoBridges, audioBridges,
       bridges, frames
<1>1. ASSUME NEW p \in Staged, PumpStops(p) PROVE ChannelHasNewest'
  BY <1>1 DEF PumpStops, ChannelHasNewest, FrameTypes
<1>2. ASSUME NEW p \in Staged, FrameRead(p) PROVE ChannelHasNewest'
  BY <1>2 DEF FrameRead, ChannelHasNewest, FrameTypes
<1>3. ASSUME NEW p \in Staged, FrameSent(p) PROVE ChannelHasNewest'
  BY <1>3 DEF FrameSent, Sends, ChannelHasNewest, FrameTypes
<1>4. ASSUME NEW p \in Staged, FrameDropped(p) PROVE ChannelHasNewest'
  BY <1>4 DEF FrameDropped, ChannelHasNewest, FrameTypes
<1>5. ASSUME NEW p \in Staged, FrameTaken(p) PROVE ChannelHasNewest'
  BY <1>5 DEF FrameTaken, ChannelHasNewest, FrameTypes
<1>6. ASSUME NEW p \in Staged,
              PrepareBegins(p) \/ StartVideo(p) \/ StartAudio(p) \/ SetCleanup(p) \/
              PrepareStart(p) \/ PrepareAnswers(p)
       PROVE  ChannelHasNewest'
  BY <1>6 DEF PrepareBegins, StartVideo, StartAudio, SetCleanup, PrepareStart, PrepareAnswers,
       TakeSlot, SlotFree, StepTo, MayStart, VideoFree, OpenVideo, DetachOwnVideo, DetachVideo,
       CloseOwnAudio, ChannelHasNewest
<1>7. ASSUME NEW p \in Staged,
              PrepareFinishes(p) \/ PrepareFails(p) \/ Commit(p) \/ AbortBegins(p) \/
              AbortCleansUp(p) \/ AbortEnds(p)
       PROVE  ChannelHasNewest'
  BY <1>7 DEF PrepareFinishes, PrepareFails, Commit, AbortBegins, AbortCleansUp, AbortEnds,
       StepTo, MayAbort, ClaimAbort, PrepareDone, Cleaned, ReleaseSlot, ChannelHasNewest
<1>8. ASSUME NEW p \in Staged,
              AbortTimesOut(p) \/ CleanupVideo(p) \/ CleanupAudio(p) \/ CloseVideo(p) \/
              Accepts(p) \/ Finishes(p)
       PROVE  ChannelHasNewest'
  BY <1>8 DEF AbortTimesOut, CleanupVideo, CleanupAudio, CloseVideo, Accepts, Finishes,
       DetachOwnVideo, DetachVideo, CloseOwnAudio, FinishForgets, ChannelHasNewest
<1>9. ASSUME NEW p \in Direct,
              DirectAudio(p) \/ DirectReserves(p) \/ DirectStarts(p) \/ DirectFails(p) \/
              HookClosesAudio(p) \/ HookClosesVideo(p)
       PROVE  ChannelHasNewest'
  BY <1>9 DEF DirectAudio, DirectReserves, DirectStarts, DirectFails, HookClosesAudio,
       HookClosesVideo, StepTo, MayStart, TakeSlot, SlotFree, CloseAudioById, CloseVideoById,
       DetachVideo, ChannelHasNewest
<1>10. ASSUME NEW p \in Start,
              ChildExits(p) \/ WaitEnds(p) \/ PackagingEnds(p)
       PROVE  ChannelHasNewest'
  BY <1>10 DEF ChildExits, WaitEnds, PackagingEnds, Cleaned, ReleaseSlot, PrepareDone,
       ChannelHasNewest
<1>11. ASSUME NEW h \in Stop,
              StopLooks(h) \/ StopCalls(h) \/ StopWaits(h) \/ StopClosesAudio(h) \/
              StopClosesVideo(h)
       PROVE  ChannelHasNewest'
  BY <1>11 DEF StopLooks, StopCalls, StopWaits, StopClosesAudio, StopClosesVideo, Goes, MayStop,
       CloseAudioById, CloseVideoById, DetachVideo, ChannelHasNewest
<1>12. CASE UNCHANGED vars
  BY <1>12 DEF vars, ChannelHasNewest
<1> QED BY <1>1, <1>2, <1>3, <1>4, <1>5, <1>6, <1>7, <1>8, <1>9, <1>10, <1>11, <1>12 DEF Next

\* What the pump takes out of the channel it repeats from then on.
LEMMA NewestKept ==
  ASSUME NewestFrameKept, FrameTypes, ChannelHasNewest, [Next]_vars
  PROVE  NewestFrameKept'
<1> USE BridgesAssumption DEF slot, starts, ends, stops, handlers, videoBridges, audioBridges,
       bridges, frames
<1>1. ASSUME NEW p \in Staged, PumpStops(p) PROVE NewestFrameKept'
  BY <1>1 DEF PumpStops, NewestFrameKept, FrameTypes, ChannelHasNewest
<1>2. ASSUME NEW p \in Staged, FrameRead(p) PROVE NewestFrameKept'
  BY <1>2 DEF FrameRead, NewestFrameKept, FrameTypes, ChannelHasNewest
<1>3. ASSUME NEW p \in Staged, FrameSent(p) PROVE NewestFrameKept'
  BY <1>3 DEF FrameSent, Sends, NewestFrameKept, FrameTypes, ChannelHasNewest
<1>4. ASSUME NEW p \in Staged, FrameDropped(p) PROVE NewestFrameKept'
  BY <1>4 DEF FrameDropped, NewestFrameKept, FrameTypes, ChannelHasNewest
<1>5. ASSUME NEW p \in Staged, FrameTaken(p) PROVE NewestFrameKept'
  BY <1>5 DEF FrameTaken, NewestFrameKept, FrameTypes, ChannelHasNewest
<1>6. ASSUME NEW p \in Staged,
              PrepareBegins(p) \/ StartVideo(p) \/ StartAudio(p) \/ SetCleanup(p) \/
              PrepareStart(p) \/ PrepareAnswers(p)
       PROVE  NewestFrameKept'
  BY <1>6 DEF PrepareBegins, StartVideo, StartAudio, SetCleanup, PrepareStart, PrepareAnswers,
       TakeSlot, SlotFree, StepTo, MayStart, VideoFree, OpenVideo, DetachOwnVideo, DetachVideo,
       CloseOwnAudio, NewestFrameKept
<1>7. ASSUME NEW p \in Staged,
              PrepareFinishes(p) \/ PrepareFails(p) \/ Commit(p) \/ AbortBegins(p) \/
              AbortCleansUp(p) \/ AbortEnds(p)
       PROVE  NewestFrameKept'
  BY <1>7 DEF PrepareFinishes, PrepareFails, Commit, AbortBegins, AbortCleansUp, AbortEnds,
       StepTo, MayAbort, ClaimAbort, PrepareDone, Cleaned, ReleaseSlot, NewestFrameKept
<1>8. ASSUME NEW p \in Staged,
              AbortTimesOut(p) \/ CleanupVideo(p) \/ CleanupAudio(p) \/ CloseVideo(p) \/
              Accepts(p) \/ Finishes(p)
       PROVE  NewestFrameKept'
  BY <1>8 DEF AbortTimesOut, CleanupVideo, CleanupAudio, CloseVideo, Accepts, Finishes,
       DetachOwnVideo, DetachVideo, CloseOwnAudio, FinishForgets, NewestFrameKept
<1>9. ASSUME NEW p \in Direct,
              DirectAudio(p) \/ DirectReserves(p) \/ DirectStarts(p) \/ DirectFails(p) \/
              HookClosesAudio(p) \/ HookClosesVideo(p)
       PROVE  NewestFrameKept'
  BY <1>9 DEF DirectAudio, DirectReserves, DirectStarts, DirectFails, HookClosesAudio,
       HookClosesVideo, StepTo, MayStart, TakeSlot, SlotFree, CloseAudioById, CloseVideoById,
       DetachVideo, NewestFrameKept
<1>10. ASSUME NEW p \in Start,
              ChildExits(p) \/ WaitEnds(p) \/ PackagingEnds(p)
       PROVE  NewestFrameKept'
  BY <1>10 DEF ChildExits, WaitEnds, PackagingEnds, Cleaned, ReleaseSlot, PrepareDone,
       NewestFrameKept
<1>11. ASSUME NEW h \in Stop,
              StopLooks(h) \/ StopCalls(h) \/ StopWaits(h) \/ StopClosesAudio(h) \/
              StopClosesVideo(h)
       PROVE  NewestFrameKept'
  BY <1>11 DEF StopLooks, StopCalls, StopWaits, StopClosesAudio, StopClosesVideo, Goes, MayStop,
       CloseAudioById, CloseVideoById, DetachVideo, NewestFrameKept
<1>12. CASE UNCHANGED vars
  BY <1>12 DEF vars, NewestFrameKept
<1> QED BY <1>1, <1>2, <1>3, <1>4, <1>5, <1>6, <1>7, <1>8, <1>9, <1>10, <1>11, <1>12 DEF Next

\* A start opens its video bridge once, and a bridge leaves the map when somebody begins to close
\* it.
LEMMA OpenedOnceKept ==
  ASSUME OpenedOnce, SlotTypes, BridgeTypes, [Next]_vars
  PROVE  OpenedOnce'
<1> USE BridgesAssumption DEF slot, starts, ends, stops, handlers, videoBridges, audioBridges,
       bridges, frames
<1>1. ASSUME NEW p \in Staged, PrepareBegins(p) PROVE OpenedOnce'
  BY <1>1 DEF PrepareBegins, TakeSlot, SlotFree, StepTo, MayStart, OpenedOnce, SlotTypes,
       BridgeTypes, Start
<1>2. ASSUME NEW p \in Staged, StartVideo(p) PROVE OpenedOnce'
  BY <1>2 DEF StartVideo, VideoFree, OpenVideo, StepTo, OpenedOnce, SlotTypes, BridgeTypes, Start
<1>3. ASSUME NEW p \in Staged, StartAudio(p) PROVE OpenedOnce'
  BY <1>3 DEF StartAudio, DetachOwnVideo, DetachVideo, StepTo, OpenedOnce, SlotTypes, BridgeTypes,
       Start
<1>4. ASSUME NEW p \in Staged, SetCleanup(p) PROVE OpenedOnce'
  BY <1>4 DEF SetCleanup, DetachOwnVideo, DetachVideo, CloseOwnAudio, StepTo, OpenedOnce,
       SlotTypes, BridgeTypes, Start
<1>5. ASSUME NEW p \in Staged, PrepareStart(p) PROVE OpenedOnce'
  BY <1>5 DEF PrepareStart, StepTo, OpenedOnce, SlotTypes, BridgeTypes, Start
<1>6. ASSUME NEW p \in Staged, PrepareAnswers(p) PROVE OpenedOnce'
  BY <1>6 DEF PrepareAnswers, StepTo, OpenedOnce, SlotTypes, BridgeTypes, Start
<1>7. ASSUME NEW p \in Staged, PrepareFinishes(p) PROVE OpenedOnce'
  BY <1>7 DEF PrepareFinishes, StepTo, OpenedOnce, SlotTypes, BridgeTypes, Start
<1>8. ASSUME NEW p \in Staged, PrepareFails(p) PROVE OpenedOnce'
  BY <1>8 DEF PrepareFails, StepTo, MayAbort, ClaimAbort, PrepareDone, OpenedOnce, SlotTypes,
       BridgeTypes, Start
<1>9. ASSUME NEW p \in Staged, CleanupVideo(p) PROVE OpenedOnce'
  BY <1>9 DEF CleanupVideo, DetachOwnVideo, DetachVideo, OpenedOnce, SlotTypes, BridgeTypes, Start
<1>10. ASSUME NEW p \in Staged, CloseVideo(p) PROVE OpenedOnce'
  BY <1>10 DEF CloseVideo, OpenedOnce, SlotTypes, BridgeTypes, Start
<1>11. ASSUME NEW p \in Staged, Finishes(p) PROVE OpenedOnce'
  BY <1>11 DEF Finishes, FinishForgets, OpenedOnce, SlotTypes, BridgeTypes, Start
<1>12. ASSUME NEW p \in Staged,
              Commit(p) \/ AbortBegins(p) \/ AbortCleansUp(p) \/ AbortEnds(p) \/ AbortTimesOut(p)
              \/ CleanupAudio(p)
       PROVE  OpenedOnce'
  BY <1>12 DEF Commit, AbortBegins, AbortCleansUp, AbortEnds, AbortTimesOut, CleanupAudio,
       MayAbort, ClaimAbort, PrepareDone, Cleaned, ReleaseSlot, CloseOwnAudio, OpenedOnce
<1>13. ASSUME NEW p \in Staged,
              Accepts(p) \/ PumpStops(p) \/ FrameRead(p) \/ FrameSent(p) \/ FrameDropped(p) \/
              FrameTaken(p)
       PROVE  OpenedOnce'
  BY <1>13 DEF Accepts, PumpStops, FrameRead, FrameSent, FrameDropped, FrameTaken, Sends,
       OpenedOnce
<1>14. ASSUME NEW p \in Direct, DirectAudio(p) PROVE OpenedOnce'
  BY <1>14 DEF DirectAudio, StepTo, MayStart, OpenedOnce, SlotTypes, BridgeTypes, Start
<1>15. ASSUME NEW p \in Direct, DirectReserves(p) PROVE OpenedOnce'
  BY <1>15 DEF DirectReserves, TakeSlot, SlotFree, StepTo, OpenedOnce, SlotTypes, BridgeTypes,
       Start
<1>16. ASSUME NEW p \in Direct, DirectStarts(p) PROVE OpenedOnce'
  BY <1>16 DEF DirectStarts, StepTo, OpenedOnce, SlotTypes, BridgeTypes, Start
<1>17. ASSUME NEW p \in Direct, DirectFails(p) PROVE OpenedOnce'
  BY <1>17 DEF DirectFails, StepTo, CloseAudioById, OpenedOnce, SlotTypes, BridgeTypes, Start
<1>18. ASSUME NEW p \in Direct, HookClosesVideo(p) PROVE OpenedOnce'
  BY <1>18 DEF HookClosesVideo, CloseVideoById, DetachVideo, OpenedOnce, SlotTypes, BridgeTypes,
       Start
<1>19. ASSUME NEW p \in Direct, HookClosesAudio(p) PROVE OpenedOnce'
  BY <1>19 DEF HookClosesAudio, CloseAudioById, OpenedOnce
<1>20. ASSUME NEW p \in Start,
              ChildExits(p) \/ WaitEnds(p) \/ PackagingEnds(p)
       PROVE  OpenedOnce'
  BY <1>20 DEF ChildExits, WaitEnds, PackagingEnds, Cleaned, ReleaseSlot, PrepareDone, OpenedOnce
<1>21. ASSUME NEW h \in Stop, StopClosesVideo(h) PROVE OpenedOnce'
  BY <1>21 DEF StopClosesVideo, Goes, CloseVideoById, DetachVideo, OpenedOnce, SlotTypes,
       BridgeTypes, Start
<1>22. ASSUME NEW h \in Stop,
              StopLooks(h) \/ StopCalls(h) \/ StopWaits(h) \/ StopClosesAudio(h)
       PROVE  OpenedOnce'
  BY <1>22 DEF StopLooks, StopCalls, StopWaits, StopClosesAudio, Goes, MayStop, CloseAudioById,
       OpenedOnce
<1>23. CASE UNCHANGED vars
  BY <1>23 DEF vars, OpenedOnce
<1> QED BY <1>1, <1>2, <1>3, <1>4, <1>5, <1>6, <1>7, <1>8, <1>9, <1>10, <1>11, <1>12, <1>13,
       <1>14, <1>15, <1>16, <1>17, <1>18, <1>19, <1>20, <1>21, <1>22, <1>23 DEF Next

\* No goroutine comes before the step of the handler that starts it.
LEMMA PlacesKept ==
  ASSUME Places, SlotTypes, [Next]_vars
  PROVE  Places'
<1> USE BridgesAssumption DEF slot, starts, ends, stops, handlers, videoBridges, audioBridges,
       bridges, frames
<1>1. ASSUME NEW p \in Staged, PrepareBegins(p) PROVE Places'
  BY <1>1 DEF PrepareBegins, TakeSlot, SlotFree, StepTo, MayStart, Places, SlotTypes, Start,
       PrepareDone
<1>2. ASSUME NEW p \in Staged, StartVideo(p) PROVE Places'
  BY <1>2 DEF StartVideo, VideoFree, OpenVideo, StepTo, Places, SlotTypes, Start, PrepareDone
<1>3. ASSUME NEW p \in Staged, StartAudio(p) PROVE Places'
  BY <1>3 DEF StartAudio, DetachOwnVideo, DetachVideo, StepTo, Places, SlotTypes, Start,
       PrepareDone
<1>4. ASSUME NEW p \in Staged, SetCleanup(p) PROVE Places'
  BY <1>4 DEF SetCleanup, DetachOwnVideo, DetachVideo, CloseOwnAudio, StepTo, Places, SlotTypes,
       Start, PrepareDone
<1>5. ASSUME NEW p \in Staged, PrepareStart(p) PROVE Places'
  BY <1>5 DEF PrepareStart, StepTo, Places, SlotTypes, Start, PrepareDone
<1>6. ASSUME NEW p \in Staged, PrepareAnswers(p) PROVE Places'
  BY <1>6 DEF PrepareAnswers, StepTo, Places, SlotTypes, Start, PrepareDone
<1>7. ASSUME NEW p \in Staged, PrepareFinishes(p) PROVE Places'
  BY <1>7 DEF PrepareFinishes, StepTo, Places, SlotTypes, Start, PrepareDone
<1>8. ASSUME NEW p \in Staged, PrepareFails(p) PROVE Places'
  BY <1>8 DEF PrepareFails, StepTo, MayAbort, ClaimAbort, PrepareDone, Places, SlotTypes, Start
<1>9. ASSUME NEW p \in Staged, AbortBegins(p) PROVE Places'
  BY <1>9 DEF AbortBegins, MayAbort, ClaimAbort, PrepareDone, Places, SlotTypes, Start
<1>10. ASSUME NEW p \in Staged, AbortCleansUp(p) PROVE Places'
  BY <1>10 DEF AbortCleansUp, Cleaned, PrepareDone, Places, SlotTypes, Start
<1>11. ASSUME NEW p \in Staged, AbortEnds(p) PROVE Places'
  BY <1>11 DEF AbortEnds, ReleaseSlot, Places, SlotTypes, Start, PrepareDone
<1>12. ASSUME NEW p \in Staged, AbortTimesOut(p) PROVE Places'
  BY <1>12 DEF AbortTimesOut, Places, SlotTypes, Start, PrepareDone
<1>13. ASSUME NEW p \in Staged, CleanupVideo(p) PROVE Places'
  BY <1>13 DEF CleanupVideo, DetachOwnVideo, DetachVideo, Places, SlotTypes, Start, PrepareDone
<1>14. ASSUME NEW p \in Staged, CleanupAudio(p) PROVE Places'
  BY <1>14 DEF CleanupAudio, CloseOwnAudio, Places, SlotTypes, Start, PrepareDone
<1>15. ASSUME NEW p \in Staged,
              Commit(p) \/ CloseVideo(p) \/ Accepts(p) \/ PumpStops(p) \/ Finishes(p) \/
              FrameRead(p)
       PROVE  Places'
  BY <1>15 DEF Commit, CloseVideo, Accepts, PumpStops, Finishes, FrameRead, FinishForgets, Places,
       PrepareDone
<1>16. ASSUME NEW p \in Staged,
              FrameSent(p) \/ FrameDropped(p) \/ FrameTaken(p)
       PROVE  Places'
  BY <1>16 DEF FrameSent, FrameDropped, FrameTaken, Sends, Places, PrepareDone
<1>17. ASSUME NEW p \in Direct, DirectAudio(p) PROVE Places'
  BY <1>17 DEF DirectAudio, StepTo, MayStart, Places, SlotTypes, Start, PrepareDone
<1>18. ASSUME NEW p \in Direct, DirectReserves(p) PROVE Places'
  BY <1>18 DEF DirectReserves, TakeSlot, SlotFree, StepTo, Places, SlotTypes, Start, PrepareDone
<1>19. ASSUME NEW p \in Direct, DirectStarts(p) PROVE Places'
  BY <1>19 DEF DirectStarts, StepTo, Places, SlotTypes, Start, PrepareDone
<1>20. ASSUME NEW p \in Direct, DirectFails(p) PROVE Places'
  BY <1>20 DEF DirectFails, StepTo, CloseAudioById, Places, SlotTypes, Start, PrepareDone
<1>21. ASSUME NEW p \in Direct, HookClosesAudio(p) PROVE Places'
  BY <1>21 DEF HookClosesAudio, CloseAudioById, Places, SlotTypes, Start, PrepareDone
<1>22. ASSUME NEW p \in Direct, HookClosesVideo(p) PROVE Places'
  BY <1>22 DEF HookClosesVideo, CloseVideoById, DetachVideo, Places, SlotTypes, Start, PrepareDone
<1>23. ASSUME NEW p \in Start, ChildExits(p) PROVE Places'
  BY <1>23 DEF ChildExits, Cleaned, Places, SlotTypes, Start, PrepareDone
<1>24. ASSUME NEW p \in Start, WaitEnds(p) PROVE Places'
  BY <1>24 DEF WaitEnds, ReleaseSlot, PrepareDone, Places, SlotTypes, Start
<1>25. ASSUME NEW p \in Start, PackagingEnds(p) PROVE Places'
  BY <1>25 DEF PackagingEnds, Places, PrepareDone
<1>26. ASSUME NEW h \in Stop,
              StopLooks(h) \/ StopCalls(h) \/ StopWaits(h) \/ StopClosesAudio(h) \/
              StopClosesVideo(h)
       PROVE  Places'
  BY <1>26 DEF StopLooks, StopCalls, StopWaits, StopClosesAudio, StopClosesVideo, Goes, MayStop,
       CloseAudioById, CloseVideoById, DetachVideo, Places, PrepareDone
<1>27. CASE UNCHANGED vars
  BY <1>27 DEF vars, Places, PrepareDone
<1> QED BY <1>1, <1>2, <1>3, <1>4, <1>5, <1>6, <1>7, <1>8, <1>9, <1>10, <1>11, <1>12, <1>13,
       <1>14, <1>15, <1>16, <1>17, <1>18, <1>19, <1>20, <1>21, <1>22, <1>23, <1>24, <1>25, <1>26,
       <1>27 DEF Next

\* A reserved slot is given back by its owner alone, and not before its child has ended
\* (BeginStartPreparation, wait, abortPreparation).
LEMMA SlotKeptKept ==
  ASSUME SlotKept, SlotTypes, Places, SlotTaken, [Next]_vars
  PROVE  SlotKept'
<1> USE BridgesAssumption DEF slot, starts, ends, stops, handlers, videoBridges, audioBridges,
       bridges, frames
<1>1. ASSUME NEW p \in Staged, PrepareBegins(p) PROVE SlotKept'
  BY <1>1 DEF PrepareBegins, TakeSlot, SlotFree, StepTo, MayStart, SlotKept, SlotTypes, Places,
       SlotTaken, Start, PrepareDone
<1>2. ASSUME NEW p \in Staged, StartVideo(p) PROVE SlotKept'
  BY <1>2 DEF StartVideo, VideoFree, OpenVideo, StepTo, SlotKept, SlotTypes, Places, SlotTaken,
       Start, PrepareDone
<1>3. ASSUME NEW p \in Staged, StartAudio(p) PROVE SlotKept'
  BY <1>3 DEF StartAudio, DetachOwnVideo, DetachVideo, StepTo, SlotKept, SlotTypes, Places,
       SlotTaken, Start, PrepareDone
<1>4. ASSUME NEW p \in Staged, SetCleanup(p) PROVE SlotKept'
  BY <1>4 DEF SetCleanup, DetachOwnVideo, DetachVideo, CloseOwnAudio, StepTo, SlotKept, SlotTypes,
       Places, SlotTaken, Start, PrepareDone
<1>5. ASSUME NEW p \in Staged, PrepareStart(p) PROVE SlotKept'
  BY <1>5 DEF PrepareStart, StepTo, SlotKept, SlotTypes, Places, SlotTaken, Start, PrepareDone
<1>6. ASSUME NEW p \in Staged, PrepareAnswers(p) PROVE SlotKept'
  BY <1>6 DEF PrepareAnswers, StepTo, SlotKept, SlotTypes, Places, SlotTaken, Start, PrepareDone
<1>7. ASSUME NEW p \in Staged, PrepareFinishes(p) PROVE SlotKept'
  BY <1>7 DEF PrepareFinishes, StepTo, SlotKept, SlotTypes, Places, SlotTaken, Start, PrepareDone
<1>8. ASSUME NEW p \in Staged, PrepareFails(p) PROVE SlotKept'
  BY <1>8 DEF PrepareFails, StepTo, MayAbort, ClaimAbort, PrepareDone, SlotKept, SlotTypes,
       Places, SlotTaken, Start
<1>9. ASSUME NEW p \in Staged, Commit(p) PROVE SlotKept'
  BY <1>9 DEF Commit, SlotKept, SlotTypes, Places, SlotTaken, Start, PrepareDone
<1>10. ASSUME NEW p \in Staged, AbortBegins(p) PROVE SlotKept'
  BY <1>10 DEF AbortBegins, MayAbort, ClaimAbort, PrepareDone, SlotKept, SlotTypes, Places,
       SlotTaken, Start
<1>11. ASSUME NEW p \in Staged, AbortEnds(p) PROVE SlotKept'
  BY <1>11 DEF AbortEnds, ReleaseSlot, SlotKept, SlotTypes, Places, SlotTaken, Start, PrepareDone
<1>12. ASSUME NEW p \in Staged,
              AbortCleansUp(p) \/ AbortTimesOut(p) \/ CleanupVideo(p) \/ CleanupAudio(p) \/
              CloseVideo(p) \/ Accepts(p)
       PROVE  SlotKept'
  BY <1>12 DEF AbortCleansUp, AbortTimesOut, CleanupVideo, CleanupAudio, CloseVideo, Accepts,
       Cleaned, PrepareDone, DetachOwnVideo, DetachVideo, CloseOwnAudio, SlotKept
<1>13. ASSUME NEW p \in Staged,
              PumpStops(p) \/ Finishes(p) \/ FrameRead(p) \/ FrameSent(p) \/ FrameDropped(p) \/
              FrameTaken(p)
       PROVE  SlotKept'
  BY <1>13 DEF PumpStops, Finishes, FrameRead, FrameSent, FrameDropped, FrameTaken, FinishForgets,
       Sends, SlotKept
<1>14. ASSUME NEW p \in Direct, DirectAudio(p) PROVE SlotKept'
  BY <1>14 DEF DirectAudio, StepTo, MayStart, SlotKept, SlotTypes, Places, SlotTaken, Start,
       PrepareDone
<1>15. ASSUME NEW p \in Direct, DirectReserves(p) PROVE SlotKept'
  BY <1>15 DEF DirectReserves, TakeSlot, SlotFree, StepTo, SlotKept, SlotTypes, Places, SlotTaken,
       Start, PrepareDone
<1>16. ASSUME NEW p \in Direct, DirectStarts(p) PROVE SlotKept'
  BY <1>16 DEF DirectStarts, StepTo, SlotKept, SlotTypes, Places, SlotTaken, Start, PrepareDone
<1>17. ASSUME NEW p \in Direct, DirectFails(p) PROVE SlotKept'
  BY <1>17 DEF DirectFails, StepTo, CloseAudioById, SlotKept, SlotTypes, Places, SlotTaken, Start,
       PrepareDone
<1>18. ASSUME NEW p \in Direct, HookClosesAudio(p) PROVE SlotKept'
  BY <1>18 DEF HookClosesAudio, CloseAudioById, SlotKept, SlotTypes, Places, SlotTaken, Start,
       PrepareDone
<1>19. ASSUME NEW p \in Direct, HookClosesVideo(p) PROVE SlotKept'
  BY <1>19 DEF HookClosesVideo, CloseVideoById, DetachVideo, SlotKept, SlotTypes, Places,
       SlotTaken, Start, PrepareDone
<1>20. ASSUME NEW p \in Start, ChildExits(p) PROVE SlotKept'
  BY <1>20 DEF ChildExits, Cleaned, SlotKept, SlotTypes, Places, SlotTaken, Start, PrepareDone
<1>21. ASSUME NEW p \in Start, WaitEnds(p) PROVE SlotKept'
  BY <1>21 DEF WaitEnds, ReleaseSlot, PrepareDone, SlotKept, SlotTypes, Places, SlotTaken, Start
<1>22. ASSUME NEW p \in Start, PackagingEnds(p) PROVE SlotKept'
  BY <1>22 DEF PackagingEnds, SlotKept, SlotTypes, Places, SlotTaken, Start, PrepareDone
<1>23. ASSUME NEW h \in Stop, StopCalls(h) PROVE SlotKept'
  BY <1>23 DEF StopCalls, Goes, SlotKept, SlotTypes, Places, SlotTaken, Start, PrepareDone
<1>24. ASSUME NEW h \in Stop,
              StopLooks(h) \/ StopWaits(h) \/ StopClosesAudio(h) \/ StopClosesVideo(h)
       PROVE  SlotKept'
  BY <1>24 DEF StopLooks, StopWaits, StopClosesAudio, StopClosesVideo, Goes, MayStop,
       CloseAudioById, CloseVideoById, DetachVideo, SlotKept
<1>25. CASE UNCHANGED vars
  BY <1>25 DEF vars, SlotKept
<1> QED BY <1>1, <1>2, <1>3, <1>4, <1>5, <1>6, <1>7, <1>8, <1>9, <1>10, <1>11, <1>12, <1>13,
       <1>14, <1>15, <1>16, <1>17, <1>18, <1>19, <1>20, <1>21, <1>22, <1>23, <1>24, <1>25 DEF Next

\* A start runs with its child, and a direct start has the slot before it has one.
LEMMA SlotTakenKept ==
  ASSUME SlotTaken, SlotTypes, Places, SlotKept, [Next]_vars
  PROVE  SlotTaken'
<1> USE BridgesAssumption DEF slot, starts, ends, stops, handlers, videoBridges, audioBridges,
       bridges, frames
<1>1. ASSUME NEW p \in Staged, PrepareBegins(p) PROVE SlotTaken'
  BY <1>1 DEF PrepareBegins, TakeSlot, SlotFree, StepTo, MayStart, SlotTaken, SlotTypes, Places,
       SlotKept, Start, PrepareDone
<1>2. ASSUME NEW p \in Staged, StartVideo(p) PROVE SlotTaken'
  BY <1>2 DEF StartVideo, VideoFree, OpenVideo, StepTo, SlotTaken, SlotTypes, Places, SlotKept,
       Start, PrepareDone
<1>3. ASSUME NEW p \in Staged, StartAudio(p) PROVE SlotTaken'
  BY <1>3 DEF StartAudio, DetachOwnVideo, DetachVideo, StepTo, SlotTaken, SlotTypes, Places,
       SlotKept, Start, PrepareDone
<1>4. ASSUME NEW p \in Staged, SetCleanup(p) PROVE SlotTaken'
  BY <1>4 DEF SetCleanup, DetachOwnVideo, DetachVideo, CloseOwnAudio, StepTo, SlotTaken,
       SlotTypes, Places, SlotKept, Start, PrepareDone
<1>5. ASSUME NEW p \in Staged, PrepareStart(p) PROVE SlotTaken'
  BY <1>5 DEF PrepareStart, StepTo, SlotTaken, SlotTypes, Places, SlotKept, Start, PrepareDone
<1>6. ASSUME NEW p \in Staged, PrepareAnswers(p) PROVE SlotTaken'
  BY <1>6 DEF PrepareAnswers, StepTo, SlotTaken, SlotTypes, Places, SlotKept, Start, PrepareDone
<1>7. ASSUME NEW p \in Staged, PrepareFinishes(p) PROVE SlotTaken'
  BY <1>7 DEF PrepareFinishes, StepTo, SlotTaken, SlotTypes, Places, SlotKept, Start, PrepareDone
<1>8. ASSUME NEW p \in Staged, PrepareFails(p) PROVE SlotTaken'
  BY <1>8 DEF PrepareFails, StepTo, MayAbort, ClaimAbort, PrepareDone, SlotTaken, SlotTypes,
       Places, SlotKept, Start
<1>9. ASSUME NEW p \in Staged, Commit(p) PROVE SlotTaken'
  BY <1>9 DEF Commit, SlotTaken, SlotTypes, Places, SlotKept, Start, PrepareDone
<1>10. ASSUME NEW p \in Staged, AbortEnds(p) PROVE SlotTaken'
  BY <1>10 DEF AbortEnds, ReleaseSlot, SlotTaken, SlotTypes, Places, SlotKept, Start, PrepareDone
<1>11. ASSUME NEW p \in Staged,
              AbortBegins(p) \/ AbortCleansUp(p) \/ AbortTimesOut(p) \/ CleanupVideo(p) \/
              CleanupAudio(p) \/ CloseVideo(p)
       PROVE  SlotTaken'
  BY <1>11 DEF AbortBegins, AbortCleansUp, AbortTimesOut, CleanupVideo, CleanupAudio, CloseVideo,
       MayAbort, ClaimAbort, PrepareDone, Cleaned, DetachOwnVideo, DetachVideo, CloseOwnAudio,
       SlotTaken
<1>12. ASSUME NEW p \in Staged,
              Accepts(p) \/ PumpStops(p) \/ Finishes(p) \/ FrameRead(p) \/ FrameSent(p) \/
              FrameDropped(p)
       PROVE  SlotTaken'
  BY <1>12 DEF Accepts, PumpStops, Finishes, FrameRead, FrameSent, FrameDropped, FinishForgets,
       Sends, SlotTaken
<1>13. ASSUME NEW p \in Staged, FrameTaken(p) PROVE SlotTaken'
  BY <1>13 DEF FrameTaken, SlotTaken
<1>14. ASSUME NEW p \in Direct, DirectAudio(p) PROVE SlotTaken'
  BY <1>14 DEF DirectAudio, StepTo, MayStart, SlotTaken, SlotTypes, Places, SlotKept, Start,
       PrepareDone
<1>15. ASSUME NEW p \in Direct, DirectReserves(p) PROVE SlotTaken'
  BY <1>15 DEF DirectReserves, TakeSlot, SlotFree, StepTo, SlotTaken, SlotTypes, Places, SlotKept,
       Start, PrepareDone
<1>16. ASSUME NEW p \in Direct, DirectStarts(p) PROVE SlotTaken'
  BY <1>16 DEF DirectStarts, StepTo, SlotTaken, SlotTypes, Places, SlotKept, Start, PrepareDone
<1>17. ASSUME NEW p \in Direct, DirectFails(p) PROVE SlotTaken'
  BY <1>17 DEF DirectFails, StepTo, CloseAudioById, SlotTaken, SlotTypes, Places, SlotKept, Start,
       PrepareDone
<1>18. ASSUME NEW p \in Direct, HookClosesAudio(p) PROVE SlotTaken'
  BY <1>18 DEF HookClosesAudio, CloseAudioById, SlotTaken, SlotTypes, Places, SlotKept, Start,
       PrepareDone
<1>19. ASSUME NEW p \in Direct, HookClosesVideo(p) PROVE SlotTaken'
  BY <1>19 DEF HookClosesVideo, CloseVideoById, DetachVideo, SlotTaken, SlotTypes, Places,
       SlotKept, Start, PrepareDone
<1>20. ASSUME NEW p \in Start, ChildExits(p) PROVE SlotTaken'
  BY <1>20 DEF ChildExits, Cleaned, SlotTaken, SlotTypes, Places, SlotKept, Start, PrepareDone
<1>21. ASSUME NEW p \in Start, WaitEnds(p) PROVE SlotTaken'
  BY <1>21 DEF WaitEnds, ReleaseSlot, PrepareDone, SlotTaken, SlotTypes, Places, SlotKept, Start
<1>22. ASSUME NEW p \in Start, PackagingEnds(p) PROVE SlotTaken'
  BY <1>22 DEF PackagingEnds, SlotTaken, SlotTypes, Places, SlotKept, Start, PrepareDone
<1>23. ASSUME NEW h \in Stop, StopCalls(h) PROVE SlotTaken'
  BY <1>23 DEF StopCalls, Goes, SlotTaken, SlotTypes, Places, SlotKept, Start, PrepareDone
<1>24. ASSUME NEW h \in Stop,
              StopLooks(h) \/ StopWaits(h) \/ StopClosesAudio(h) \/ StopClosesVideo(h)
       PROVE  SlotTaken'
  BY <1>24 DEF StopLooks, StopWaits, StopClosesAudio, StopClosesVideo, Goes, MayStop,
       CloseAudioById, CloseVideoById, DetachVideo, SlotTaken
<1>25. CASE UNCHANGED vars
  BY <1>25 DEF vars, SlotTaken
<1> QED BY <1>1, <1>2, <1>3, <1>4, <1>5, <1>6, <1>7, <1>8, <1>9, <1>10, <1>11, <1>12, <1>13,
       <1>14, <1>15, <1>16, <1>17, <1>18, <1>19, <1>20, <1>21, <1>22, <1>23, <1>24, <1>25 DEF Next

\* The cleanup function is called when the child has ended or the start was aborted
\* (cleanupPreparationResources).
LEMMA CleanedKept ==
  ASSUME CleanedAtEnd, SlotTypes, Places, SlotKept, [Next]_vars
  PROVE  CleanedAtEnd'
<1> USE BridgesAssumption DEF slot, starts, ends, stops, handlers, videoBridges, audioBridges,
       bridges, frames
<1>1. ASSUME NEW p \in Staged, PrepareBegins(p) PROVE CleanedAtEnd'
  BY <1>1 DEF PrepareBegins, TakeSlot, SlotFree, StepTo, MayStart, CleanedAtEnd, SlotTypes,
       Places, SlotKept, Start, Live
<1>2. ASSUME NEW p \in Staged, SetCleanup(p) PROVE CleanedAtEnd'
  BY <1>2 DEF SetCleanup, DetachOwnVideo, DetachVideo, CloseOwnAudio, StepTo, CleanedAtEnd,
       SlotTypes, Places, SlotKept, Start, Live
<1>3. ASSUME NEW p \in Staged, PrepareFails(p) PROVE CleanedAtEnd'
  BY <1>3 DEF PrepareFails, StepTo, MayAbort, ClaimAbort, PrepareDone, CleanedAtEnd, SlotTypes,
       Places, SlotKept, Start, Live
<1>4. ASSUME NEW p \in Staged, Commit(p) PROVE CleanedAtEnd'
  BY <1>4 DEF Commit, CleanedAtEnd, SlotTypes, Places, SlotKept, Start, Live
<1>5. ASSUME NEW p \in Staged, AbortBegins(p) PROVE CleanedAtEnd'
  BY <1>5 DEF AbortBegins, MayAbort, ClaimAbort, PrepareDone, CleanedAtEnd, SlotTypes, Places,
       SlotKept, Start, Live
<1>6. ASSUME NEW p \in Staged, AbortCleansUp(p) PROVE CleanedAtEnd'
  BY <1>6 DEF AbortCleansUp, Cleaned, PrepareDone, CleanedAtEnd, SlotTypes, Places, SlotKept,
       Start, Live
<1>7. ASSUME NEW p \in Staged, AbortEnds(p) PROVE CleanedAtEnd'
  BY <1>7 DEF AbortEnds, ReleaseSlot, CleanedAtEnd, SlotTypes, Places, SlotKept, Start, Live
<1>8. ASSUME NEW p \in Staged, AbortTimesOut(p) PROVE CleanedAtEnd'
  BY <1>8 DEF AbortTimesOut, CleanedAtEnd, SlotTypes, Places, SlotKept, Start, Live
<1>9. ASSUME NEW p \in Staged, CleanupVideo(p) PROVE CleanedAtEnd'
  BY <1>9 DEF CleanupVideo, DetachOwnVideo, DetachVideo, CleanedAtEnd, SlotTypes, Places,
       SlotKept, Start, Live
<1>10. ASSUME NEW p \in Staged, CleanupAudio(p) PROVE CleanedAtEnd'
  BY <1>10 DEF CleanupAudio, CloseOwnAudio, CleanedAtEnd, SlotTypes, Places, SlotKept, Start, Live
<1>11. ASSUME NEW p \in Staged,
              StartVideo(p) \/ StartAudio(p) \/ PrepareStart(p) \/ PrepareAnswers(p) \/
              PrepareFinishes(p) \/ CloseVideo(p)
       PROVE  CleanedAtEnd'
  BY <1>11 DEF StartVideo, StartAudio, PrepareStart, PrepareAnswers, PrepareFinishes, CloseVideo,
       VideoFree, OpenVideo, StepTo, DetachOwnVideo, DetachVideo, CleanedAtEnd, Live
<1>12. ASSUME NEW p \in Staged,
              Accepts(p) \/ PumpStops(p) \/ Finishes(p) \/ FrameRead(p) \/ FrameSent(p) \/
              FrameDropped(p)
       PROVE  CleanedAtEnd'
  BY <1>12 DEF Accepts, PumpStops, Finishes, FrameRead, FrameSent, FrameDropped, FinishForgets,
       Sends, CleanedAtEnd, Live
<1>13. ASSUME NEW p \in Staged, FrameTaken(p) PROVE CleanedAtEnd'
  BY <1>13 DEF FrameTaken, CleanedAtEnd, Live
<1>14. ASSUME NEW p \in Direct, DirectReserves(p) PROVE CleanedAtEnd'
  BY <1>14 DEF DirectReserves, TakeSlot, SlotFree, StepTo, CleanedAtEnd, SlotTypes, Places,
       SlotKept, Start, Live
<1>15. ASSUME NEW p \in Direct, DirectStarts(p) PROVE CleanedAtEnd'
  BY <1>15 DEF DirectStarts, StepTo, CleanedAtEnd, SlotTypes, Places, SlotKept, Start, Live
<1>16. ASSUME NEW p \in Direct,
              DirectAudio(p) \/ DirectFails(p) \/ HookClosesAudio(p) \/ HookClosesVideo(p)
       PROVE  CleanedAtEnd'
  BY <1>16 DEF DirectAudio, DirectFails, HookClosesAudio, HookClosesVideo, StepTo, MayStart,
       CloseAudioById, CloseVideoById, DetachVideo, CleanedAtEnd, Live
<1>17. ASSUME NEW p \in Start, ChildExits(p) PROVE CleanedAtEnd'
  BY <1>17 DEF ChildExits, Cleaned, CleanedAtEnd, SlotTypes, Places, SlotKept, Start, Live
<1>18. ASSUME NEW p \in Start, PackagingEnds(p) PROVE CleanedAtEnd'
  BY <1>18 DEF PackagingEnds, CleanedAtEnd, SlotTypes, Places, SlotKept, Start, Live
<1>19. ASSUME NEW p \in Start, WaitEnds(p) PROVE CleanedAtEnd'
  BY <1>19 DEF WaitEnds, ReleaseSlot, PrepareDone, CleanedAtEnd, Live
<1>20. ASSUME NEW h \in Stop, StopCalls(h) PROVE CleanedAtEnd'
  BY <1>20 DEF StopCalls, Goes, CleanedAtEnd, SlotTypes, Places, SlotKept, Start, Live
<1>21. ASSUME NEW h \in Stop,
              StopLooks(h) \/ StopWaits(h) \/ StopClosesAudio(h) \/ StopClosesVideo(h)
       PROVE  CleanedAtEnd'
  BY <1>21 DEF StopLooks, StopWaits, StopClosesAudio, StopClosesVideo, Goes, MayStop,
       CloseAudioById, CloseVideoById, DetachVideo, CleanedAtEnd, Live
<1>22. CASE UNCHANGED vars
  BY <1>22 DEF vars, CleanedAtEnd, Live
<1> QED BY <1>1, <1>2, <1>3, <1>4, <1>5, <1>6, <1>7, <1>8, <1>9, <1>10, <1>11, <1>12, <1>13,
       <1>14, <1>15, <1>16, <1>17, <1>18, <1>19, <1>20, <1>21, <1>22 DEF Next

\* With a patient control panel no start comes between a stop and its answer.
LEMMA StopsFindKept ==
  ASSUME StopsFindNoRun, Patient, SlotTypes, DirectHasAudio, [Next]_vars
  PROVE  StopsFindNoRun'
<1> USE BridgesAssumption DEF slot, starts, ends, stops, handlers, videoBridges, audioBridges,
       bridges, frames
<1>1. ASSUME NEW p \in Staged, PrepareBegins(p) PROVE StopsFindNoRun'
  BY <1>1 DEF PrepareBegins, TakeSlot, SlotFree, StepTo, MayStart, StopsFindNoRun, SlotTypes,
       DirectHasAudio, Answered
<1>2. ASSUME NEW p \in Staged, Commit(p) PROVE StopsFindNoRun'
  BY <1>2 DEF Commit, StopsFindNoRun, SlotTypes, DirectHasAudio, Answered
<1>3. ASSUME NEW p \in Staged, AbortEnds(p) PROVE StopsFindNoRun'
  BY <1>3 DEF AbortEnds, ReleaseSlot, StopsFindNoRun, SlotTypes, DirectHasAudio, Answered
<1>4. ASSUME NEW p \in Staged,
              StartVideo(p) \/ StartAudio(p) \/ SetCleanup(p) \/ PrepareStart(p) \/
              PrepareAnswers(p) \/ PrepareFinishes(p)
       PROVE  StopsFindNoRun'
  BY <1>4 DEF StartVideo, StartAudio, SetCleanup, PrepareStart, PrepareAnswers, PrepareFinishes,
       VideoFree, OpenVideo, StepTo, DetachOwnVideo, DetachVideo, CloseOwnAudio, StopsFindNoRun
<1>5. ASSUME NEW p \in Staged,
              PrepareFails(p) \/ AbortBegins(p) \/ AbortCleansUp(p) \/ AbortTimesOut(p) \/
              CleanupVideo(p) \/ CleanupAudio(p)
       PROVE  StopsFindNoRun'
  BY <1>5 DEF PrepareFails, AbortBegins, AbortCleansUp, AbortTimesOut, CleanupVideo, CleanupAudio,
       StepTo, MayAbort, ClaimAbort, PrepareDone, Cleaned, DetachOwnVideo, DetachVideo,
       CloseOwnAudio, StopsFindNoRun
<1>6. ASSUME NEW p \in Staged,
              CloseVideo(p) \/ Accepts(p) \/ PumpStops(p) \/ Finishes(p) \/ FrameRead(p) \/
              FrameSent(p)
       PROVE  StopsFindNoRun'
  BY <1>6 DEF CloseVideo, Accepts, PumpStops, Finishes, FrameRead, FrameSent, FinishForgets,
       Sends, StopsFindNoRun
<1>7. ASSUME NEW p \in Staged,
              FrameDropped(p) \/ FrameTaken(p)
       PROVE  StopsFindNoRun'
  BY <1>7 DEF FrameDropped, FrameTaken, StopsFindNoRun
<1>8. ASSUME NEW p \in Direct, DirectReserves(p) PROVE StopsFindNoRun'
  BY <1>8 DEF DirectReserves, TakeSlot, SlotFree, StepTo, StopsFindNoRun, SlotTypes,
       DirectHasAudio, Answered
<1>9. ASSUME NEW p \in Direct, DirectStarts(p) PROVE StopsFindNoRun'
  BY <1>9 DEF DirectStarts, StepTo, StopsFindNoRun, SlotTypes, DirectHasAudio, Answered
<1>10. ASSUME NEW p \in Direct,
              DirectAudio(p) \/ DirectFails(p) \/ HookClosesAudio(p) \/ HookClosesVideo(p)
       PROVE  StopsFindNoRun'
  BY <1>10 DEF DirectAudio, DirectFails, HookClosesAudio, HookClosesVideo, StepTo, MayStart,
       CloseAudioById, CloseVideoById, DetachVideo, StopsFindNoRun
<1>11. ASSUME NEW p \in Start, ChildExits(p) PROVE StopsFindNoRun'
  BY <1>11 DEF ChildExits, Cleaned, StopsFindNoRun, SlotTypes, DirectHasAudio, Answered
<1>12. ASSUME NEW p \in Start, PackagingEnds(p) PROVE StopsFindNoRun'
  BY <1>12 DEF PackagingEnds, StopsFindNoRun, SlotTypes, DirectHasAudio, Answered
<1>13. ASSUME NEW p \in Start, WaitEnds(p) PROVE StopsFindNoRun'
  BY <1>13 DEF WaitEnds, ReleaseSlot, PrepareDone, StopsFindNoRun
<1>14. ASSUME NEW h \in Stop, StopLooks(h) PROVE StopsFindNoRun'
  BY <1>14 DEF StopLooks, Goes, MayStop, StopsFindNoRun, SlotTypes, DirectHasAudio, Answered
<1>15. ASSUME NEW h \in Stop, StopCalls(h) PROVE StopsFindNoRun'
  BY <1>15 DEF StopCalls, Goes, StopsFindNoRun, SlotTypes, DirectHasAudio, Answered
<1>16. ASSUME NEW h \in Stop, StopWaits(h) PROVE StopsFindNoRun'
  BY <1>16 DEF StopWaits, Goes, StopsFindNoRun, SlotTypes, DirectHasAudio, Answered
<1>17. ASSUME NEW h \in Stop, StopClosesAudio(h) PROVE StopsFindNoRun'
  BY <1>17 DEF StopClosesAudio, Goes, CloseAudioById, StopsFindNoRun, SlotTypes, DirectHasAudio,
       Answered
<1>18. ASSUME NEW h \in Stop, StopClosesVideo(h) PROVE StopsFindNoRun'
  BY <1>18 DEF StopClosesVideo, Goes, CloseVideoById, DetachVideo, StopsFindNoRun, SlotTypes,
       DirectHasAudio, Answered
<1>19. CASE UNCHANGED vars
  BY <1>19 DEF vars, StopsFindNoRun
<1> QED BY <1>1, <1>2, <1>3, <1>4, <1>5, <1>6, <1>7, <1>8, <1>9, <1>10, <1>11, <1>12, <1>13,
       <1>14, <1>15, <1>16, <1>17, <1>18, <1>19 DEF Next

\* ... nor between another start and its answer.
LEMMA OneAtATimeKept ==
  ASSUME OneAtATime, Patient, SlotTypes, Places, [Next]_vars
  PROVE  OneAtATime'
<1> USE BridgesAssumption DEF slot, starts, ends, stops, handlers, videoBridges, audioBridges,
       bridges, frames
<1>1. ASSUME NEW p \in Staged, PrepareBegins(p) PROVE OneAtATime'
  BY <1>1 DEF PrepareBegins, TakeSlot, SlotFree, StepTo, MayStart, OneAtATime, SlotTypes, Places,
       InFlight, Start
<1>2. ASSUME NEW p \in Staged, StartVideo(p) PROVE OneAtATime'
  BY <1>2 DEF StartVideo, VideoFree, OpenVideo, StepTo, OneAtATime, SlotTypes, Places, InFlight,
       Start
<1>3. ASSUME NEW p \in Staged, StartAudio(p) PROVE OneAtATime'
  BY <1>3 DEF StartAudio, DetachOwnVideo, DetachVideo, StepTo, OneAtATime, SlotTypes, Places,
       InFlight, Start
<1>4. ASSUME NEW p \in Staged, SetCleanup(p) PROVE OneAtATime'
  BY <1>4 DEF SetCleanup, DetachOwnVideo, DetachVideo, CloseOwnAudio, StepTo, OneAtATime,
       SlotTypes, Places, InFlight, Start
<1>5. ASSUME NEW p \in Staged, PrepareStart(p) PROVE OneAtATime'
  BY <1>5 DEF PrepareStart, StepTo, OneAtATime, SlotTypes, Places, InFlight, Start
<1>6. ASSUME NEW p \in Staged, PrepareAnswers(p) PROVE OneAtATime'
  BY <1>6 DEF PrepareAnswers, StepTo, OneAtATime, SlotTypes, Places, InFlight, Start
<1>7. ASSUME NEW p \in Staged, PrepareFinishes(p) PROVE OneAtATime'
  BY <1>7 DEF PrepareFinishes, StepTo, OneAtATime, SlotTypes, Places, InFlight, Start
<1>8. ASSUME NEW p \in Staged, PrepareFails(p) PROVE OneAtATime'
  BY <1>8 DEF PrepareFails, StepTo, MayAbort, ClaimAbort, PrepareDone, OneAtATime, SlotTypes,
       Places, InFlight, Start
<1>9. ASSUME NEW p \in Staged,
              Commit(p) \/ AbortBegins(p) \/ AbortCleansUp(p) \/ AbortEnds(p) \/ AbortTimesOut(p)
              \/ CleanupVideo(p)
       PROVE  OneAtATime'
  BY <1>9 DEF Commit, AbortBegins, AbortCleansUp, AbortEnds, AbortTimesOut, CleanupVideo,
       MayAbort, ClaimAbort, PrepareDone, Cleaned, ReleaseSlot, DetachOwnVideo, DetachVideo,
       OneAtATime, InFlight
<1>10. ASSUME NEW p \in Staged,
              CleanupAudio(p) \/ CloseVideo(p) \/ Accepts(p) \/ PumpStops(p) \/ Finishes(p) \/
              FrameRead(p)
       PROVE  OneAtATime'
  BY <1>10 DEF CleanupAudio, CloseVideo, Accepts, PumpStops, Finishes, FrameRead, CloseOwnAudio,
       FinishForgets, OneAtATime, InFlight
<1>11. ASSUME NEW p \in Staged,
              FrameSent(p) \/ FrameDropped(p) \/ FrameTaken(p)
       PROVE  OneAtATime'
  BY <1>11 DEF FrameSent, FrameDropped, FrameTaken, Sends, OneAtATime, InFlight
<1>12. ASSUME NEW p \in Direct, DirectAudio(p) PROVE OneAtATime'
  BY <1>12 DEF DirectAudio, StepTo, MayStart, OneAtATime, SlotTypes, Places, InFlight, Start
<1>13. ASSUME NEW p \in Direct, DirectReserves(p) PROVE OneAtATime'
  BY <1>13 DEF DirectReserves, TakeSlot, SlotFree, StepTo, OneAtATime, SlotTypes, Places,
       InFlight, Start
<1>14. ASSUME NEW p \in Direct, DirectStarts(p) PROVE OneAtATime'
  BY <1>14 DEF DirectStarts, StepTo, OneAtATime, SlotTypes, Places, InFlight, Start
<1>15. ASSUME NEW p \in Direct, DirectFails(p) PROVE OneAtATime'
  BY <1>15 DEF DirectFails, StepTo, CloseAudioById, OneAtATime, SlotTypes, Places, InFlight, Start
<1>16. ASSUME NEW p \in Direct,
              HookClosesAudio(p) \/ HookClosesVideo(p)
       PROVE  OneAtATime'
  BY <1>16 DEF HookClosesAudio, HookClosesVideo, CloseAudioById, CloseVideoById, DetachVideo,
       OneAtATime, InFlight
<1>17. ASSUME NEW p \in Start,
              ChildExits(p) \/ WaitEnds(p) \/ PackagingEnds(p)
       PROVE  OneAtATime'
  BY <1>17 DEF ChildExits, WaitEnds, PackagingEnds, Cleaned, ReleaseSlot, PrepareDone, OneAtATime,
       InFlight
<1>18. ASSUME NEW h \in Stop,
              StopLooks(h) \/ StopCalls(h) \/ StopWaits(h) \/ StopClosesAudio(h) \/
              StopClosesVideo(h)
       PROVE  OneAtATime'
  BY <1>18 DEF StopLooks, StopCalls, StopWaits, StopClosesAudio, StopClosesVideo, Goes, MayStop,
       CloseAudioById, CloseVideoById, DetachVideo, OneAtATime, InFlight
<1>19. CASE UNCHANGED vars
  BY <1>19 DEF vars, OneAtATime, InFlight
<1> QED BY <1>1, <1>2, <1>3, <1>4, <1>5, <1>6, <1>7, <1>8, <1>9, <1>10, <1>11, <1>12, <1>13,
       <1>14, <1>15, <1>16, <1>17, <1>18, <1>19 DEF Next

\* ... and no stop between the bridge of a direct start and its slot.  Nor does the hook of an
\* earlier run, when it had come before.
LEMMA DirectHasAudioKept ==
  ASSUME DirectHasAudio, Patient, SlotTypes, BridgeTypes, Places, SlotKept, OneAtATime,
         [Next]_vars
  PROVE  DirectHasAudio'
<1> USE BridgesAssumption DEF slot, starts, ends, stops, handlers, videoBridges, audioBridges,
       bridges, frames
<1>1. ASSUME NEW p \in Staged, PrepareBegins(p) PROVE DirectHasAudio'
  BY <1>1 DEF PrepareBegins, TakeSlot, SlotFree, StepTo, MayStart, DirectHasAudio, SlotTypes,
       BridgeTypes, Places, SlotKept, OneAtATime, Answered, InFlight, HookToCome, AudioUp, Start
<1>2. ASSUME NEW p \in Staged, StartVideo(p) PROVE DirectHasAudio'
  BY <1>2 DEF StartVideo, VideoFree, OpenVideo, StepTo, DirectHasAudio, SlotTypes, BridgeTypes,
       Places, SlotKept, OneAtATime, Answered, InFlight, HookToCome, AudioUp, Start
<1>3. ASSUME NEW p \in Staged, StartAudio(p) PROVE DirectHasAudio'
  BY <1>3 DEF StartAudio, DetachOwnVideo, DetachVideo, StepTo, DirectHasAudio, SlotTypes,
       BridgeTypes, Places, SlotKept, OneAtATime, Answered, InFlight, HookToCome, AudioUp, Start
<1>4. ASSUME NEW p \in Staged, SetCleanup(p) PROVE DirectHasAudio'
  BY <1>4 DEF SetCleanup, DetachOwnVideo, DetachVideo, CloseOwnAudio, StepTo, DirectHasAudio,
       SlotTypes, BridgeTypes, Places, SlotKept, OneAtATime, Answered, InFlight, HookToCome,
       AudioUp, Start
<1>5. ASSUME NEW p \in Staged, PrepareStart(p) PROVE DirectHasAudio'
  BY <1>5 DEF PrepareStart, StepTo, DirectHasAudio, SlotTypes, BridgeTypes, Places, SlotKept,
       OneAtATime, Answered, InFlight, HookToCome, AudioUp, Start
<1>6. ASSUME NEW p \in Staged, PrepareAnswers(p) PROVE DirectHasAudio'
  BY <1>6 DEF PrepareAnswers, StepTo, DirectHasAudio, SlotTypes, BridgeTypes, Places, SlotKept,
       OneAtATime, Answered, InFlight, HookToCome, AudioUp, Start
<1>7. ASSUME NEW p \in Staged, PrepareFinishes(p) PROVE DirectHasAudio'
  BY <1>7 DEF PrepareFinishes, StepTo, DirectHasAudio, SlotTypes, BridgeTypes, Places, SlotKept,
       OneAtATime, Answered, InFlight, HookToCome, AudioUp, Start
<1>8. ASSUME NEW p \in Staged, PrepareFails(p) PROVE DirectHasAudio'
  BY <1>8 DEF PrepareFails, StepTo, MayAbort, ClaimAbort, PrepareDone, DirectHasAudio, SlotTypes,
       BridgeTypes, Places, SlotKept, OneAtATime, Answered, InFlight, HookToCome, AudioUp, Start
<1>9. ASSUME NEW p \in Staged, CleanupAudio(p) PROVE DirectHasAudio'
  BY <1>9 DEF CleanupAudio, CloseOwnAudio, DirectHasAudio, SlotTypes, BridgeTypes, Places,
       SlotKept, OneAtATime, Answered, InFlight, HookToCome, AudioUp, Start
<1>10. ASSUME NEW p \in Staged,
              Commit(p) \/ AbortBegins(p) \/ AbortCleansUp(p) \/ AbortEnds(p) \/ AbortTimesOut(p)
              \/ CleanupVideo(p)
       PROVE  DirectHasAudio'
  BY <1>10 DEF Commit, AbortBegins, AbortCleansUp, AbortEnds, AbortTimesOut, CleanupVideo,
       MayAbort, ClaimAbort, PrepareDone, Cleaned, ReleaseSlot, DetachOwnVideo, DetachVideo,
       DirectHasAudio, Answered, HookToCome, AudioUp
<1>11. ASSUME NEW p \in Staged,
              CloseVideo(p) \/ Accepts(p) \/ PumpStops(p) \/ Finishes(p) \/ FrameRead(p) \/
              FrameSent(p)
       PROVE  DirectHasAudio'
  BY <1>11 DEF CloseVideo, Accepts, PumpStops, Finishes, FrameRead, FrameSent, FinishForgets,
       Sends, DirectHasAudio, Answered, HookToCome, AudioUp
<1>12. ASSUME NEW p \in Staged,
              FrameDropped(p) \/ FrameTaken(p)
       PROVE  DirectHasAudio'
  BY <1>12 DEF FrameDropped, FrameTaken, DirectHasAudio, Answered, HookToCome, AudioUp
<1>13. ASSUME NEW p \in Direct, DirectAudio(p) PROVE DirectHasAudio'
  BY <1>13 DEF DirectAudio, StepTo, MayStart, DirectHasAudio, SlotTypes, BridgeTypes, Places,
       SlotKept, OneAtATime, Answered, InFlight, HookToCome, AudioUp, Start
<1>14. ASSUME NEW p \in Direct, DirectReserves(p) PROVE DirectHasAudio'
  BY <1>14 DEF DirectReserves, TakeSlot, SlotFree, StepTo, DirectHasAudio, SlotTypes, BridgeTypes,
       Places, SlotKept, OneAtATime, Answered, InFlight, HookToCome, AudioUp, Start
<1>15. ASSUME NEW p \in Direct, DirectStarts(p) PROVE DirectHasAudio'
  BY <1>15 DEF DirectStarts, StepTo, DirectHasAudio, SlotTypes, BridgeTypes, Places, SlotKept,
       OneAtATime, Answered, InFlight, HookToCome, AudioUp, Start
<1>16. ASSUME NEW p \in Direct, DirectFails(p) PROVE DirectHasAudio'
  BY <1>16 DEF DirectFails, StepTo, CloseAudioById, DirectHasAudio, SlotTypes, BridgeTypes,
       Places, SlotKept, OneAtATime, Answered, InFlight, HookToCome, AudioUp, Start
<1>17. ASSUME NEW p \in Direct, HookClosesAudio(p) PROVE DirectHasAudio'
  BY <1>17 DEF HookClosesAudio, CloseAudioById, DirectHasAudio, SlotTypes, BridgeTypes, Places,
       SlotKept, OneAtATime, Answered, InFlight, HookToCome, AudioUp, Start
<1>18. ASSUME NEW p \in Direct, HookClosesVideo(p) PROVE DirectHasAudio'
  BY <1>18 DEF HookClosesVideo, CloseVideoById, DetachVideo, DirectHasAudio, SlotTypes,
       BridgeTypes, Places, SlotKept, OneAtATime, Answered, InFlight, HookToCome, AudioUp, Start
<1>19. ASSUME NEW p \in Start, ChildExits(p) PROVE DirectHasAudio'
  BY <1>19 DEF ChildExits, Cleaned, DirectHasAudio, SlotTypes, BridgeTypes, Places, SlotKept,
       OneAtATime, Answered, InFlight, HookToCome, AudioUp, Start
<1>20. ASSUME NEW p \in Start, WaitEnds(p) PROVE DirectHasAudio'
  BY <1>20 DEF WaitEnds, ReleaseSlot, PrepareDone, DirectHasAudio, SlotTypes, BridgeTypes, Places,
       SlotKept, OneAtATime, Answered, InFlight, HookToCome, AudioUp, Start
<1>21. ASSUME NEW p \in Start, PackagingEnds(p) PROVE DirectHasAudio'
  BY <1>21 DEF PackagingEnds, DirectHasAudio, Answered, HookToCome, AudioUp
<1>22. ASSUME NEW h \in Stop, StopLooks(h) PROVE DirectHasAudio'
  BY <1>22 DEF StopLooks, Goes, MayStop, DirectHasAudio, SlotTypes, BridgeTypes, Places, SlotKept,
       OneAtATime, Answered, InFlight, HookToCome, AudioUp, Start
<1>23. ASSUME NEW h \in Stop, StopCalls(h) PROVE DirectHasAudio'
  BY <1>23 DEF StopCalls, Goes, DirectHasAudio, SlotTypes, BridgeTypes, Places, SlotKept,
       OneAtATime, Answered, InFlight, HookToCome, AudioUp, Start
<1>24. ASSUME NEW h \in Stop, StopWaits(h) PROVE DirectHasAudio'
  BY <1>24 DEF StopWaits, Goes, DirectHasAudio, SlotTypes, BridgeTypes, Places, SlotKept,
       OneAtATime, Answered, InFlight, HookToCome, AudioUp, Start
<1>25. ASSUME NEW h \in Stop, StopClosesAudio(h) PROVE DirectHasAudio'
  BY <1>25 DEF StopClosesAudio, Goes, CloseAudioById, DirectHasAudio, SlotTypes, BridgeTypes,
       Places, SlotKept, OneAtATime, Answered, InFlight, HookToCome, AudioUp, Start
<1>26. ASSUME NEW h \in Stop, StopClosesVideo(h) PROVE DirectHasAudio'
  BY <1>26 DEF StopClosesVideo, Goes, CloseVideoById, DetachVideo, DirectHasAudio, SlotTypes,
       BridgeTypes, Places, SlotKept, OneAtATime, Answered, InFlight, HookToCome, AudioUp, Start
<1>27. CASE UNCHANGED vars
  BY <1>27 DEF vars, DirectHasAudio, Answered, HookToCome, AudioUp
<1> QED BY <1>1, <1>2, <1>3, <1>4, <1>5, <1>6, <1>7, <1>8, <1>9, <1>10, <1>11, <1>12, <1>13,
       <1>14, <1>15, <1>16, <1>17, <1>18, <1>19, <1>20, <1>21, <1>22, <1>23, <1>24, <1>25, <1>26,
       <1>27 DEF Next

\* Who closes bridges closes its own (StopOwnedBridge), those of a start that was aborted or has
\* ended, or those of a stream that was stopped.
LEMMA LiveKept ==
  ASSUME LiveHasBridges, Patient, SlotTypes, BridgeTypes, OpenedOnce, Places, SlotKept, SlotTaken,
         CleanedAtEnd, StopsFindNoRun, DirectHasAudio, [Next]_vars
  PROVE  LiveHasBridges'
<1> USE BridgesAssumption DEF slot, starts, ends, stops, handlers, videoBridges, audioBridges,
       bridges, frames
<1>1. ASSUME NEW p \in Staged, PrepareBegins(p) PROVE LiveHasBridges'
  BY <1>1 DEF PrepareBegins, TakeSlot, SlotFree, StepTo, MayStart, LiveHasBridges, SlotTypes,
       BridgeTypes, OpenedOnce, Places, SlotKept, SlotTaken, CleanedAtEnd, StopsFindNoRun,
       DirectHasAudio, Live, VideoUp, AudioUp, PastAudio, Start
<1>2. ASSUME NEW p \in Staged, StartVideo(p) PROVE LiveHasBridges'
  BY <1>2 DEF StartVideo, VideoFree, OpenVideo, StepTo, LiveHasBridges, SlotTypes, BridgeTypes,
       OpenedOnce, Places, SlotKept, SlotTaken, CleanedAtEnd, StopsFindNoRun, DirectHasAudio,
       Live, VideoUp, AudioUp, PastAudio, Start
<1>3. ASSUME NEW p \in Staged, StartAudio(p) PROVE LiveHasBridges'
  BY <1>3 DEF StartAudio, DetachOwnVideo, DetachVideo, StepTo, LiveHasBridges, SlotTypes,
       BridgeTypes, OpenedOnce, Places, SlotKept, SlotTaken, CleanedAtEnd, StopsFindNoRun,
       DirectHasAudio, Live, VideoUp, AudioUp, PastAudio, Start
<1>4. ASSUME NEW p \in Staged, SetCleanup(p) PROVE LiveHasBridges'
  BY <1>4 DEF SetCleanup, DetachOwnVideo, DetachVideo, CloseOwnAudio, StepTo, LiveHasBridges,
       SlotTypes, BridgeTypes, OpenedOnce, Places, SlotKept, SlotTaken, CleanedAtEnd,
       StopsFindNoRun, DirectHasAudio, Live, VideoUp, AudioUp, PastAudio, Start
<1>5. ASSUME NEW p \in Staged, PrepareStart(p) PROVE LiveHasBridges'
  BY <1>5 DEF PrepareStart, StepTo, LiveHasBridges, SlotTypes, BridgeTypes, OpenedOnce, Places,
       SlotKept, SlotTaken, CleanedAtEnd, StopsFindNoRun, DirectHasAudio, Live, VideoUp, AudioUp,
       PastAudio, Start
<1>6. ASSUME NEW p \in Staged, PrepareAnswers(p) PROVE LiveHasBridges'
  BY <1>6 DEF PrepareAnswers, StepTo, LiveHasBridges, SlotTypes, BridgeTypes, OpenedOnce, Places,
       SlotKept, SlotTaken, CleanedAtEnd, StopsFindNoRun, DirectHasAudio, Live, VideoUp, AudioUp,
       PastAudio, Start
<1>7. ASSUME NEW p \in Staged, PrepareFinishes(p) PROVE LiveHasBridges'
  BY <1>7 DEF PrepareFinishes, StepTo, LiveHasBridges, SlotTypes, BridgeTypes, OpenedOnce, Places,
       SlotKept, SlotTaken, CleanedAtEnd, StopsFindNoRun, DirectHasAudio, Live, VideoUp, AudioUp,
       PastAudio, Start
<1>8. ASSUME NEW p \in Staged, PrepareFails(p) PROVE LiveHasBridges'
  BY <1>8 DEF PrepareFails, StepTo, MayAbort, ClaimAbort, PrepareDone, LiveHasBridges, SlotTypes,
       BridgeTypes, OpenedOnce, Places, SlotKept, SlotTaken, CleanedAtEnd, StopsFindNoRun,
       DirectHasAudio, Live, VideoUp, AudioUp, PastAudio, Start
<1>9. ASSUME NEW p \in Staged, Commit(p) PROVE LiveHasBridges'
  BY <1>9 DEF Commit, LiveHasBridges, SlotTypes, BridgeTypes, OpenedOnce, Places, SlotKept,
       SlotTaken, CleanedAtEnd, StopsFindNoRun, DirectHasAudio, Live, VideoUp, AudioUp, PastAudio,
       Start
<1>10. ASSUME NEW p \in Staged, AbortBegins(p) PROVE LiveHasBridges'
  BY <1>10 DEF AbortBegins, MayAbort, ClaimAbort, PrepareDone, LiveHasBridges, SlotTypes,
       BridgeTypes, OpenedOnce, Places, SlotKept, SlotTaken, CleanedAtEnd, StopsFindNoRun,
       DirectHasAudio, Live, VideoUp, AudioUp, PastAudio, Start
<1>11. ASSUME NEW p \in Staged, AbortCleansUp(p) PROVE LiveHasBridges'
  BY <1>11 DEF AbortCleansUp, Cleaned, PrepareDone, LiveHasBridges, SlotTypes, BridgeTypes,
       OpenedOnce, Places, SlotKept, SlotTaken, CleanedAtEnd, StopsFindNoRun, DirectHasAudio,
       Live, VideoUp, AudioUp, PastAudio, Start
<1>12. ASSUME NEW p \in Staged, AbortEnds(p) PROVE LiveHasBridges'
  BY <1>12 DEF AbortEnds, ReleaseSlot, LiveHasBridges, SlotTypes, BridgeTypes, OpenedOnce, Places,
       SlotKept, SlotTaken, CleanedAtEnd, StopsFindNoRun, DirectHasAudio, Live, VideoUp, AudioUp,
       PastAudio, Start
<1>13. ASSUME NEW p \in Staged, AbortTimesOut(p) PROVE LiveHasBridges'
  BY <1>13 DEF AbortTimesOut, LiveHasBridges, SlotTypes, BridgeTypes, OpenedOnce, Places,
       SlotKept, SlotTaken, CleanedAtEnd, StopsFindNoRun, DirectHasAudio, Live, VideoUp, AudioUp,
       PastAudio, Start
<1>14. ASSUME NEW p \in Staged, CleanupVideo(p) PROVE LiveHasBridges'
  BY <1>14 DEF CleanupVideo, DetachOwnVideo, DetachVideo, LiveHasBridges, SlotTypes, BridgeTypes,
       OpenedOnce, Places, SlotKept, SlotTaken, CleanedAtEnd, StopsFindNoRun, DirectHasAudio,
       Live, VideoUp, AudioUp, PastAudio, Start
<1>15. ASSUME NEW p \in Staged, CleanupAudio(p) PROVE LiveHasBridges'
  BY <1>15 DEF CleanupAudio, CloseOwnAudio, LiveHasBridges, SlotTypes, BridgeTypes, OpenedOnce,
       Places, SlotKept, SlotTaken, CleanedAtEnd, StopsFindNoRun, DirectHasAudio, Live, VideoUp,
       AudioUp, PastAudio, Start
<1>16. ASSUME NEW p \in Staged, CloseVideo(p) PROVE LiveHasBridges'
  BY <1>16 DEF CloseVideo, LiveHasBridges, SlotTypes, BridgeTypes, OpenedOnce, Places, SlotKept,
       SlotTaken, CleanedAtEnd, StopsFindNoRun, DirectHasAudio, Live, VideoUp, AudioUp, PastAudio,
       Start
<1>17. ASSUME NEW p \in Staged, Accepts(p) PROVE LiveHasBridges'
  BY <1>17 DEF Accepts, LiveHasBridges, SlotTypes, BridgeTypes, OpenedOnce, Places, SlotKept,
       SlotTaken, CleanedAtEnd, StopsFindNoRun, DirectHasAudio, Live, VideoUp, AudioUp, PastAudio,
       Start
<1>18. ASSUME NEW p \in Staged, PumpStops(p) PROVE LiveHasBridges'
  BY <1>18 DEF PumpStops, LiveHasBridges, SlotTypes, BridgeTypes, OpenedOnce, Places, SlotKept,
       SlotTaken, CleanedAtEnd, StopsFindNoRun, DirectHasAudio, Live, VideoUp, AudioUp, PastAudio,
       Start
<1>19. ASSUME NEW p \in Staged, Finishes(p) PROVE LiveHasBridges'
  BY <1>19 DEF Finishes, FinishForgets, LiveHasBridges, SlotTypes, BridgeTypes, OpenedOnce,
       Places, SlotKept, SlotTaken, CleanedAtEnd, StopsFindNoRun, DirectHasAudio, Live, VideoUp,
       AudioUp, PastAudio, Start
<1>20. ASSUME NEW p \in Staged,
              FrameRead(p) \/ FrameSent(p) \/ FrameDropped(p) \/ FrameTaken(p)
       PROVE  LiveHasBridges'
  BY <1>20 DEF FrameRead, FrameSent, FrameDropped, FrameTaken, Sends, LiveHasBridges, Live,
       VideoUp, AudioUp, PastAudio
<1>21. ASSUME NEW p \in Direct, DirectAudio(p) PROVE LiveHasBridges'
  BY <1>21 DEF DirectAudio, StepTo, MayStart, LiveHasBridges, SlotTypes, BridgeTypes, OpenedOnce,
       Places, SlotKept, SlotTaken, CleanedAtEnd, StopsFindNoRun, DirectHasAudio, Live, VideoUp,
       AudioUp, PastAudio, Start
<1>22. ASSUME NEW p \in Direct, DirectReserves(p) PROVE LiveHasBridges'
  BY <1>22 DEF DirectReserves, TakeSlot, SlotFree, StepTo, LiveHasBridges, SlotTypes, BridgeTypes,
       OpenedOnce, Places, SlotKept, SlotTaken, CleanedAtEnd, StopsFindNoRun, DirectHasAudio,
       Live, VideoUp, AudioUp, PastAudio, Start
<1>23. ASSUME NEW p \in Direct, DirectStarts(p) PROVE LiveHasBridges'
  BY <1>23 DEF DirectStarts, StepTo, LiveHasBridges, SlotTypes, BridgeTypes, OpenedOnce, Places,
       SlotKept, SlotTaken, CleanedAtEnd, StopsFindNoRun, DirectHasAudio, Live, VideoUp, AudioUp,
       PastAudio, Start
<1>24. ASSUME NEW p \in Direct, DirectFails(p) PROVE LiveHasBridges'
  BY <1>24 DEF DirectFails, StepTo, CloseAudioById, LiveHasBridges, SlotTypes, BridgeTypes,
       OpenedOnce, Places, SlotKept, SlotTaken, CleanedAtEnd, StopsFindNoRun, DirectHasAudio,
       Live, VideoUp, AudioUp, PastAudio, Start
<1>25. ASSUME NEW p \in Direct, HookClosesAudio(p) PROVE LiveHasBridges'
  BY <1>25 DEF HookClosesAudio, CloseAudioById, LiveHasBridges, SlotTypes, BridgeTypes,
       OpenedOnce, Places, SlotKept, SlotTaken, CleanedAtEnd, StopsFindNoRun, DirectHasAudio,
       Live, VideoUp, AudioUp, PastAudio, Start
<1>26. ASSUME NEW p \in Direct, HookClosesVideo(p) PROVE LiveHasBridges'
  BY <1>26 DEF HookClosesVideo, CloseVideoById, DetachVideo, LiveHasBridges, SlotTypes,
       BridgeTypes, OpenedOnce, Places, SlotKept, SlotTaken, CleanedAtEnd, StopsFindNoRun,
       DirectHasAudio, Live, VideoUp, AudioUp, PastAudio, Start
<1>27. ASSUME NEW p \in Start, ChildExits(p) PROVE LiveHasBridges'
  BY <1>27 DEF ChildExits, Cleaned, LiveHasBridges, SlotTypes, BridgeTypes, OpenedOnce, Places,
       SlotKept, SlotTaken, CleanedAtEnd, StopsFindNoRun, DirectHasAudio, Live, VideoUp, AudioUp,
       PastAudio, Start
<1>28. ASSUME NEW p \in Start, WaitEnds(p) PROVE LiveHasBridges'
  BY <1>28 DEF WaitEnds, ReleaseSlot, PrepareDone, LiveHasBridges, SlotTypes, BridgeTypes,
       OpenedOnce, Places, SlotKept, SlotTaken, CleanedAtEnd, StopsFindNoRun, DirectHasAudio,
       Live, VideoUp, AudioUp, PastAudio, Start
<1>29. ASSUME NEW p \in Start, PackagingEnds(p) PROVE LiveHasBridges'
  BY <1>29 DEF PackagingEnds, LiveHasBridges, SlotTypes, BridgeTypes, OpenedOnce, Places,
       SlotKept, SlotTaken, CleanedAtEnd, StopsFindNoRun, DirectHasAudio, Live, VideoUp, AudioUp,
       PastAudio, Start
<1>30. ASSUME NEW h \in Stop, StopCalls(h) PROVE LiveHasBridges'
  BY <1>30 DEF StopCalls, Goes, LiveHasBridges, SlotTypes, BridgeTypes, OpenedOnce, Places,
       SlotKept, SlotTaken, CleanedAtEnd, StopsFindNoRun, DirectHasAudio, Live, VideoUp, AudioUp,
       PastAudio, Start
<1>31. ASSUME NEW h \in Stop, StopClosesAudio(h) PROVE LiveHasBridges'
  BY <1>31 DEF StopClosesAudio, Goes, CloseAudioById, LiveHasBridges, SlotTypes, BridgeTypes,
       OpenedOnce, Places, SlotKept, SlotTaken, CleanedAtEnd, StopsFindNoRun, DirectHasAudio,
       Live, VideoUp, AudioUp, PastAudio, Start
<1>32. ASSUME NEW h \in Stop, StopClosesVideo(h) PROVE LiveHasBridges'
  BY <1>32 DEF StopClosesVideo, Goes, CloseVideoById, DetachVideo, LiveHasBridges, SlotTypes,
       BridgeTypes, OpenedOnce, Places, SlotKept, SlotTaken, CleanedAtEnd, StopsFindNoRun,
       DirectHasAudio, Live, VideoUp, AudioUp, PastAudio, Start
<1>33. ASSUME NEW h \in Stop,
              StopLooks(h) \/ StopWaits(h)
       PROVE  LiveHasBridges'
  BY <1>33 DEF StopLooks, StopWaits, Goes, MayStop, LiveHasBridges, Live, VideoUp, AudioUp,
       PastAudio
<1>34. CASE UNCHANGED vars
  BY <1>34 DEF vars, LiveHasBridges, Live, VideoUp, AudioUp, PastAudio
<1> QED BY <1>1, <1>2, <1>3, <1>4, <1>5, <1>6, <1>7, <1>8, <1>9, <1>10, <1>11, <1>12, <1>13,
       <1>14, <1>15, <1>16, <1>17, <1>18, <1>19, <1>20, <1>21, <1>22, <1>23, <1>24, <1>25, <1>26,
       <1>27, <1>28, <1>29, <1>30, <1>31, <1>32, <1>33, <1>34 DEF Next

\* No handler and no goroutine of either manager breaks the invariant, one part after the other.
LEMMA BridgesStep == BridgesInv /\ [Next]_vars => BridgesInv'
<1> SUFFICES ASSUME BridgesInv, [Next]_vars PROVE BridgesInv'
  OBVIOUS
<1> USE DEF BridgesInv
<1>1. SlotTypes' /\ BridgeTypes' /\ FrameTypes'
  BY SlotTypesKept, BridgeTypesKept, FrameTypesKept
<1>2. NoOrphanBridge' /\ OpenedOnce'
  BY NoOrphanKept, OpenedOnceKept
<1>3. NewestFrameKept' /\ ChannelHasNewest'
  BY NewestKept, ChannelKept
<1>4. Places' /\ SlotKept' /\ SlotTaken' /\ CleanedAtEnd'
  BY PlacesKept, SlotKeptKept, SlotTakenKept, CleanedKept
<1>5. ASSUME Patient PROVE PatientInv'
  BY <1>5, StopsFindKept, OneAtATimeKept, DirectHasAudioKept, LiveKept DEF PatientInv
<1> QED BY <1>1, <1>2, <1>3, <1>4, <1>5

\* Every step of the handlers, of the bridge managers and of the pumps keeps the parts above
\* (start_preparation_routes.go, stream_routes.go, videoingest and audioingest).
THEOREM BridgesInvariant == Spec => []BridgesInv
<1>1. Init => BridgesInv
  BY BridgesInit
<1>2. BridgesInv /\ [Next]_vars => BridgesInv'
  BY BridgesStep
<1> QED BY <1>1, <1>2, PTL DEF Spec

\* Whatever the control panel sends and in whatever order, an open bridge is in the map of its
\* manager or is about to be closed by the one who took it out (stopBridge, finish).
THEOREM NoBridgeLost == Spec => []NoOrphanBridge
<1>1. BridgesInv => NoOrphanBridge
  BY DEF BridgesInv
<1> QED BY <1>1, BridgesInvariant, PTL

\* Dropping the oldest frame never loses the newest, however reader and pump take turns
\* (readSceneFrames).
THEOREM NewestNotDropped == Spec => []NewestFrameKept
<1>1. BridgesInv => NewestFrameKept
  BY DEF BridgesInv
<1> QED BY <1>1, BridgesInvariant, PTL

\* A control panel that waits for its answers finds every start that is prepared or runs with
\* the bridges it has opened, no handler, cleanup or hook closes those of another
\* (StopOwnedBridge, stopStream, ProcessExitHook): except a direct start that was sent before the
\* hook of an earlier direct run had closed what it finds.
THEOREM RunsKeepBridges == Spec => [](Patient => RunHasItsBridges)
<1>1. BridgesInv => (Patient => RunHasItsBridges)
  <2> SUFFICES ASSUME BridgesInv, Patient, NEW p \in Start \ hasty,
                      owner = p, p \in Staged => abort[p] = "no",
                      status = "running"
                        \/ (wait[p] = "child" /\ at[p] = "done" /\ status = "starting")
               PROVE  AudioUp(p) /\ VideoUp(p)
    BY DEF RunHasItsBridges, AudioUp, VideoUp
  <2>1. Live(p)
    BY DEF Live
  <2>2. wait[p] = "child"
    BY DEF BridgesInv, SlotTaken
  <2> QED BY <2>1, <2>2 DEF BridgesInv, PatientInv, LiveHasBridges, PastAudio
<1> QED BY <1>1, BridgesInvariant, PTL

-----------------------------------------------------------------------------
(* The audio bridge that an audio manager's entry stands for: AudioIngest, of which the handlers  *)
(* above only open and close the bridge.                                                         *)

CONSTANTS Packet, Modulus, Window, QueueSize, SpeakerQueueSize, MaxSpeakers, MaxSeen, MaxAdds,
          MaxErrors

VARIABLES seen, made, mixing, newest, adds, errors

Audio == INSTANCE AudioIngest

\* A gap is only concealed, and a packet only decoded, for a speaker with less than a frame left.
Backlog == Frame + MaxConceal * Frame + PacketSamples

SpeakerState == [queue : Seq(Nat \ {0}), pcm : {n \in Int : n < Backlog},
                 expected : Int, hasSequence : BOOLEAN, last : Nat]

SpeakerTypes ==
  /\ DOMAIN speakers = Bridge
  /\ \A b \in Bridge : DOMAIN speakers[b] \subseteq Audio!Speaker
  /\ \A b \in Bridge : \A s \in DOMAIN speakers[b] : speakers[b][s] \in SpeakerState

HandOverTypes ==
  /\ intake \in [Bridge -> Seq(Packet)]
  /\ add \in [step : {"idle", "try", "drop", "again"}, todo : Seq(Packet)]
  /\ add.step = "idle" <=> add.todo = <<>>
  /\ newest \in [Audio!Speaker -> Nat]

\* The packets of a speaker that Add has still to hand over.
Handing(s) == {p[2] : p \in {q \in Audio!ToSet(add.todo) : q[1] = s}}

\* All that the bridge has, or is about to get, of a speaker lies within a window.
Near ==
  \A s \in Audio!Speaker, b \in Bridge :
    \A m, n \in Audio!Held(b, s) \cup Handing(s) : m <= newest[s] /\ m - n <= Window

\* What the decoder expects is what follows the packet it has decoded last.
Follows(x) == IF x.hasSequence THEN x.last > 0 /\ x.expected = (x.last + 1) % Modulus
                               ELSE x.last = 0

Sequenced == \A b \in Bridge : \A s \in DOMAIN speakers[b] : Follows(speakers[b][s])

\* Where a bridge is between its start and the folding of its counters.
BridgeStages ==
  /\ made \in Nat /\ live \in Nat /\ live <= made
  /\ stage \in [Bridge -> {"none", "select", "drain", "mix", "done", "folded"}]
  /\ live # 0 => live \in Bridge \ closed
  /\ add.step # "idle" => live # 0
  /\ closed \subseteq Bridge /\ \A b \in closed : b <= made
  /\ \A b \in Bridge :
       /\ b <= made => b = live \/ b \in closed
       /\ stage[b] = "none" <=> b > made
       /\ stage[b] \in {"done", "folded"} => b \in closed
       /\ stage[b] \in {"none", "done", "folded"} => intake[b] = <<>> /\ speakers[b] = <<>>

\* As many pairs as the values of f add up to.
Cells(f) == UNION {{x} \X (1..f[x]) : x \in DOMAIN f}

\* The places taken in the queues of the speakers f.
Columns(f) == UNION {{s} \X DOMAIN f[s].queue : s \in DOMAIN f}

\* What a bridge with the intake q and the speakers f has to decode or to count.
Waits(q, f) == Len(q) + Cardinality(Columns(f))

\* What a bridge owes the books: its own counters until they are folded, and what waits.
Owed(where, count, q, f) == IF where = "folded" THEN 0 ELSE count + Waits(q, f)

Owing == Cells([b \in Bridge |-> Owed(stage[b], drops[b], intake[b], speakers[b])])

CounterTypes ==
  /\ drops \in [Bridge -> Nat]
  /\ stats \in Nat /\ offered \in Nat /\ decoded \in Nat /\ discarded \in Nat /\ extra \in Nat
  /\ \A b \in Bridge : stage[b] = "none" => drops[b] = 0
  /\ \A b \in Bridge : IsFiniteSet(Columns(speakers[b]))
  /\ IsFiniteSet(Owing)

Balanced == offered + extra = decoded + discarded + stats + Len(add.todo) + Cardinality(Owing)

(* The inductive invariant of the audio intake.  Near is why a packet that is not late comes after
   the one that was heard last: all that a bridge holds of a speaker lies within less than half
   the range of the sequence numbers, so their distances modulo 2^16 order them.  Balanced holds
   at every moment, Accounted when the counters of every closed bridge have been folded. *)
AudioInv ==
  SpeakerTypes /\ HandOverTypes /\ Near /\ Sequenced /\ BridgeStages /\ CounterTypes /\ Balanced

-----------------------------------------------------------------------------
(* Operators of the audio intake.                                                                *)

\* AudioIngest counts as this module does.
LEMMA SameCardinality == \A S : Audio!Cardinality(S) = Cardinality(S)
  BY Zenon DEF Audio!Cardinality, Cardinality

\* What waits in a bridge is counted in the same way on both sides of the instance (enqueue).
LEMMA WaitingIs ==
  \A b : Waiting(b) = Waits(intake[b], speakers[b]) /\ Audio!Waiting(b) = Waiting(b)
  BY SameCardinality DEF Audio!Waiting, Waiting, Audio!Queued, Queued, Waits, Columns

\* The numbers of two packets less than half the range apart compare as their sequence numbers do
\* (popNextSpeakerPacket).
LEMMA DistanceAhead ==
  ASSUME Audio!AudioAssumption, NEW last \in Int, NEW n \in Int,
         n - last <= Window, last - n <= Window,
         Audio!Distance(n, (last + 1) % Modulus) < Audio!Half
  PROVE  n > last
<1> DEFINE M == Modulus
           a == IF n > last THEN n - last - 1 ELSE n - last - 1 + M
           x == n - ((last + 1) % M)
           q == x \div M
           r == x % M
           c == (last + 1) \div M
<1>1. M \in Nat \ {0} /\ Window \in Nat /\ Audio!Half \in Int
      /\ Window < Audio!Half /\ 2 * Audio!Half <= M
  BY DEF Audio!AudioAssumption, Audio!Half
<1>2. a \in 0..(M - 1)
  BY <1>1
<1>3. last + 1 = M * c + ((last + 1) % M) /\ c \in Int /\ (last + 1) % M \in Int
  BY <1>1
<1>4. x = M * q + r /\ r \in 0..(M - 1) /\ q \in Int
  BY <1>1, <1>3
<1> DEFINE k == IF n > last THEN q - c ELSE q - c + 1
<1>5. k \in Int /\ a - r = M * k
  BY <1>1, <1>3, <1>4
<1>6. a = r
  <2> HIDE DEF a, r, k, M
  <2>1. CASE k >= 1
    BY <1>1, <1>2, <1>4, <1>5, <2>1 DEF M
  <2>2. CASE k <= -1
    BY <1>1, <1>2, <1>4, <1>5, <2>2 DEF M
  <2>3. CASE k = 0
    BY <1>1, <1>2, <1>4, <1>5, <2>3 DEF M
  <2> QED BY <1>5, <2>1, <2>2, <2>3
<1>7. r < Audio!Half
  BY DEF Audio!Distance
<1> HIDE DEF r, M
<1> QED BY <1>1, <1>6, <1>7 DEF M

\* Filtering a queue leaves as many packets as places, all of them from the queue.
LEMMA LeftIsPart ==
  ASSUME NEW S, NEW q \in Seq(S), NEW P \in SUBSET DOMAIN q, NEW r \in Audio!Left(q, P)
  PROVE  /\ r \in Seq(S) /\ Len(r) = Cardinality(P) /\ Cardinality(P) \in Nat
         /\ Audio!ToSet(r) \subseteq {q[i] : i \in P}
<1>1. IsFiniteSet(DOMAIN q)
  BY FS_Interval
<1>2. Cardinality(P) \in Nat
  BY <1>1, FS_Subset, FS_CardinalityType
<1>3. PICK f \in [1..Cardinality(P) -> P] : r = [k \in DOMAIN f |-> q[f[k]]]
  BY SameCardinality DEF Audio!Left
<1>4. DOMAIN f = 1..Cardinality(P) /\ \A k \in 1..Cardinality(P) : f[k] \in P /\ r[k] = q[f[k]]
  BY <1>3
<1>5. \A i \in P : q[i] \in S
  OBVIOUS
<1>6. r \in [1..Cardinality(P) -> S]
  BY <1>3, <1>4, <1>5
<1>7. r \in Seq(S) /\ Len(r) = Cardinality(P)
  BY <1>2, <1>6
<1> QED BY <1>2, <1>4, <1>6, <1>7 DEF Audio!ToSet

\* A set of pairs with a column of k pairs for x.
Grown(R, x, k) == R \cup ({x} \X (1..k))

\* One column of a set of pairs grows or shrinks.
LEMMA ColumnChange ==
  ASSUME NEW R, NEW x, NEW m \in Nat, NEW n \in Nat,
         \A c \in R : c[1] # x, IsFiniteSet(Grown(R, x, m))
  PROVE  /\ IsFiniteSet(Grown(R, x, n))
         /\ Cardinality(Grown(R, x, n)) = Cardinality(Grown(R, x, m)) - m + n
         /\ Cardinality(Grown(R, x, m)) >= m
<1>1. IsFiniteSet(R)
  BY FS_Subset DEF Grown
<1>2. ASSUME NEW k \in Nat
      PROVE  /\ IsFiniteSet(Grown(R, x, k))
             /\ Cardinality(Grown(R, x, k)) = Cardinality(R) + k
  <2>1. IsFiniteSet(1..k) /\ Cardinality(1..k) = k
    BY FS_Interval
  <2>2. IsFiniteSet({x}) /\ Cardinality({x}) = 1
    BY FS_Singleton
  <2>3. IsFiniteSet({x} \X (1..k)) /\ Cardinality({x} \X (1..k)) = k
    <3>1. /\ IsFiniteSet({x} \X (1..k))
          /\ Cardinality({x} \X (1..k)) = Cardinality({x}) * Cardinality(1..k)
      BY <2>1, <2>2, FS_Product, Zenon
    <3> QED BY <2>1, <2>2, <3>1
  <2>4. R \cap ({x} \X (1..k)) = {}
    OBVIOUS
  <2>5. Cardinality(R) \in Nat
    BY <1>1, FS_CardinalityType
  <2>6. Cardinality(R \cap ({x} \X (1..k))) = 0
    BY <2>4, FS_EmptySet
  <2>7. /\ IsFiniteSet(R \cup ({x} \X (1..k)))
        /\ Cardinality(R \cup ({x} \X (1..k)))
             = Cardinality(R) + Cardinality({x} \X (1..k)) - Cardinality(R \cap ({x} \X (1..k)))
    BY <1>1, <2>3, FS_Union, Zenon
  <2> QED BY <2>3, <2>5, <2>6, <2>7 DEF Grown
<1>3. Cardinality(R) \in Nat
  BY <1>1, FS_CardinalityType
<1> QED BY <1>2, <1>3

\* The tail of a queue has what is behind its head.
LEMMA TailIsPart ==
  ASSUME NEW S, NEW q \in Seq(S), q # <<>>
  PROVE  /\ Tail(q) \in Seq(S) /\ Len(Tail(q)) = Len(q) - 1 /\ Head(q) \in S
         /\ Len(q) \in Nat \ {0}
         /\ Audio!ToSet(Tail(q)) \subseteq Audio!ToSet(q) /\ Head(q) \in Audio!ToSet(q)
  BY DEF Audio!ToSet

\* An element at the end of a queue.
LEMMA AppendIsMore ==
  ASSUME NEW S, NEW q \in Seq(S), NEW e \in S
  PROVE  /\ Append(q, e) \in Seq(S) /\ Len(Append(q, e)) = Len(q) + 1 /\ Append(q, e) # <<>>
         /\ Audio!ToSet(Append(q, e)) = Audio!ToSet(q) \cup {e}
<1>1. /\ Append(q, e) \in Seq(S) /\ Len(Append(q, e)) = Len(q) + 1 /\ Append(q, e) # <<>>
      /\ DOMAIN Append(q, e) = 1..(Len(q) + 1) /\ DOMAIN q = 1..Len(q) /\ Len(q) \in Nat
      /\ \A i \in 1..Len(q) : Append(q, e)[i] = q[i]
      /\ Append(q, e)[Len(q) + 1] = e
  OBVIOUS
<1> QED BY <1>1 DEF Audio!ToSet

UpTo(n) == 1..n

\* The places taken in the queue of one speaker.
PlacesOf(f, s) == IF s \in DOMAIN f THEN DOMAIN f[s].queue ELSE {}

\* When the queue of one speaker changes, the count of what waits changes as much
\* (queueSpeakerPacket, popNextSpeakerPacket).
LEMMA QueueChange ==
  ASSUME NEW f, NEW g, NEW t, NEW m \in Nat, NEW n \in Nat, IsFiniteSet(Columns(f)),
         \A s : s # t => PlacesOf(f, s) = PlacesOf(g, s), PlacesOf(f, t) = UpTo(m),
         PlacesOf(g, t) = UpTo(n)
  PROVE  /\ IsFiniteSet(Columns(g))
         /\ Cardinality(Columns(g)) = Cardinality(Columns(f)) - m + n
         /\ Cardinality(Columns(f)) >= m
<1> DEFINE R == {c \in Columns(f) : c[1] # t}
<1>1. ASSUME NEW h, NEW c PROVE c \in Columns(h) <=> \E s : \E i \in PlacesOf(h, s) : c = <<s, i>>
  BY DEF Columns, PlacesOf
<1>2. Columns(f) = Grown(R, t, m)
  BY <1>1 DEF Grown, UpTo
<1>3. Columns(g) = Grown(R, t, n)
  BY <1>1 DEF Grown, UpTo
<1>4. \A c \in R : c[1] # t
  OBVIOUS
<1> HIDE DEF R
<1> QED BY <1>2, <1>3, <1>4, ColumnChange

\* When one value changes, the pairs that stand for the sum change as much.
LEMMA CellsChange ==
  ASSUME NEW f, NEW g, NEW x \in DOMAIN f, DOMAIN g = DOMAIN f,
         f[x] \in Nat, g[x] \in Nat, IsFiniteSet(Cells(f)),
         \A y \in DOMAIN f : y # x => g[y] = f[y]
  PROVE  /\ IsFiniteSet(Cells(g))
         /\ Cardinality(Cells(g)) = Cardinality(Cells(f)) - f[x] + g[x]
         /\ Cardinality(Cells(f)) >= f[x]
<1> DEFINE R == {c \in Cells(f) : c[1] # x}
<1>1. ASSUME NEW h, NEW c
      PROVE  c \in Cells(h) <=> \E y \in DOMAIN h : \E i \in 1..h[y] : c = <<y, i>>
  BY DEF Cells
<1>2. Cells(f) = Grown(R, x, f[x])
  BY <1>1 DEF Grown
<1>3. Cells(g) = Grown(R, x, g[x])
  BY <1>1 DEF Grown
<1>4. \A c \in R : c[1] # x
  OBVIOUS
<1> HIDE DEF R
<1> QED BY <1>2, <1>3, <1>4, ColumnChange

\* The places taken are the same but for those of one speaker.
SameBut(f, g, t) == \A s : s # t => PlacesOf(f, s) = PlacesOf(g, s)

\* What waits in a bridge follows its intake and the one queue that changes.
LEMMA WaitsChange ==
  ASSUME NEW q, NEW r, NEW f, NEW g, NEW t,
         NEW i \in Nat, NEW j \in Nat, NEW m \in Nat, NEW n \in Nat,
         Len(q) = i, Len(r) = j, IsFiniteSet(Columns(f)),
         SameBut(f, g, t), PlacesOf(f, t) = UpTo(m),
         PlacesOf(g, t) = UpTo(n)
  PROVE  /\ IsFiniteSet(Columns(g)) /\ Waits(q, f) \in Nat /\ Waits(r, g) \in Nat
         /\ Waits(r, g) = Waits(q, f) + j - i - m + n
<1> DEFINE c == Cardinality(Columns(f))
           d == Cardinality(Columns(g))
<1>1. IsFiniteSet(Columns(g)) /\ d = c - m + n
  BY QueueChange DEF SameBut
<1>2. c \in Nat /\ d \in Nat
  BY <1>1, FS_CardinalityType
<1>3. Waits(q, f) = i + c /\ Waits(r, g) = j + d
  BY DEF Waits
<1> HIDE DEF c, d
<1> QED BY <1>1, <1>2, <1>3

\* The other bridges stay as they are.
Aside(b) ==
  \A c \in Bridge \ {b} : /\ stage'[c] = stage[c] /\ drops'[c] = drops[c]
                          /\ intake'[c] = intake[c] /\ speakers'[c] = speakers[c]

\* A step of one bridge changes what that bridge owes, and nothing else.
LEMMA OwedChange ==
  ASSUME NEW b \in Bridge, IsFiniteSet(Owing),
         NEW old \in Nat, Owed(stage[b], drops[b], intake[b], speakers[b]) = old,
         NEW new \in Nat, Owed(stage'[b], drops'[b], intake'[b], speakers'[b]) = new,
         Aside(b)
  PROVE  IsFiniteSet(Owing') /\ Cardinality(Owing') = Cardinality(Owing) - old + new
<1> DEFINE f == [c \in Bridge |-> Owed(stage[c], drops[c], intake[c], speakers[c])]
           g == [c \in Bridge |-> Owed(stage'[c], drops'[c], intake'[c], speakers'[c])]
<1>1. DOMAIN f = Bridge /\ DOMAIN g = Bridge /\ f[b] = old /\ g[b] = new
      /\ \A c \in Bridge : c # b => g[c] = f[c]
  BY DEF Aside
<1>2. Owing = Cells(f) /\ Owing' = Cells(g)
  BY DEF Owing, Cells, Owed, Waits, Columns
<1> HIDE DEF f, g
<1> QED BY <1>1, <1>2, CellsChange

\* Nothing waits in a bridge that has neither started nor packets left.
LEMMA EmptyWaits == Columns(<<>>) = {} /\ Waits(<<>>, <<>>) = 0
<1>1. DOMAIN <<>> = {} /\ Len(<<>>) = 0
  OBVIOUS
<1>2. Columns(<<>>) = {}
  BY <1>1 DEF Columns
<1> QED BY <1>1, <1>2, FS_EmptySet DEF Waits

-----------------------------------------------------------------------------
(* What the steps of a bridge's goroutine do to its speakers.                                    *)

Numbers == Nat \ {0}

\* What may become of the speakers of bridge b in a step that decodes nothing: some leave, a new one
\* is as good as silent, and no packet comes from anywhere but the intake.
Tracks(b) ==
  /\ \A s \in DOMAIN speakers'[b] :
       \/ /\ s \in DOMAIN speakers[b]
          /\ speakers'[b][s].last = speakers[b][s].last
          /\ speakers'[b][s].hasSequence = speakers[b][s].hasSequence
          /\ speakers'[b][s].expected = speakers[b][s].expected
       \/ Follows(speakers'[b][s]) /\ speakers'[b][s].last = 0
  /\ \A s : Audio!Held(b, s)' \subseteq Audio!Held(b, s)

\* Only bridge b changes.
OnlyAt(b) ==
  \A c \in Bridge \ {b} :
    speakers'[c] = speakers[c] /\ intake'[c] = intake[c] /\ drops'[c] = drops[c]

\* The speakers of one bridge change, and stay speakers.
LEMMA SpeakersAt ==
  ASSUME SpeakerTypes, NEW b \in Bridge, NEW g, speakers' = [speakers EXCEPT ![b] = g],
         DOMAIN g \subseteq Audio!Speaker, \A s \in DOMAIN g : g[s] \in SpeakerState
  PROVE  /\ SpeakerTypes' /\ speakers'[b] = g
         /\ \A c \in Bridge \ {b} : speakers'[c] = speakers[c]
<1>1. /\ DOMAIN speakers' = Bridge /\ speakers'[b] = g
      /\ \A c \in Bridge \ {b} : speakers'[c] = speakers[c]
  BY DEF SpeakerTypes
<1>2. ASSUME NEW c \in Bridge
      PROVE  /\ DOMAIN speakers'[c] \subseteq Audio!Speaker
             /\ \A s \in DOMAIN speakers'[c] : speakers'[c][s] \in SpeakerState
  <2>1. CASE c = b
    BY <1>1, <2>1
  <2>2. CASE c # b
    BY <1>1, <2>2 DEF SpeakerTypes
  <2> QED BY <2>1, <2>2
<1> QED BY <1>1, <1>2 DEF SpeakerTypes

\* What a bridge holds: packets of its intake and of the queues, and the last one heard.
LEMMA HeldIs ==
  \A b, s, k :
    k \in Audio!Held(b, s) <=>
      \/ \E q \in Audio!ToSet(intake[b]) : q[1] = s /\ k = q[2]
      \/ /\ s \in DOMAIN speakers[b]
         /\ \/ k \in Audio!ToSet(speakers[b][s].queue)
            \/ k = speakers[b][s].last /\ k # 0
  BY DEF Audio!Held

\* The same after a step of a manager or of a goroutine.
LEMMA HeldBecomes ==
  \A b, s, k :
    k \in Audio!Held(b, s)' <=>
      \/ \E q \in Audio!ToSet(intake'[b]) : q[1] = s /\ k = q[2]
      \/ /\ s \in DOMAIN speakers'[b]
         /\ \/ k \in Audio!ToSet(speakers'[b][s].queue)
            \/ k = speakers'[b][s].last /\ k # 0
  BY DEF Audio!Held, Audio!ToSet

\* queueSpeakerPacket: the packet goes from the intake to a queue or to the counters.
LEMMA Takes ==
  ASSUME Audio!AudioAssumption, SpeakerTypes, HandOverTypes, CounterTypes,
         NEW b \in Bridge, Audio!BridgeTakes(b)
  PROVE  /\ SpeakerTypes' /\ intake' \in [Bridge -> Seq(Packet)] /\ drops' \in [Bridge -> Nat]
         /\ OnlyAt(b) /\ Tracks(b)
         /\ IsFiniteSet(Columns(speakers'[b]))
         /\ drops'[b] + Waits(intake'[b], speakers'[b]) = drops[b] + Waits(intake[b], speakers[b])
<1> USE DEF Audio!managerVars, Audio!history
<1>1. PICK gone \in SUBSET DOMAIN speakers[b], noDecoder \in BOOLEAN :
        /\ Audio!Evicted(b, gone)
        /\ Audio!QueueSpeakerPacket(b, Head(intake[b]), Audio!Without(speakers[b], gone), noDecoder)
  BY DEF Audio!BridgeTakes
<1> DEFINE tracked == Audio!Without(speakers[b], gone)
           p == Head(intake[b])
           t == p[1]
           n == p[2]
           x == IF t \in DOMAIN tracked THEN tracked[t] ELSE Audio!NewSpeaker
           room == Len(x.queue) < SpeakerQueueSize
           kept == IF room THEN x.queue ELSE Tail(x.queue)
           y == [x EXCEPT !.queue = Append(kept, n)]
<1>2. /\ intake[b] # <<>> /\ intake' = [intake EXCEPT ![b] = Tail(@)]
      /\ p \in Packet /\ Tail(intake[b]) \in Seq(Packet)
      /\ Len(Tail(intake[b])) = Len(intake[b]) - 1 /\ Len(intake[b]) \in Nat \ {0}
      /\ Audio!ToSet(Tail(intake[b])) \subseteq Audio!ToSet(intake[b])
      /\ p \in Audio!ToSet(intake[b])
  <2>1. intake[b] # <<>> /\ intake' = [intake EXCEPT ![b] = Tail(@)]
    BY DEF Audio!BridgeTakes
  <2>2. intake[b] \in Seq(Packet)
    BY DEF HandOverTypes
  <2> QED BY <2>1, <2>2, TailIsPart, Zenon
<1>3. n \in Nat \ {0} /\ t \in Audio!Speaker
  BY <1>2 DEF Audio!AudioAssumption, Audio!Speaker
<1>4. /\ DOMAIN tracked = DOMAIN speakers[b] \ gone
      /\ \A s \in DOMAIN tracked : tracked[s] = speakers[b][s]
      /\ \A s \in gone : speakers[b][s].queue = <<>>
  BY <1>1 DEF Audio!Without, Audio!Evicted
<1>5. /\ x \in SpeakerState
      /\ t \in DOMAIN tracked => x = speakers[b][t]
      /\ t \notin DOMAIN tracked => x.queue = <<>> /\ Follows(x) /\ x.last = 0
  <2>1. /\ Audio!NewSpeaker \in SpeakerState /\ Follows(Audio!NewSpeaker)
        /\ Audio!NewSpeaker.queue = <<>> /\ Audio!NewSpeaker.last = 0
    BY DEF Audio!NewSpeaker, SpeakerState, Backlog, Audio!AudioAssumption, Follows
  <2>2. t \in DOMAIN tracked => tracked[t] \in SpeakerState
    BY <1>4 DEF SpeakerTypes
  <2> QED BY <2>1, <2>2, <1>4
<1>6. x.queue \in Seq(Numbers) /\ Len(x.queue) \in Nat /\ DOMAIN x.queue = 1..Len(x.queue)
  BY <1>5 DEF SpeakerState, Numbers
<1>7. /\ kept \in Seq(Numbers) /\ Len(kept) = IF room THEN Len(x.queue) ELSE Len(x.queue) - 1
      /\ Audio!ToSet(kept) \subseteq Audio!ToSet(x.queue)
      /\ ~room => Len(x.queue) >= 1
  <2>1. CASE room
    BY <1>6, <2>1
  <2>2. CASE ~room
    <3>1. Len(x.queue) >= 1 /\ x.queue # <<>>
      BY <1>6, <2>2 DEF Audio!AudioAssumption
    <3> QED BY <1>6, <2>2, <3>1, TailIsPart
  <2> QED BY <2>1, <2>2
<1> DEFINE z == Append(kept, n)
<1>8. /\ z \in Seq(Numbers) /\ Len(z) = Len(kept) + 1 /\ DOMAIN z = 1..Len(z) /\ Len(z) \in Nat
      /\ Audio!ToSet(z) = Audio!ToSet(kept) \cup {n}
  <2>1. n \in Numbers
    BY <1>3 DEF Numbers
  <2>2. kept \in Seq(Numbers)
    BY <1>7
  <2> HIDE DEF kept, n
  <2> QED BY <2>1, <2>2, AppendIsMore
<1>9. /\ y \in SpeakerState /\ y.queue = z /\ y.last = x.last /\ y.hasSequence = x.hasSequence
      /\ y.expected = x.expected
  <2>1. z \in Seq(Nat \ {0})
    BY <1>8 DEF Numbers
  <2> HIDE DEF z, x
  <2> QED BY <1>5, <2>1 DEF SpeakerState, z
<1> HIDE DEF tracked, p, t, n, x, room, kept, y, z
<1>10. drops[b] \in Nat /\ drops \in [Bridge -> Nat] /\ IsFiniteSet(Columns(speakers[b]))
  BY DEF CounterTypes
<1>11. intake' \in [Bridge -> Seq(Packet)] /\ intake'[b] = Tail(intake[b])
       /\ \A c \in Bridge \ {b} : intake'[c] = intake[c]
  BY <1>2 DEF HandOverTypes
<1>12. \/ /\ speakers' = [speakers EXCEPT ![b] = tracked]
           /\ drops' = [drops EXCEPT ![b] = @ + 1]
           /\ t \notin DOMAIN tracked
       \/ /\ speakers' = [speakers EXCEPT ![b] = Audio!With(tracked, t, y)]
           /\ drops' = [drops EXCEPT ![b] = IF room THEN @ ELSE @ + 1]
  BY <1>1 DEF Audio!QueueSpeakerPacket, tracked, p, t, n, x, room, kept, y, z
<1>13. ASSUME NEW s \in DOMAIN tracked PROVE speakers[b][s] \in SpeakerState /\ s \in Audio!Speaker
  BY <1>4 DEF SpeakerTypes
<1>14. Len(intake[b]) \in Nat /\ Len(intake'[b]) \in Nat /\ Len(intake'[b]) = Len(intake[b]) - 1
  BY <1>2, <1>11
<1>15. \A s \in gone : PlacesOf(speakers[b], s) = {}
  BY <1>4 DEF PlacesOf
<1>16. ASSUME speakers' = [speakers EXCEPT ![b] = tracked],
              drops' = [drops EXCEPT ![b] = @ + 1], t \notin DOMAIN tracked
       PROVE  /\ SpeakerTypes' /\ drops' \in [Bridge -> Nat] /\ OnlyAt(b) /\ Tracks(b)
              /\ IsFiniteSet(Columns(speakers'[b]))
              /\ drops'[b] + Waits(intake'[b], speakers'[b])
                   = drops[b] + Waits(intake[b], speakers[b])
  <2>1. /\ SpeakerTypes' /\ speakers'[b] = tracked
        /\ \A c \in Bridge \ {b} : speakers'[c] = speakers[c]
    <3>1. /\ DOMAIN tracked \subseteq Audio!Speaker
          /\ \A s \in DOMAIN tracked : tracked[s] \in SpeakerState
      BY <1>4, <1>13
    <3> QED BY <3>1, <1>16, SpeakersAt
  <2>2. drops' \in [Bridge -> Nat] /\ drops'[b] = drops[b] + 1 /\ OnlyAt(b)
    BY <1>10, <1>11, <1>16, <2>1 DEF OnlyAt
  <2>3. Tracks(b)
    <3>1. \A s : Audio!Held(b, s)' \subseteq Audio!Held(b, s)
      BY <1>2, <1>4, <1>11, <2>1, HeldIs, HeldBecomes
    <3> QED BY <1>4, <2>1, <3>1 DEF Tracks
  <2>4. SameBut(speakers[b], speakers'[b], t)
    BY <1>4, <1>15, <2>1 DEF PlacesOf, SameBut
  <2>5. PlacesOf(speakers[b], t) = UpTo(0) /\ PlacesOf(speakers'[b], t) = UpTo(0)
    BY <1>4, <1>15, <1>16, <2>1 DEF PlacesOf, UpTo
  <2>6. /\ IsFiniteSet(Columns(speakers'[b])) /\ Waits(intake[b], speakers[b]) \in Nat
        /\ Waits(intake'[b], speakers'[b]) = Waits(intake[b], speakers[b]) - 1
    <3> DEFINE q == intake[b]
               r == intake'[b]
               f == speakers[b]
               g == speakers'[b]
               i == Len(q)
               j == Len(r)
               l == 0
               m == 0
    <3>1. /\ i \in Nat /\ j \in Nat /\ l \in Nat /\ m \in Nat /\ Len(q) = i /\ Len(r) = j
          /\ SameBut(f, g, t) /\ PlacesOf(f, t) = UpTo(l) /\ PlacesOf(g, t) = UpTo(m)
          /\ IsFiniteSet(Columns(f))
      BY <1>10, <1>14, <2>4, <2>5
    <3>0. j = i - 1 /\ l = 0 /\ m = 0
      BY <1>14
    <3> HIDE DEF q, r, f, g, i, j, l, m
    <3>2. /\ IsFiniteSet(Columns(g)) /\ Waits(q, f) \in Nat
          /\ Waits(r, g) = Waits(q, f) + j - i - l + m
      BY <3>1, WaitsChange
    <3>3. Waits(r, g) = Waits(q, f) - 1
      BY <3>0, <3>1, <3>2
    <3> QED BY <3>2, <3>3 DEF q, r, f, g
  <2> QED BY <1>10, <2>1, <2>2, <2>3, <2>6
<1>17. ASSUME speakers' = [speakers EXCEPT ![b] = Audio!With(tracked, t, y)],
              drops' = [drops EXCEPT ![b] = IF room THEN @ ELSE @ + 1]
       PROVE  /\ SpeakerTypes' /\ drops' \in [Bridge -> Nat] /\ OnlyAt(b) /\ Tracks(b)
              /\ IsFiniteSet(Columns(speakers'[b]))
              /\ drops'[b] + Waits(intake'[b], speakers'[b])
                   = drops[b] + Waits(intake[b], speakers[b])
  <2> DEFINE g == Audio!With(tracked, t, y)
  <2>0. /\ DOMAIN g = DOMAIN tracked \cup {t} /\ g[t] = y
        /\ \A s \in DOMAIN tracked : s # t => g[s] = speakers[b][s]
    BY <1>4 DEF Audio!With
  <2> HIDE DEF g
  <2>1. /\ SpeakerTypes' /\ speakers'[b] = g
        /\ \A c \in Bridge \ {b} : speakers'[c] = speakers[c]
    <3>1. DOMAIN g \subseteq Audio!Speaker /\ \A s \in DOMAIN g : g[s] \in SpeakerState
      BY <1>3, <1>9, <1>13, <2>0
    <3> QED BY <3>1, <1>17, SpeakersAt DEF g
  <2>2. /\ drops' \in [Bridge -> Nat] /\ drops'[b] = (IF room THEN drops[b] ELSE drops[b] + 1)
        /\ OnlyAt(b)
    BY <1>10, <1>11, <1>17, <2>1 DEF OnlyAt, g
  <2>3. Tracks(b)
    <3>1. ASSUME NEW s, NEW k \in Audio!Held(b, s)' PROVE k \in Audio!Held(b, s)
      <4>1. CASE \E q \in Audio!ToSet(intake'[b]) : q[1] = s /\ k = q[2]
        BY <4>1, <1>2, <1>11, HeldIs
      <4>2. CASE /\ s \in DOMAIN g /\ s # t
                 /\ (k \in Audio!ToSet(g[s].queue) \/ (k = g[s].last /\ k # 0))
        BY <4>2, <1>4, <2>0, HeldIs
      <4>3. CASE s = t /\ (k \in Audio!ToSet(z) \/ (k = y.last /\ k # 0))
        <5>1. k = n => k \in Audio!Held(b, s)
          BY <4>3, <1>2, HeldIs DEF t, n
        <5>2. k \in Audio!ToSet(kept) \/ (k = x.last /\ k # 0) => k \in Audio!Held(b, s)
          <6>1. CASE t \in DOMAIN tracked
            BY <6>1, <4>3, <1>4, <1>5, <1>7, HeldIs
          <6>2. CASE t \notin DOMAIN tracked
            BY <6>2, <1>5, <1>7 DEF Audio!ToSet
          <6> QED BY <6>1, <6>2
        <5> QED BY <4>3, <5>1, <5>2, <1>8, <1>9
      <4> QED BY <4>1, <4>2, <4>3, <2>0, <2>1, <1>9, HeldBecomes
    <3>2. ASSUME NEW s \in DOMAIN speakers'[b]
          PROVE  \/ /\ s \in DOMAIN speakers[b]
                    /\ speakers'[b][s].last = speakers[b][s].last
                    /\ speakers'[b][s].hasSequence = speakers[b][s].hasSequence
                    /\ speakers'[b][s].expected = speakers[b][s].expected
                 \/ Follows(speakers'[b][s]) /\ speakers'[b][s].last = 0
      <4>1. CASE s # t
        BY <4>1, <1>4, <2>0, <2>1
      <4>2. CASE s = t /\ t \in DOMAIN tracked
        BY <4>2, <1>4, <1>5, <1>9, <2>0, <2>1
      <4>3. CASE s = t /\ t \notin DOMAIN tracked
        BY <4>3, <1>5, <1>9, <2>0, <2>1 DEF Follows
      <4> QED BY <4>1, <4>2, <4>3
    <3> QED BY <3>1, <3>2 DEF Tracks
  <2>4. SameBut(speakers[b], speakers'[b], t)
    BY <1>4, <1>15, <2>0, <2>1 DEF PlacesOf, SameBut
  <2>5. PlacesOf(speakers[b], t) = UpTo(Len(x.queue)) /\ PlacesOf(speakers'[b], t) = UpTo(Len(z))
    <3>1. PlacesOf(speakers'[b], t) = UpTo(Len(z))
      BY <1>8, <1>9, <2>0, <2>1 DEF PlacesOf, UpTo
    <3>2. CASE t \in DOMAIN tracked
      BY <3>1, <3>2, <1>4, <1>5, <1>6 DEF PlacesOf, UpTo
    <3>3. CASE t \notin DOMAIN tracked
      BY <3>1, <3>3, <1>4, <1>5, <1>15 DEF PlacesOf, UpTo
    <3> QED BY <3>2, <3>3
  <2>6. /\ IsFiniteSet(Columns(speakers'[b])) /\ Waits(intake[b], speakers[b]) \in Nat
        /\ Waits(intake'[b], speakers'[b])
             = Waits(intake[b], speakers[b]) - 1 - Len(x.queue) + Len(z)
    <3> DEFINE q == intake[b]
               r == intake'[b]
               f == speakers[b]
               h == speakers'[b]
               i == Len(q)
               j == Len(r)
               l == Len(x.queue)
               m == Len(z)
    <3>1. /\ i \in Nat /\ j \in Nat /\ l \in Nat /\ m \in Nat
          /\ Len(q) = i /\ Len(r) = j /\ IsFiniteSet(Columns(f))
          /\ SameBut(f, h, t) /\ PlacesOf(f, t) = UpTo(l) /\ PlacesOf(h, t) = UpTo(m)
      BY <1>6, <1>8, <1>10, <1>14, <2>4, <2>5
    <3>0. j = i - 1
      BY <1>14
    <3> HIDE DEF q, r, f, h, i, j, l, m
    <3>2. /\ IsFiniteSet(Columns(h)) /\ Waits(q, f) \in Nat
          /\ Waits(r, h) = Waits(q, f) + j - i - l + m
      BY <3>1, WaitsChange
    <3>3. Waits(r, h) = Waits(q, f) - 1 - l + m
      BY <3>0, <3>1, <3>2
    <3> QED BY <3>2, <3>3 DEF q, r, f, h, l, m
  <2>7. Len(z) = (IF room THEN Len(x.queue) + 1 ELSE Len(x.queue))
    BY <1>6, <1>7, <1>8
  <2>8. drops'[b] + Waits(intake'[b], speakers'[b]) = drops[b] + Waits(intake[b], speakers[b])
    <3> DEFINE d == drops[b]
               e == drops'[b]
               w == Waits(intake[b], speakers[b])
               v == Waits(intake'[b], speakers'[b])
               l == Len(x.queue)
               m == Len(z)
    <3>1. /\ d \in Nat /\ w \in Nat /\ l \in Nat /\ v = w - 1 - l + m
          /\ e = (IF room THEN d ELSE d + 1) /\ m = (IF room THEN l + 1 ELSE l)
      BY <1>6, <1>10, <2>2, <2>6, <2>7
    <3> HIDE DEF d, e, w, v, l, m
    <3>2. e + v = d + w
      BY <3>1
    <3> QED BY <3>2 DEF d, e, w, v
  <2> QED BY <2>1, <2>2, <2>3, <2>6, <2>8
<1> QED BY <1>11, <1>12, <1>16, <1>17

\* The places of a queue: the late ones, the one that is popped, and those that stay
\* (popNextSpeakerPacket).
LEMMA PlacesSplit ==
  ASSUME NEW x \in SpeakerState, NEW i \in Audio!Timely(x),
         NEW rest \in Audio!Left(x.queue, Audio!Timely(x) \ {i})
  PROVE  /\ rest \in Seq(Numbers) /\ Audio!ToSet(rest) \subseteq Audio!ToSet(x.queue)
         /\ Len(rest) \in Nat /\ Len(x.queue) \in Nat
         /\ Audio!Cardinality(DOMAIN x.queue \ Audio!Timely(x)) \in Nat
         /\ Audio!Cardinality(DOMAIN x.queue \ Audio!Timely(x)) + 1 + Len(rest) = Len(x.queue)
<1> DEFINE q == x.queue
           D == DOMAIN q
           T == Audio!Timely(x)
<1>1. q \in Seq(Numbers) /\ D = 1..Len(q) /\ Len(q) \in Nat
  BY DEF SpeakerState, Numbers
<1>2. T \subseteq D
  BY DEF Audio!Timely
<1>3. IsFiniteSet(D) /\ Cardinality(D) = Len(q)
  BY <1>1, FS_Interval
<1> HIDE DEF q, D, T
<1>4. IsFiniteSet(T) /\ Cardinality(T) \in Nat
  BY <1>2, <1>3, FS_Subset, FS_CardinalityType
<1>5. Cardinality(T \ {i}) = Cardinality(T) - 1
  BY <1>4, FS_RemoveElement DEF T
<1>6. Cardinality(D \ T) = Cardinality(D) - Cardinality(T) /\ Cardinality(D \ T) \in Nat
  <2>1. D \cap T = T
    BY <1>2
  <2>2. IsFiniteSet(D \ T) /\ Cardinality(D \ T) = Cardinality(D) - Cardinality(D \cap T)
    BY <1>3, FS_Difference
  <2> QED BY <2>1, <2>2, FS_CardinalityType
<1>7. /\ rest \in Seq(Numbers) /\ Len(rest) = Cardinality(T \ {i})
      /\ Audio!ToSet(rest) \subseteq {q[k] : k \in T \ {i}}
  <2>1. rest \in Audio!Left(q, T \ {i})
    BY DEF q, T
  <2>2. T \ {i} \in SUBSET DOMAIN q
    BY <1>2 DEF D
  <2> QED BY <1>1, <2>1, <2>2, LeftIsPart
<1>8. Audio!ToSet(rest) \subseteq Audio!ToSet(q)
  BY <1>2, <1>7 DEF Audio!ToSet, D
<1>9. Audio!Cardinality(D \ T) = Cardinality(D \ T)
  BY SameCardinality
<1>10. /\ Cardinality(D \ T) \in Nat /\ Len(rest) \in Nat
       /\ Cardinality(D \ T) + 1 + Len(rest) = Len(q)
  BY <1>1, <1>3, <1>4, <1>5, <1>6, <1>7
<1> QED BY <1>1, <1>7, <1>8, <1>9, <1>10 DEF q, D, T

\* A packet that is not late comes after the one that was decoded last (popNextSpeakerPacket).
LEMMA PoppedIsAhead ==
  ASSUME Audio!AudioAssumption, SpeakerTypes, HandOverTypes, Near, Sequenced,
         NEW b \in Bridge, NEW s \in DOMAIN speakers[b], NEW i \in Audio!Timely(speakers[b][s])
  PROVE  /\ speakers[b][s].queue[i] \in Numbers
         /\ speakers[b][s].queue[i] \in Audio!ToSet(speakers[b][s].queue)
         /\ speakers[b][s].queue[i] > speakers[b][s].last
<1> DEFINE x == speakers[b][s]
           n == x.queue[i]
<1>1. x \in SpeakerState /\ s \in Audio!Speaker
  BY DEF SpeakerTypes
<1>2. i \in DOMAIN x.queue /\ ~Audio!IsLate(x, n)
  BY DEF Audio!Timely
<1>3. n \in Numbers /\ n \in Audio!ToSet(x.queue) /\ x.last \in Nat /\ x.expected \in Int
      /\ x.hasSequence \in BOOLEAN
  BY <1>1, <1>2 DEF SpeakerState, Numbers, Audio!ToSet
<1>4. Follows(x)
  BY DEF Sequenced
<1>5. CASE x.hasSequence
  <2>1. x.last > 0 /\ x.expected = (x.last + 1) % Modulus
    BY <1>4, <1>5 DEF Follows
  <2>2. n \in Audio!Held(b, s) /\ x.last \in Audio!Held(b, s)
    BY <1>3, <2>1, HeldIs
  <2>3. n - x.last <= Window /\ x.last - n <= Window
    BY <1>1, <2>2 DEF Near
  <2>4. Audio!Distance(n, (x.last + 1) % Modulus) < Audio!Half
    <3>1. ~(Audio!Distance(n, x.expected) >= Audio!Half)
      BY <1>2, <1>5 DEF Audio!IsLate
    <3>2. Audio!Distance(n, x.expected) \in Int /\ Audio!Half \in Int
      BY <1>3 DEF Audio!Distance, Audio!Half, Audio!AudioAssumption, Numbers
    <3> QED BY <2>1, <3>1, <3>2
  <2>5. n \in Int /\ x.last \in Int
    BY <1>3 DEF Numbers
  <2> HIDE DEF n, x
  <2>6. n > x.last
    BY <2>3, <2>4, <2>5, DistanceAhead
  <2> QED BY <1>3, <2>6 DEF n, x
<1>6. CASE ~x.hasSequence
  BY <1>3, <1>4, <1>6 DEF Follows, Numbers
<1> QED BY <1>3, <1>5, <1>6

\* Speaker s of bridge b gets the value y, with a part of its queue, and k packets are counted; what
\* it has heard last only gets newer (nextSpeakerFrame).
Becomes(b, s, y, k) ==
  /\ speakers' = [speakers EXCEPT ![b][s] = y] /\ Follows(y)
  /\ Audio!ToSet(y.queue) \subseteq Audio!ToSet(speakers[b][s].queue)
  /\ \/ y.last = 0
     \/ y.last = speakers[b][s].last
     \/ y.last \in Audio!ToSet(speakers[b][s].queue) /\ y.last > speakers[b][s].last
  /\ drops' = [drops EXCEPT ![b] = @ + k]

\* One round of nextSpeakerFrame gives the speaker a value y: its queue loses k packets to the
\* counters and e, at most one, to the decoder; what it heard last gets newer, and u errors that
\* stand for no packet are counted besides.
LEMMA DecodesOne ==
  ASSUME Audio!AudioAssumption, SpeakerTypes, HandOverTypes, CounterTypes, Near, Sequenced,
         NEW b \in Bridge, NEW s \in DOMAIN speakers[b], Audio!BridgeDecodes(b, s)
  PROVE  \E y \in SpeakerState, k \in Nat, e \in Nat, u \in Nat :
           /\ Becomes(b, s, y, k + u) /\ decoded' = decoded + e /\ extra' = extra + u
           /\ e # 0 => y.last > speakers[b][s].last
           /\ Len(y.queue) \in Nat /\ Len(speakers[b][s].queue) \in Nat
           /\ e + k + Len(y.queue) = Len(speakers[b][s].queue)
<1> DEFINE x == speakers[b][s]
           late == Audio!Cardinality(DOMAIN x.queue \ Audio!Timely(x))
<1>1. x \in SpeakerState /\ s \in Audio!Speaker /\ Follows(x)
  BY DEF SpeakerTypes, Sequenced
<1>2. x.queue \in Seq(Numbers) /\ x.pcm \in Int /\ x.last \in Nat /\ x.expected \in Int
      /\ Len(x.queue) \in Nat
  BY <1>1 DEF SpeakerState, Numbers
<1>3. x.pcm < Frame
  BY DEF Audio!BridgeDecodes, Audio!Hungry
<1> DEFINE gap == MaxConceal * Frame
<1>4. /\ gap \in Nat /\ PacketSamples \in Nat /\ Frame \in Nat \ {0} /\ Modulus \in Nat \ {0}
      /\ MaxConceal \in Nat /\ Backlog = Frame + gap + PacketSamples
  BY DEF Audio!AudioAssumption, Backlog
<1> HIDE DEF gap
<1>5. CASE /\ Audio!Timely(x) = {}
           /\ speakers' = [speakers EXCEPT ![b][s] = [x EXCEPT !.queue = <<>>]]
           /\ drops' = [drops EXCEPT ![b] = @ + (late + 0)] /\ extra' = extra + 0
           /\ UNCHANGED decoded
  <2> DEFINE y == [x EXCEPT !.queue = <<>>]
  <2>1. late \in Nat /\ late = Len(x.queue)
    <3>1. DOMAIN x.queue \ Audio!Timely(x) = 1..Len(x.queue)
      <4>1. Audio!Timely(x) = {}
        BY <1>5
      <4>2. DOMAIN x.queue = 1..Len(x.queue)
        BY <1>2
      <4> QED BY <4>1, <4>2
    <3>2. ASSUME NEW l \in Nat PROVE Cardinality(1..l) = l
      BY FS_Interval
    <3>3. Cardinality(1..Len(x.queue)) = Len(x.queue)
      BY <1>2, <3>2
    <3> QED BY <1>2, <3>1, <3>3, SameCardinality
  <2>2. y \in SpeakerState /\ y.queue = <<>> /\ y.last = x.last /\ Follows(y)
    <3> HIDE DEF x, late
    <3>1. <<>> \in Seq(Nat \ {0})
      OBVIOUS
    <3> QED BY <1>1, <3>1 DEF SpeakerState, Follows, y
  <2>3. Audio!ToSet(y.queue) \subseteq Audio!ToSet(x.queue)
    BY <2>2 DEF Audio!ToSet
  <2>4. decoded' = decoded + 0 /\ Len(y.queue) = 0
    BY <1>5, <2>2 DEF CounterTypes
  <2> HIDE DEF late
  <2>5. 0 + late + Len(y.queue) = Len(x.queue)
    BY <2>1, <2>4
  <2> y \in SpeakerState /\ late \in Nat
    BY <2>1, <2>2
  <2> WITNESS y \in SpeakerState, late \in Nat, 0 \in Nat, 0 \in Nat
  <2> QED BY <1>2, <1>5, <2>2, <2>3, <2>4, <2>5 DEF Becomes
<1>6. ASSUME NEW i \in Audio!Best(x), NEW rest \in Audio!Left(x.queue, Audio!Timely(x) \ {i}),
             NEW hidden \in Audio!Concealed(IF x.hasSequence
                                            THEN Audio!Distance(x.queue[i], x.expected) ELSE 0)
      PROVE  /\ rest \in Seq(Nat \ {0}) /\ Audio!ToSet(rest) \subseteq Audio!ToSet(x.queue)
             /\ Len(rest) \in Nat /\ late \in Nat /\ late + 1 + Len(rest) = Len(x.queue)
             /\ x.queue[i] \in Nat \ {0} /\ x.queue[i] \in Audio!ToSet(x.queue)
             /\ x.queue[i] > x.last
             /\ hidden[1] \in Int /\ hidden[1] <= gap /\ hidden[2] \in Nat
  <2>1. i \in Audio!Timely(x)
    BY DEF Audio!Best
  <2>2. hidden[1] \in Int /\ hidden[1] <= gap /\ hidden[2] \in Nat
    <3> DEFINE missing == IF x.hasSequence THEN Audio!Distance(x.queue[i], x.expected) ELSE 0
    <3> HIDE DEF missing
    <3>1. hidden \in Audio!Concealed(missing)
      BY DEF missing
    <3>2. missing \in Int
      <4>1. x.queue[i] \in Int
        BY <1>2, <2>1 DEF Audio!Timely, Numbers
      <4> QED BY <1>2, <1>4, <4>1 DEF missing, Audio!Distance
    <3>3. PICK packets \in Int : hidden \in (0..gap) \X (0..packets)
      BY <1>4, <3>1, <3>2 DEF Audio!Concealed, gap
    <3> QED BY <1>4, <3>3
  <2>3. /\ x.queue[i] \in Numbers /\ x.queue[i] \in Audio!ToSet(x.queue) /\ x.queue[i] > x.last
    BY <2>1, PoppedIsAhead
  <2>4. /\ rest \in Seq(Numbers) /\ Audio!ToSet(rest) \subseteq Audio!ToSet(x.queue)
        /\ Len(rest) \in Nat /\ late \in Nat /\ late + 1 + Len(rest) = Len(x.queue)
    <3> HIDE DEF x
    <3> QED BY <1>1, <2>1, PlacesSplit
  <2> QED BY <2>2, <2>3, <2>4 DEF Numbers
<1>7. ASSUME NEW i \in Audio!Best(x), NEW rest \in Audio!Left(x.queue, Audio!Timely(x) \ {i}),
             NEW hidden \in Audio!Concealed(IF x.hasSequence
                                            THEN Audio!Distance(x.queue[i], x.expected) ELSE 0),
             NEW length \in 1..PacketSamples,
             speakers' = [speakers EXCEPT ![b][s] =
               [queue |-> rest, pcm |-> x.pcm + hidden[1] + length,
                expected |-> Audio!Expected(x.queue[i]), hasSequence |-> TRUE,
                last |-> x.queue[i]]],
             drops' = [drops EXCEPT ![b] = @ + (late + hidden[2])],
             extra' = extra + hidden[2],
             decoded' = decoded + 1
      PROVE  \E y \in SpeakerState, k \in Nat, e \in Nat, u \in Nat :
               /\ Becomes(b, s, y, k + u) /\ decoded' = decoded + e /\ extra' = extra + u
               /\ e # 0 => y.last > x.last
               /\ Len(y.queue) \in Nat /\ Len(x.queue) \in Nat
               /\ e + k + Len(y.queue) = Len(x.queue)
  <2> DEFINE n == x.queue[i]
             y == [queue |-> rest, pcm |-> x.pcm + hidden[1] + length,
                   expected |-> Audio!Expected(n), hasSequence |-> TRUE, last |-> n]
  <2>1. /\ rest \in Seq(Nat \ {0}) /\ Audio!ToSet(rest) \subseteq Audio!ToSet(x.queue)
        /\ Len(rest) \in Nat /\ late \in Nat /\ late + 1 + Len(rest) = Len(x.queue)
        /\ n \in Nat \ {0} /\ n \in Audio!ToSet(x.queue)
        /\ n > x.last
        /\ hidden[1] \in Int /\ hidden[1] <= gap /\ hidden[2] \in Nat
    BY <1>6
  <2>2. x.pcm + hidden[1] + length \in Int /\ x.pcm + hidden[1] + length < Backlog
    <3>1. x.pcm \in Int /\ x.pcm < Frame /\ hidden[1] \in Int /\ hidden[1] <= gap
          /\ length \in Int /\ length <= PacketSamples
      BY <1>2, <1>3, <1>4, <2>1
    <3> HIDE DEF x, n, y, late
    <3> QED BY <1>4, <3>1
  <2>3. Audio!Expected(n) \in Int /\ Audio!Expected(n) = (n + 1) % Modulus
    BY <1>4, <2>1 DEF Audio!Expected
  <2>4. y \in SpeakerState
    <3> HIDE DEF n, x
    <3> QED BY <2>1, <2>2, <2>3 DEF SpeakerState, y
  <2>5. Follows(y) /\ y.queue = rest /\ y.last = n
    BY <2>1, <2>3 DEF Follows
  <2>6. speakers' = [speakers EXCEPT ![b][s] = y]
    BY <1>7
  <2> HIDE DEF y, n, x, late
  <2>7. 1 + late + Len(y.queue) = Len(x.queue)
    BY <2>1, <2>5
  <2> y \in SpeakerState /\ late \in Nat /\ hidden[2] \in Nat
    BY <2>1, <2>4
  <2> WITNESS y \in SpeakerState, late \in Nat, 1 \in Nat, hidden[2] \in Nat
  <2> QED BY <1>2, <1>7, <2>1, <2>5, <2>6, <2>7 DEF Becomes, x
<1>8. ASSUME NEW i \in Audio!Best(x), NEW rest \in Audio!Left(x.queue, Audio!Timely(x) \ {i}),
             NEW hidden \in Audio!Concealed(IF x.hasSequence
                                            THEN Audio!Distance(x.queue[i], x.expected) ELSE 0),
             NEW failedReset \in 0..1,
             speakers' = [speakers EXCEPT ![b][s] =
               [x EXCEPT !.queue = rest, !.pcm = @ + hidden[1], !.hasSequence = FALSE,
                         !.last = 0]],
             drops' = [drops EXCEPT ![b] = @ + (late + 1 + (hidden[2] + failedReset))],
             extra' = extra + (hidden[2] + failedReset),
             decoded' = decoded
      PROVE  \E y \in SpeakerState, k \in Nat, e \in Nat, u \in Nat :
               /\ Becomes(b, s, y, k + u) /\ decoded' = decoded + e /\ extra' = extra + u
               /\ e # 0 => y.last > x.last
               /\ Len(y.queue) \in Nat /\ Len(x.queue) \in Nat
               /\ e + k + Len(y.queue) = Len(x.queue)
  <2> DEFINE y == [x EXCEPT !.queue = rest, !.pcm = @ + hidden[1], !.hasSequence = FALSE,
                            !.last = 0]
             u == hidden[2] + failedReset
  <2>1. /\ rest \in Seq(Nat \ {0}) /\ Audio!ToSet(rest) \subseteq Audio!ToSet(x.queue)
        /\ Len(rest) \in Nat /\ late \in Nat /\ late + 1 + Len(rest) = Len(x.queue)
        /\ hidden[1] \in Int /\ hidden[1] <= gap /\ hidden[2] \in Nat
    BY <1>6
  <2>2. x.pcm + hidden[1] \in Int /\ x.pcm + hidden[1] < Backlog
    <3>1. /\ x.pcm \in Int /\ x.pcm < Frame /\ hidden[1] \in Int /\ hidden[1] <= gap
          /\ gap \in Nat /\ PacketSamples \in Nat /\ Frame \in Nat
          /\ Backlog = Frame + gap + PacketSamples
      BY <1>2, <1>3, <1>4, <2>1
    <3> HIDE DEF x, y, u, late
    <3> QED BY ONLY <3>1
  <2>4. y \in SpeakerState
    <3> HIDE DEF x
    <3> QED BY <1>1, <2>1, <2>2 DEF SpeakerState, y
  <2>5. Follows(y) /\ y.queue = rest /\ y.last = 0
    <3> HIDE DEF x
    <3> QED BY <1>1 DEF Follows, SpeakerState, y
  <2>6. speakers' = [speakers EXCEPT ![b][s] = y]
    BY <1>8
  <2>7. decoded' = decoded + 0
    BY <1>8 DEF CounterTypes
  <2>9. /\ u \in Nat /\ extra' = extra + u
        /\ drops' = [drops EXCEPT ![b] = @ + (late + 1 + u)]
    BY <1>8, <2>1
  <2> HIDE DEF y, x, late, u
  <2>8. 0 + (late + 1) + Len(y.queue) = Len(x.queue) /\ late + 1 \in Nat
    BY <2>1, <2>5
  <2> y \in SpeakerState /\ late + 1 \in Nat /\ u \in Nat
    BY <2>4, <2>8, <2>9
  <2> WITNESS y \in SpeakerState, late + 1 \in Nat, 0 \in Nat, u \in Nat
  <2> QED BY <1>2, <2>1, <2>5, <2>6, <2>7, <2>8, <2>9 DEF Becomes, x
<1> QED BY <1>5, <1>7, <1>8 DEF Audio!BridgeDecodes, Audio!history

\* What a step of the goroutine of bridge b keeps: each decoder goes on from the packet it has
\* decoded last, and no packet comes from anywhere but the intake.
Orderly(b) ==
  /\ \A t \in DOMAIN speakers'[b] : Follows(speakers'[b][t])
  /\ \A t : Audio!Held(b, t)' \subseteq Audio!Held(b, t)

\* One speaker of one bridge gets the value y (nextSpeakerFrame, mixFrame).
LEMMA SpeakerBecomes ==
  ASSUME SpeakerTypes, HandOverTypes, CounterTypes, Sequenced,
         NEW b \in Bridge, NEW s \in DOMAIN speakers[b], NEW y \in SpeakerState, NEW k \in Nat,
         Becomes(b, s, y, k), UNCHANGED intake
  PROVE  /\ SpeakerTypes' /\ intake' \in [Bridge -> Seq(Packet)] /\ drops' \in [Bridge -> Nat]
         /\ OnlyAt(b) /\ Orderly(b) /\ IsFiniteSet(Columns(speakers'[b]))
         /\ drops'[b] = drops[b] + k /\ Waits(intake[b], speakers[b]) \in Nat
         /\ Waits(intake'[b], speakers'[b])
              = Waits(intake[b], speakers[b]) - Len(speakers[b][s].queue) + Len(y.queue)
<1>0. /\ speakers' = [speakers EXCEPT ![b][s] = y] /\ Follows(y)
      /\ Audio!ToSet(y.queue) \subseteq Audio!ToSet(speakers[b][s].queue)
      /\ \/ y.last = 0
         \/ y.last = speakers[b][s].last
         \/ y.last \in Audio!ToSet(speakers[b][s].queue) /\ y.last > speakers[b][s].last
      /\ drops' = [drops EXCEPT ![b] = @ + k]
  BY DEF Becomes
<1> DEFINE x == speakers[b][s]
           h == [speakers[b] EXCEPT ![s] = y]
<1>1. /\ DOMAIN h = DOMAIN speakers[b] /\ h[s] = y
      /\ \A t \in DOMAIN speakers[b] : t # s => h[t] = speakers[b][t]
  OBVIOUS
<1>2. speakers' = [speakers EXCEPT ![b] = h]
  BY <1>0
<1>3. x \in SpeakerState /\ DOMAIN speakers[b] \subseteq Audio!Speaker
      /\ \A t \in DOMAIN speakers[b] : speakers[b][t] \in SpeakerState
  BY DEF SpeakerTypes
<1> HIDE DEF h
<1>4. /\ SpeakerTypes' /\ speakers'[b] = h
      /\ \A c \in Bridge \ {b} : speakers'[c] = speakers[c]
  <2>1. DOMAIN h \subseteq Audio!Speaker /\ \A t \in DOMAIN h : h[t] \in SpeakerState
    BY <1>1, <1>3
  <2> QED BY <1>2, <2>1, SpeakersAt
<1>5. drops' \in [Bridge -> Nat] /\ drops'[b] = drops[b] + k /\ OnlyAt(b)
  BY <1>0, <1>4 DEF OnlyAt, CounterTypes
<1>6. intake' \in [Bridge -> Seq(Packet)] /\ Len(intake[b]) \in Nat
  BY DEF HandOverTypes
<1>7. Orderly(b)
  <2>1. ASSUME NEW t, NEW n \in Audio!Held(b, t)' PROVE n \in Audio!Held(b, t)
    <3>1. CASE \E p \in Audio!ToSet(intake'[b]) : p[1] = t /\ n = p[2]
      BY <3>1, HeldIs
    <3>2. CASE /\ t \in DOMAIN h /\ t # s
               /\ (n \in Audio!ToSet(h[t].queue) \/ (n = h[t].last /\ n # 0))
      BY <3>2, <1>1, HeldIs
    <3>3. CASE t = s /\ (n \in Audio!ToSet(y.queue) \/ (n = y.last /\ n # 0))
      BY <3>3, <1>0, HeldIs
    <3> QED BY <3>1, <3>2, <3>3, <1>1, <1>4, HeldBecomes
  <2>2. ASSUME NEW t \in DOMAIN speakers'[b]
        PROVE  Follows(speakers'[b][t])
    <3>1. CASE t = s
      BY <3>1, <1>0, <1>1, <1>4
    <3>2. CASE t # s
      BY <3>2, <1>1, <1>4 DEF Sequenced
    <3> QED BY <3>1, <3>2
  <2> QED BY <2>1, <2>2 DEF Orderly
<1>8. SameBut(speakers[b], h, s)
  BY <1>1 DEF PlacesOf, SameBut
<1>9. /\ PlacesOf(speakers[b], s) = UpTo(Len(x.queue)) /\ Len(x.queue) \in Nat
      /\ PlacesOf(h, s) = UpTo(Len(y.queue)) /\ Len(y.queue) \in Nat
  <2>1. x.queue \in Seq(Nat \ {0}) /\ y.queue \in Seq(Nat \ {0})
    BY <1>3 DEF SpeakerState
  <2> QED BY <2>1, <1>1 DEF PlacesOf, UpTo
<1>10. /\ IsFiniteSet(Columns(h)) /\ Waits(intake[b], speakers[b]) \in Nat
       /\ Waits(intake[b], h) = Waits(intake[b], speakers[b]) - Len(x.queue) + Len(y.queue)
  <2> DEFINE q == intake[b]
             f == speakers[b]
             i == Len(q)
             l == Len(x.queue)
             m == Len(y.queue)
  <2>1. /\ i \in Nat /\ l \in Nat /\ m \in Nat /\ Len(q) = i /\ IsFiniteSet(Columns(f))
        /\ SameBut(f, h, s) /\ PlacesOf(f, s) = UpTo(l) /\ PlacesOf(h, s) = UpTo(m)
    BY <1>6, <1>8, <1>9 DEF CounterTypes
  <2> HIDE DEF q, f, i, l, m
  <2>2. /\ IsFiniteSet(Columns(h)) /\ Waits(q, f) \in Nat
        /\ Waits(q, h) = Waits(q, f) + i - i - l + m
    BY <2>1, WaitsChange
  <2>3. Waits(q, h) = Waits(q, f) - l + m
    BY <2>1, <2>2
  <2> QED BY <2>2, <2>3 DEF q, f, l, m
<1> QED BY <1>4, <1>5, <1>6, <1>7, <1>10

-----------------------------------------------------------------------------
(* The steps that are taken without the manager's mutex.                                         *)

\* What waits is a number.
LEMMA WaitsIsNat ==
  ASSUME AudioInv, NEW b \in Bridge
  PROVE  Waits(intake[b], speakers[b]) \in Nat /\ drops[b] \in Nat
<1>1. IsFiniteSet(Columns(speakers[b])) /\ drops[b] \in Nat
  BY DEF AudioInv, CounterTypes
<1>2. Len(intake[b]) \in Nat
  BY DEF AudioInv, HandOverTypes
<1>3. Cardinality(Columns(speakers[b])) \in Nat
  BY <1>1, FS_CardinalityType
<1> QED BY <1>1, <1>2, <1>3 DEF Waits

\* A step of the goroutine of bridge b that leaves it at w keeps the invariant when it is orderly
\* a packet that leaves the queues is counted, and the u errors that are counted besides are known
\* (run, mixFrame).
LEMMA CountingStep ==
  ASSUME Audio!AudioAssumption, AudioInv, NEW b \in Bridge,
         NEW w \in {"select", "drain", "mix", "done"}, stage[b] \in {"select", "drain", "mix"},
         w = "done" => b \in closed /\ intake'[b] = <<>> /\ speakers'[b] = <<>>,
         stage' = [stage EXCEPT ![b] = w],
         UNCHANGED <<made, live, closed, add, newest, stats, offered>>,
         NEW u \in Nat, extra' = extra + u,
         SpeakerTypes', intake' \in [Bridge -> Seq(Packet)], drops' \in [Bridge -> Nat],
         OnlyAt(b), Orderly(b), IsFiniteSet(Columns(speakers'[b])),
         decoded' \in Nat, discarded' \in Nat,
         decoded' + discarded' + drops'[b] + Waits(intake'[b], speakers'[b])
           = decoded + discarded + drops[b] + Waits(intake[b], speakers[b]) + u
  PROVE  AudioInv'
<1>0. SpeakerTypes /\ HandOverTypes /\ Near /\ Sequenced /\ BridgeStages /\ CounterTypes /\ Balanced
  BY DEF AudioInv
<1> DEFINE held == Waits(intake[b], speakers[b])
           rest == Waits(intake'[b], speakers'[b])
<1>a. held \in Nat
  BY WaitsIsNat
<1>b. rest \in Nat
  <2>1. Len(intake'[b]) \in Nat
    OBVIOUS
  <2>2. Cardinality(Columns(speakers'[b])) \in Nat
    BY FS_CardinalityType
  <2> QED BY <2>1, <2>2 DEF Waits
<1>c. /\ decoded' + discarded' + drops'[b] + rest = decoded + discarded + drops[b] + held + u
      /\ held = Waits(intake[b], speakers[b]) /\ rest = Waits(intake'[b], speakers'[b])
  OBVIOUS
<1> HIDE DEF held, rest
<1>1. /\ stage' \in [Bridge -> {"none", "select", "drain", "mix", "done", "folded"}]
      /\ stage'[b] = w /\ \A c \in Bridge \ {b} : stage'[c] = stage[c]
      /\ stage \in [Bridge -> {"none", "select", "drain", "mix", "done", "folded"}]
  BY <1>0 DEF BridgeStages
<1>2. HandOverTypes'
  BY <1>0 DEF HandOverTypes
<1>3. Near'
  <2>1. ASSUME NEW s, NEW c \in Bridge PROVE Audio!Held(c, s)' \subseteq Audio!Held(c, s)
    <3>1. CASE c = b
      BY <3>1 DEF Orderly
    <3>2. CASE c # b
      <4>1. intake'[c] = intake[c] /\ speakers'[c] = speakers[c]
        BY <3>2 DEF OnlyAt
      <4> QED BY <4>1 DEF Audio!Held, Audio!ToSet
    <3> QED BY <3>1, <3>2
  <2>2. ASSUME NEW s PROVE Handing(s)' = Handing(s)
    BY DEF Handing, Audio!ToSet
  <2> QED BY <1>0, <2>1, <2>2 DEF Near, Audio!Speaker
<1>4. Sequenced'
  <2>1. ASSUME NEW c \in Bridge, NEW s \in DOMAIN speakers'[c] PROVE Follows(speakers'[c][s])
    <3>1. CASE c = b
      BY <3>1 DEF Orderly
    <3>2. CASE c # b
      BY <1>0, <3>2 DEF OnlyAt, Sequenced
    <3> QED BY <3>1, <3>2
  <2> QED BY <2>1 DEF Sequenced, Follows
<1>5. BridgeStages'
  <2>1. ASSUME NEW c \in Bridge
        PROVE  /\ c <= made' => c = live' \/ c \in closed'
               /\ stage'[c] = "none" <=> c > made'
               /\ stage'[c] \in {"done", "folded"} => c \in closed'
               /\ stage'[c] \in {"none", "done", "folded"}
                    => intake'[c] = <<>> /\ speakers'[c] = <<>>
    <3>1. CASE c = b
      BY <3>1, <1>0, <1>1 DEF BridgeStages
    <3>2. CASE c # b
      BY <3>2, <1>0, <1>1 DEF BridgeStages, OnlyAt
    <3> QED BY <3>1, <3>2
  <2> QED BY <2>1, <1>0, <1>1 DEF BridgeStages
<1>6. /\ Owed(stage[b], drops[b], intake[b], speakers[b]) = drops[b] + held
      /\ Owed(stage'[b], drops'[b], intake'[b], speakers'[b]) = drops'[b] + rest
      /\ drops[b] \in Nat /\ drops'[b] \in Nat
  BY <1>0, <1>1, <1>c DEF Owed, CounterTypes
<1>7. /\ IsFiniteSet(Owing')
      /\ Cardinality(Owing') = Cardinality(Owing) - (drops[b] + held) + (drops'[b] + rest)
      /\ Cardinality(Owing) \in Nat /\ Cardinality(Owing') \in Nat
  <2> DEFINE old == drops[b] + held
             new == drops'[b] + rest
  <2>1. old \in Nat /\ new \in Nat
    <3>1. drops[b] \in Nat /\ drops'[b] \in Nat /\ held \in Nat /\ rest \in Nat
      BY <1>6, <1>a, <1>b
    <3> QED BY ONLY <3>1
  <2>2. /\ Owed(stage[b], drops[b], intake[b], speakers[b]) = old
        /\ Owed(stage'[b], drops'[b], intake'[b], speakers'[b]) = new
    BY <1>6
  <2>3. IsFiniteSet(Owing)
    BY <1>0 DEF CounterTypes
  <2>4. Aside(b)
    BY <1>1 DEF OnlyAt, Aside
  <2> HIDE DEF old, new
  <2>5. IsFiniteSet(Owing') /\ Cardinality(Owing') = Cardinality(Owing) - old + new
    BY <2>1, <2>2, <2>3, <2>4, OwedChange
  <2>6. Cardinality(Owing) \in Nat /\ Cardinality(Owing') \in Nat
    BY <2>3, <2>5, FS_CardinalityType
  <2> QED BY <2>5, <2>6 DEF old, new
<1>8. CounterTypes'
  <2>1. ASSUME NEW c \in Bridge
        PROVE  (stage'[c] = "none" => drops'[c] = 0) /\ IsFiniteSet(Columns(speakers'[c]))
    <3>1. CASE c = b
      BY <3>1, <1>1
    <3>2. CASE c # b
      BY <3>2, <1>0, <1>1 DEF OnlyAt, CounterTypes
    <3> QED BY <3>1, <3>2
  <2>2. extra' \in Nat
    BY <1>0 DEF CounterTypes
  <2> QED BY <2>1, <2>2, <1>0, <1>7 DEF CounterTypes, Columns
<1>9. Balanced'
  <2> DEFINE o == Cardinality(Owing)
             n == Cardinality(Owing')
             d == drops[b]
             e == drops'[b]
             todo == Len(add.todo)
             dec == decoded'
             dis == discarded'
  <2>1. /\ offered + extra = decoded + discarded + stats + todo + o
        /\ n = o - (d + held) + (e + rest) /\ o \in Nat /\ n \in Nat /\ d \in Nat /\ e \in Nat
        /\ dec + dis + e + rest = decoded + discarded + d + held + u
        /\ todo \in Nat /\ decoded \in Nat /\ discarded \in Nat /\ stats \in Nat /\ offered \in Nat
        /\ extra \in Nat
    BY <1>0, <1>6, <1>7, <1>c DEF Balanced, CounterTypes, HandOverTypes
  <2>2. offered' = offered /\ stats' = stats /\ Len(add'.todo) = todo
    OBVIOUS
  <2> HIDE DEF o, n, d, e, todo, dec, dis
  <2>3. offered + (extra + u) = dec + dis + stats + todo + n
    <3>1. dec \in Nat /\ dis \in Nat /\ held \in Nat /\ rest \in Nat
      BY <1>a, <1>b DEF dec, dis
    <3> QED BY ONLY <2>1, <3>1
  <2> QED BY <2>2, <2>3 DEF Balanced, n, dec, dis
<1> QED BY <1>2, <1>3, <1>4, <1>5, <1>8, <1>9 DEF AudioInv

\* A step of the goroutine of bridge b that counts packets only keeps the invariant (run, mixFrame).
LEMMA WorkStep ==
  ASSUME Audio!AudioAssumption, AudioInv, NEW b \in Bridge,
         NEW w \in {"select", "drain", "mix", "done"}, stage[b] \in {"select", "drain", "mix"},
         w = "done" => b \in closed /\ intake'[b] = <<>> /\ speakers'[b] = <<>>,
         stage' = [stage EXCEPT ![b] = w],
         UNCHANGED <<made, live, closed, add, newest, stats, offered, extra>>,
         SpeakerTypes', intake' \in [Bridge -> Seq(Packet)], drops' \in [Bridge -> Nat],
         OnlyAt(b), Orderly(b), IsFiniteSet(Columns(speakers'[b])),
         decoded' \in Nat, discarded' \in Nat,
         decoded' + discarded' + drops'[b] + Waits(intake'[b], speakers'[b])
           = decoded + discarded + drops[b] + Waits(intake[b], speakers[b])
  PROVE  AudioInv'
<1>1. extra \in Nat
  BY DEF AudioInv, CounterTypes
<1>2. 0 \in Nat /\ extra' = extra + 0
  BY <1>1
<1>3. decoded' + discarded' + drops'[b] + Waits(intake'[b], speakers'[b])
        = decoded + discarded + drops[b] + Waits(intake[b], speakers[b]) + 0
  <2>1. /\ decoded \in Nat /\ discarded \in Nat /\ drops[b] \in Nat
        /\ Waits(intake[b], speakers[b]) \in Nat
    BY WaitsIsNat DEF AudioInv, CounterTypes
  <2> QED BY <2>1
<1> QED BY <1>2, <1>3, CountingStep

\* A step of the goroutine that leaves its packets and speakers alone (run, mixFrame).
LEMMA RestsKeep ==
  ASSUME AudioInv, NEW b \in Bridge, UNCHANGED <<intake, speakers, drops>>
  PROVE  /\ SpeakerTypes' /\ intake' \in [Bridge -> Seq(Packet)] /\ drops' \in [Bridge -> Nat]
         /\ OnlyAt(b) /\ Orderly(b) /\ IsFiniteSet(Columns(speakers'[b]))
         /\ Waits(intake'[b], speakers'[b]) = Waits(intake[b], speakers[b])
         /\ drops'[b] = drops[b]
<1>0. SpeakerTypes /\ HandOverTypes /\ Sequenced /\ CounterTypes
  BY DEF AudioInv
<1>1. SpeakerTypes'
  BY <1>0 DEF SpeakerTypes
<1>2. \A t : Audio!Held(b, t)' = Audio!Held(b, t)
  BY DEF Audio!Held, Audio!ToSet
<1>3. Orderly(b)
  BY <1>0, <1>2 DEF Orderly, Sequenced
<1> QED BY <1>0, <1>1, <1>3 DEF OnlyAt, HandOverTypes, CounterTypes

\* run: a packet is taken, the timer fires, the frame is sent.
LEMMA TakesKeeps ==
  ASSUME Audio!AudioAssumption, AudioInv, NEW b \in Bridge, Audio!BridgeTakes(b)
  PROVE  AudioInv' /\ OnlyAt(b) /\ Orderly(b)
<1> DEFINE held == Waits(intake[b], speakers[b])
           rest == Waits(intake'[b], speakers'[b])
<1>0. SpeakerTypes /\ HandOverTypes /\ Sequenced /\ CounterTypes /\ BridgeStages
  BY DEF AudioInv
<1>1. /\ SpeakerTypes' /\ intake' \in [Bridge -> Seq(Packet)] /\ drops' \in [Bridge -> Nat]
      /\ OnlyAt(b) /\ Tracks(b) /\ IsFiniteSet(Columns(speakers'[b]))
      /\ drops'[b] + rest = drops[b] + held
  BY <1>0, Takes
<1>2. Orderly(b)
  <2>1. ASSUME NEW t \in DOMAIN speakers'[b]
        PROVE  Follows(speakers'[b][t])
    <3>1. CASE /\ t \in DOMAIN speakers[b]
               /\ speakers'[b][t].last = speakers[b][t].last
               /\ speakers'[b][t].hasSequence = speakers[b][t].hasSequence
               /\ speakers'[b][t].expected = speakers[b][t].expected
      BY <3>1, <1>0 DEF Sequenced, Follows
    <3>2. CASE Follows(speakers'[b][t]) /\ speakers'[b][t].last = 0
      BY <3>2
    <3> QED BY <1>1, <3>1, <3>2 DEF Tracks
  <2> QED BY <2>1, <1>1 DEF Orderly, Tracks
<1>3. /\ UNCHANGED <<made, live, closed, add, newest, stats, offered, decoded, discarded, extra>>
      /\ stage[b] \in {"select", "drain", "mix"} /\ stage[b] # "done"
      /\ stage' = [stage EXCEPT ![b] = stage[b]]
  <2>1. /\ UNCHANGED <<made, live, closed, add, newest, stats, offered, decoded, discarded,
                       extra, stage>>
        /\ stage[b] \in {"select", "drain"}
    BY DEF Audio!BridgeTakes, Audio!managerVars, Audio!history
  <2>2. DOMAIN stage = Bridge /\ stage = [c \in Bridge |-> stage[c]]
    BY <1>0 DEF BridgeStages
  <2>3. stage = [stage EXCEPT ![b] = stage[b]]
    BY <2>2
  <2> QED BY <2>1, <2>3
<1>4. held \in Nat /\ drops[b] \in Nat /\ drops'[b] \in Nat /\ rest \in Nat
  <2>1. Len(intake'[b]) \in Nat /\ drops'[b] \in Nat
    <3>1. intake' \in [Bridge -> Seq(Packet)] /\ drops' \in [Bridge -> Nat]
      BY <1>1
    <3> QED BY <3>1
  <2>2. Cardinality(Columns(speakers'[b])) \in Nat
    BY <1>1, FS_CardinalityType
  <2>3. rest \in Nat
    BY <2>1, <2>2 DEF Waits
  <2> QED BY <2>1, <2>3, WaitsIsNat
<1>5. /\ decoded' \in Nat /\ discarded' \in Nat
      /\ decoded' + discarded' + drops'[b] + rest = decoded + discarded + drops[b] + held
  <2> DEFINE d == drops[b]
             e == drops'[b]
  <2>1. d \in Nat /\ e \in Nat /\ e + rest = d + held /\ decoded \in Nat /\ discarded \in Nat
        /\ held \in Nat /\ rest \in Nat /\ decoded' = decoded /\ discarded' = discarded
    BY <1>0, <1>1, <1>3, <1>4 DEF CounterTypes
  <2> HIDE DEF d, e, held, rest
  <2>2. decoded + discarded + e + rest = decoded + discarded + d + held
    BY ONLY <2>1
  <2> QED BY <2>1, <2>2 DEF d, e
<1> DEFINE w == stage[b]
<1>6. w \in {"select", "drain", "mix", "done"} /\ w # "done" /\ stage' = [stage EXCEPT ![b] = w]
  BY <1>3
<1> HIDE DEF w
<1>7. AudioInv'
  BY <1>1, <1>2, <1>3, <1>5, <1>6, WorkStep
<1> QED BY <1>1, <1>2, <1>7

\* run, mixFrame: the timer fires, the frame is sent.
LEMMA TicksKeeps ==
  ASSUME Audio!AudioAssumption, AudioInv, NEW b \in Bridge,
         Audio!BridgeTicks(b) \/ Audio!BridgeEmits(b)
  PROVE  AudioInv' /\ OnlyAt(b) /\ Orderly(b)
<1>0. CounterTypes
  BY DEF AudioInv
<1>1. PICK w \in {"select", "drain", "mix", "done"} :
        /\ w # "done" /\ stage[b] \in {"select", "drain", "mix"}
        /\ stage' = [stage EXCEPT ![b] = w]
        /\ UNCHANGED <<made, live, closed, add, newest, stats, offered, decoded, discarded, extra,
                       intake, speakers, drops>>
  BY DEF Audio!BridgeTicks, Audio!BridgeEmits, Audio!managerVars, Audio!history
<1>2. /\ SpeakerTypes' /\ intake' \in [Bridge -> Seq(Packet)] /\ drops' \in [Bridge -> Nat]
      /\ OnlyAt(b) /\ Orderly(b) /\ IsFiniteSet(Columns(speakers'[b]))
  BY <1>1, RestsKeep
<1>3. decoded' + discarded' + drops'[b] + Waits(intake'[b], speakers'[b])
        = decoded + discarded + drops[b] + Waits(intake[b], speakers[b])
      /\ decoded' \in Nat /\ discarded' \in Nat
  BY <1>0, <1>1 DEF CounterTypes
<1>4. AudioInv'
  BY <1>1, <1>2, <1>3, WorkStep
<1> QED BY <1>2, <1>4

\* evictIdleSpeakers: a speaker that leaves has nothing left.
LEMMA DrainedKeeps ==
  ASSUME Audio!AudioAssumption, AudioInv, NEW b \in Bridge, Audio!BridgeDrained(b)
  PROVE  AudioInv' /\ OnlyAt(b) /\ Orderly(b)
<1>0. SpeakerTypes /\ HandOverTypes /\ Sequenced /\ CounterTypes
  BY DEF AudioInv
<1>1. PICK gone \in SUBSET DOMAIN speakers[b] :
        /\ Audio!Evicted(b, gone)
        /\ speakers' = [speakers EXCEPT ![b] = Audio!Without(@, gone)]
  BY DEF Audio!BridgeDrained
<1> DEFINE h == Audio!Without(speakers[b], gone)
<1>2. /\ DOMAIN h = DOMAIN speakers[b] \ gone
      /\ \A s \in DOMAIN h : h[s] = speakers[b][s]
      /\ \A s \in gone : speakers[b][s].queue = <<>>
      /\ speakers' = [speakers EXCEPT ![b] = h]
  BY <1>1 DEF Audio!Without, Audio!Evicted
<1> HIDE DEF h
<1>3. /\ SpeakerTypes' /\ speakers'[b] = h
      /\ \A c \in Bridge \ {b} : speakers'[c] = speakers[c]
  <2>1. DOMAIN h \subseteq Audio!Speaker /\ \A s \in DOMAIN h : h[s] \in SpeakerState
    BY <1>0, <1>2 DEF SpeakerTypes
  <2> QED BY <1>0, <1>2, <2>1, SpeakersAt
<1>4. /\ UNCHANGED <<made, live, closed, add, newest, stats, offered, decoded, discarded, extra,
                     intake, drops>>
      /\ stage[b] = "drain" /\ stage' = [stage EXCEPT ![b] = "mix"]
  BY DEF Audio!BridgeDrained, Audio!managerVars, Audio!history
<1>5. OnlyAt(b)
  BY <1>3, <1>4 DEF OnlyAt
<1>6. Orderly(b)
  <2>1. ASSUME NEW t, NEW n \in Audio!Held(b, t)' PROVE n \in Audio!Held(b, t)
    BY <1>2, <1>3, <1>4, HeldIs, HeldBecomes
  <2>2. \A t \in DOMAIN speakers'[b] :
          t \in DOMAIN speakers[b] /\ speakers'[b][t] = speakers[b][t]
    BY <1>2, <1>3
  <2> QED BY <1>0, <2>1, <2>2 DEF Orderly, Sequenced
<1>7. Columns(h) = Columns(speakers[b])
  BY <1>2 DEF Columns
<1>8. /\ IsFiniteSet(Columns(speakers'[b]))
      /\ Waits(intake'[b], speakers'[b]) = Waits(intake[b], speakers[b])
  BY <1>0, <1>3, <1>4, <1>7 DEF CounterTypes, Waits
<1>9. decoded' + discarded' + drops'[b] + Waits(intake'[b], speakers'[b])
        = decoded + discarded + drops[b] + Waits(intake[b], speakers[b])
      /\ decoded' \in Nat /\ discarded' \in Nat
  BY <1>0, <1>4, <1>8 DEF CounterTypes
<1>10. intake' \in [Bridge -> Seq(Packet)] /\ drops' \in [Bridge -> Nat]
  BY <1>0, <1>4 DEF HandOverTypes, CounterTypes
<1>11. AudioInv'
  BY <1>3, <1>4, <1>5, <1>6, <1>8, <1>9, <1>10, WorkStep
<1> QED BY <1>5, <1>6, <1>11

\* A speaker whose packet is decoded has heard no later one from the same decoder
\* (nextSpeakerFrame).
HeardOn ==
  \A b \in Bridge :
    \A s \in DOMAIN speakers[b] \cap DOMAIN speakers'[b] :
      /\ decoded' # decoded /\ speakers'[b][s] # speakers[b][s]
      /\ speakers[b][s].last # 0
      => speakers'[b][s].last > speakers[b][s].last

\* nextSpeakerFrame: what leaves the queue is decoded or counted, and in order.
LEMMA DecodesKeeps ==
  ASSUME Audio!AudioAssumption, AudioInv, NEW b \in Bridge, NEW s \in DOMAIN speakers[b],
         Audio!BridgeDecodes(b, s)
  PROVE  AudioInv' /\ HeardOn
<1> DEFINE x == speakers[b][s]
<1>0. SpeakerTypes /\ HandOverTypes /\ CounterTypes /\ Near /\ Sequenced
  BY DEF AudioInv
<1>1. PICK y \in SpeakerState, k \in Nat, e \in Nat, u \in Nat :
           /\ Becomes(b, s, y, k + u) /\ decoded' = decoded + e /\ extra' = extra + u
           /\ e # 0 => y.last > x.last
           /\ Len(y.queue) \in Nat /\ Len(x.queue) \in Nat
           /\ e + k + Len(y.queue) = Len(x.queue)
  BY <1>0, DecodesOne
<1>2. /\ UNCHANGED <<made, live, closed, add, newest, stats, offered, discarded, intake, stage>>
      /\ stage[b] = "mix" /\ stage' = [stage EXCEPT ![b] = "mix"]
  BY DEF Audio!BridgeDecodes, Audio!managerVars, AudioInv, BridgeStages
<1>3. /\ SpeakerTypes' /\ intake' \in [Bridge -> Seq(Packet)] /\ drops' \in [Bridge -> Nat]
      /\ OnlyAt(b) /\ Orderly(b) /\ IsFiniteSet(Columns(speakers'[b]))
      /\ drops'[b] = drops[b] + (k + u) /\ Waits(intake[b], speakers[b]) \in Nat
      /\ Waits(intake'[b], speakers'[b])
           = Waits(intake[b], speakers[b]) - Len(x.queue) + Len(y.queue)
  <2>1. Becomes(b, s, y, k + u) /\ UNCHANGED intake /\ k + u \in Nat
    BY <1>1, <1>2
  <2> QED BY <1>0, <2>1, SpeakerBecomes
<1>4. /\ decoded' \in Nat /\ discarded' \in Nat
      /\ decoded' + discarded' + drops'[b] + Waits(intake'[b], speakers'[b])
           = decoded + discarded + drops[b] + Waits(intake[b], speakers[b]) + u
  <2> DEFINE d == drops[b]
             n == drops'[b]
             held == Waits(intake[b], speakers[b])
             rest == Waits(intake'[b], speakers'[b])
             l == Len(x.queue)
             m == Len(y.queue)
  <2>1. /\ d \in Nat /\ n = d + (k + u) /\ held \in Nat /\ rest = held - l + m
        /\ l \in Nat /\ m \in Nat /\ e + k + m = l
        /\ decoded \in Nat /\ discarded \in Nat /\ decoded' = decoded + e /\ discarded' = discarded
    BY <1>0, <1>1, <1>2, <1>3 DEF CounterTypes
  <2> HIDE DEF d, n, held, rest, l, m
  <2>2. /\ decoded' \in Nat /\ discarded' \in Nat
        /\ decoded' + discarded' + n + rest = decoded + discarded + d + held + u
    BY <2>1
  <2> QED BY <2>2 DEF d, n, held, rest
<1>5. HeardOn
  <2> SUFFICES ASSUME NEW c \in Bridge, NEW t \in DOMAIN speakers[c] \cap DOMAIN speakers'[c],
                      decoded' # decoded, speakers'[c][t] # speakers[c][t]
               PROVE  speakers'[c][t].last > speakers[c][t].last
    BY DEF HeardOn
  <2>1. speakers' = [speakers EXCEPT ![b][s] = y] /\ DOMAIN speakers = Bridge
    BY <1>0, <1>1 DEF Becomes, SpeakerTypes
  <2>2. c = b /\ t = s /\ speakers'[c][t] = y
    BY <2>1
  <2>3. e # 0
    BY <1>0, <1>1 DEF CounterTypes
  <2> QED BY <1>1, <2>2, <2>3
<1> HIDE DEF x
<1>6. extra' = extra + u /\ 0 \in Nat
  BY <1>1
<1>7. AudioInv'
  BY <1>2, <1>3, <1>4, <1>6, CountingStep
<1> QED BY <1>5, <1>7

\* mixFrame: a speaker contributes a frame.
LEMMA MixesKeeps ==
  ASSUME Audio!AudioAssumption, AudioInv, NEW b \in Bridge, NEW s \in DOMAIN speakers[b],
         Audio!BridgeMixes(b, s)
  PROVE  AudioInv' /\ OnlyAt(b) /\ Orderly(b)
<1> DEFINE x == speakers[b][s]
           y == [x EXCEPT !.pcm = IF @ < Frame THEN 0 ELSE @ - Frame]
<1>0. SpeakerTypes /\ HandOverTypes /\ CounterTypes /\ Sequenced
  BY DEF AudioInv
<1>1. x \in SpeakerState /\ Follows(x)
  BY <1>0 DEF SpeakerTypes, Sequenced
<1>2. speakers' = [speakers EXCEPT ![b][s] = y]
  BY DEF Audio!BridgeMixes, Audio!AfterFrame
<1>3. /\ UNCHANGED <<made, live, closed, add, newest, stats, offered, decoded, discarded, extra,
                     intake, stage, drops>>
      /\ stage[b] = "mix" /\ stage' = [stage EXCEPT ![b] = "mix"]
  BY DEF Audio!BridgeMixes, Audio!managerVars, Audio!history, AudioInv, BridgeStages
<1> HIDE DEF x
<1>4. /\ y \in SpeakerState /\ Follows(y) /\ y.queue = x.queue /\ y.last = x.last
  <2>1. 0 < Backlog /\ Backlog \in Int /\ Frame \in Nat \ {0}
    <3>1. Frame \in Nat \ {0} /\ MaxConceal * Frame \in Nat /\ PacketSamples \in Nat
      BY DEF Audio!AudioAssumption
    <3> QED BY <3>1 DEF Backlog
  <2>2. /\ y.queue = x.queue /\ y.last = x.last /\ y.hasSequence = x.hasSequence
        /\ y.expected = x.expected /\ y.pcm = IF x.pcm < Frame THEN 0 ELSE x.pcm - Frame
    BY <1>1 DEF SpeakerState
  <2>3. y.pcm \in {n \in Int : n < Backlog}
    BY <1>1, <2>1, <2>2 DEF SpeakerState
  <2>4. y \in SpeakerState
    BY <1>1, <2>2, <2>3 DEF SpeakerState
  <2> QED BY <1>1, <2>2, <2>4 DEF Follows
<1> HIDE DEF y
<1>5. Becomes(b, s, y, 0)
  <2>1. drops' = [drops EXCEPT ![b] = @ + 0]
    BY <1>0, <1>3 DEF CounterTypes
  <2> QED BY <1>2, <1>4, <2>1 DEF Becomes, x
<1>6. /\ SpeakerTypes' /\ intake' \in [Bridge -> Seq(Packet)] /\ drops' \in [Bridge -> Nat]
      /\ OnlyAt(b) /\ Orderly(b) /\ IsFiniteSet(Columns(speakers'[b]))
      /\ drops'[b] = drops[b] + 0 /\ Waits(intake[b], speakers[b]) \in Nat
      /\ Waits(intake'[b], speakers'[b])
           = Waits(intake[b], speakers[b]) - Len(speakers[b][s].queue) + Len(y.queue)
  BY <1>0, <1>3, <1>4, <1>5, SpeakerBecomes DEF x
<1>7. Waits(intake'[b], speakers'[b]) = Waits(intake[b], speakers[b])
  <2>1. Len(speakers[b][s].queue) = Len(y.queue) /\ Len(y.queue) \in Nat
    BY <1>1, <1>4 DEF x, SpeakerState
  <2> QED BY <1>6, <2>1
<1>8. decoded' + discarded' + drops'[b] + Waits(intake'[b], speakers'[b])
        = decoded + discarded + drops[b] + Waits(intake[b], speakers[b])
      /\ decoded' \in Nat /\ discarded' \in Nat
  BY <1>0, <1>3, <1>7 DEF CounterTypes
<1>9. AudioInv'
  BY <1>3, <1>6, <1>8, WorkStep
<1> QED BY <1>6, <1>9

\* run returns: what waits is left behind, and counted as such.
LEMMA ExitsKeeps ==
  ASSUME Audio!AudioAssumption, AudioInv, NEW b \in Bridge, Audio!BridgeExits(b)
  PROVE  AudioInv' /\ OnlyAt(b) /\ Orderly(b)
<1>0. SpeakerTypes /\ HandOverTypes /\ CounterTypes /\ Sequenced /\ BridgeStages
  BY DEF AudioInv
<1>1. /\ UNCHANGED <<made, live, closed, add, newest, stats, offered, decoded, extra, drops>>
      /\ stage[b] \in {"select", "drain", "mix"} /\ stage' = [stage EXCEPT ![b] = "done"]
      /\ b \in closed /\ discarded' = discarded + Audio!Waiting(b)
      /\ intake' = [intake EXCEPT ![b] = <<>>] /\ speakers' = [speakers EXCEPT ![b] = <<>>]
  BY DEF Audio!BridgeExits, Audio!managerVars
<1>2. SpeakerTypes' /\ speakers'[b] = <<>> /\ \A c \in Bridge \ {b} : speakers'[c] = speakers[c]
  <2> DEFINE h == <<>>
  <2>1. DOMAIN h = {}
    OBVIOUS
  <2>2. speakers' = [speakers EXCEPT ![b] = h]
    BY <1>1
  <2> HIDE DEF h
  <2>3. SpeakerTypes' /\ speakers'[b] = h /\ \A c \in Bridge \ {b} : speakers'[c] = speakers[c]
    BY <1>0, <2>1, <2>2, SpeakersAt
  <2> QED BY <2>3 DEF h
<1>3. /\ intake' \in [Bridge -> Seq(Packet)] /\ intake'[b] = <<>>
      /\ \A c \in Bridge \ {b} : intake'[c] = intake[c]
  <2>1. <<>> \in Seq(Packet)
    OBVIOUS
  <2> QED BY <1>0, <1>1, <2>1 DEF HandOverTypes
<1>4. OnlyAt(b)
  BY <1>1, <1>2, <1>3 DEF OnlyAt
<1>5. DOMAIN speakers'[b] = {}
  BY <1>2
<1>6. Orderly(b)
  <2>1. ASSUME NEW t, NEW n \in Audio!Held(b, t)' PROVE FALSE
    <3>1. Audio!ToSet(intake'[b]) = {}
      BY <1>3 DEF Audio!ToSet
    <3> QED BY <1>5, <3>1, HeldBecomes
  <2> QED BY <1>5, <2>1 DEF Orderly
<1>7. IsFiniteSet(Columns(speakers'[b])) /\ Waits(intake'[b], speakers'[b]) = 0
  <2>1. IsFiniteSet({})
    BY FS_EmptySet
  <2> QED BY <1>2, <1>3, <2>1, EmptyWaits
<1>8. discarded' = discarded + Waits(intake[b], speakers[b])
  BY <1>1, WaitingIs
<1>9. /\ decoded' \in Nat /\ discarded' \in Nat
      /\ decoded' + discarded' + drops'[b] + Waits(intake'[b], speakers'[b])
           = decoded + discarded + drops[b] + Waits(intake[b], speakers[b])
  <2> DEFINE held == Waits(intake[b], speakers[b])
             rest == Waits(intake'[b], speakers'[b])
             d == drops[b]
             n == drops'[b]
  <2>1. /\ held \in Nat /\ d \in Nat /\ n = d /\ rest = 0 /\ decoded \in Nat /\ discarded \in Nat
        /\ decoded' = decoded /\ discarded' = discarded + held
    BY <1>0, <1>1, <1>7, <1>8, WaitsIsNat DEF CounterTypes
  <2> HIDE DEF held, rest, d, n
  <2>2. /\ decoded' \in Nat /\ discarded' \in Nat
        /\ decoded' + discarded' + n + rest = decoded + discarded + d + held
    BY <2>1
  <2> QED BY <2>2 DEF held, rest, d, n
<1>10. drops' \in [Bridge -> Nat]
  BY <1>0, <1>1 DEF CounterTypes
<1>11. AudioInv'
  BY <1>1, <1>2, <1>3, <1>4, <1>6, <1>7, <1>9, <1>10, WorkStep
<1> QED BY <1>4, <1>6, <1>11

-----------------------------------------------------------------------------
(* The steps that are taken with the manager's mutex.                                            *)

\* The packets of a speaker that are being handed over, before and after a step (enqueue).
LEMMA HandingIs ==
  \A s, k :
    /\ k \in Handing(s) <=> \E q \in Audio!ToSet(add.todo) : q[1] = s /\ k = q[2]
    /\ k \in Handing(s)' <=> \E q \in Audio!ToSet(add'.todo) : q[1] = s /\ k = q[2]
  BY DEF Handing, Audio!ToSet

\* While a packet is handed over, its bridge runs: the mutex keeps StopBridge away (enqueue).
LEMMA LiveRuns ==
  ASSUME Audio!AudioAssumption, AudioInv, add.step # "idle"
  PROVE  /\ live \in Bridge /\ live \notin closed /\ stage[live] \in {"select", "drain", "mix"}
         /\ add.todo \in Seq(Packet) /\ add.todo # <<>> /\ Len(add.todo) \in Nat \ {0}
<1>1. /\ live \in Bridge /\ live \notin closed /\ live <= made /\ live \in Nat /\ made \in Nat
      /\ stage[live] \in {"none", "select", "drain", "mix", "done", "folded"}
      /\ stage[live] = "none" <=> live > made
      /\ stage[live] \in {"done", "folded"} => live \in closed
  BY DEF AudioInv, BridgeStages
<1>2. add.todo \in Seq(Packet) /\ add.todo # <<>>
  BY DEF AudioInv, HandOverTypes
<1> QED BY <1>1, <1>2

\* A step of the hand-over keeps the invariant when every packet goes to the intake of the bridge or
\* to its counters (enqueue).
LEMMA SendStep ==
  ASSUME Audio!AudioAssumption, AudioInv, add.step # "idle",
         UNCHANGED <<made, live, closed, stage, newest, stats, offered, decoded, discarded, extra>>,
         UNCHANGED speakers,
         add' \in [step : {"idle", "try", "drop", "again"}, todo : Seq(Packet)],
         add'.step = "idle" <=> add'.todo = <<>>,
         NEW q \in Seq(Packet), intake' = [intake EXCEPT ![live] = q],
         NEW d \in Nat, drops' = [drops EXCEPT ![live] = d],
         \A p \in Audio!ToSet(q) : p \in Audio!ToSet(intake[live]) \/ p \in Audio!ToSet(add.todo),
         Audio!ToSet(add'.todo) \subseteq Audio!ToSet(add.todo),
         Len(add'.todo) + d + Len(q) = Len(add.todo) + drops[live] + Len(intake[live])
  PROVE  AudioInv'
<1>0. SpeakerTypes /\ HandOverTypes /\ Near /\ Sequenced /\ BridgeStages /\ CounterTypes /\ Balanced
  BY DEF AudioInv
<1>1. live \in Bridge /\ live \notin closed /\ stage[live] \in {"select", "drain", "mix"}
  BY LiveRuns
<1>2. /\ intake' \in [Bridge -> Seq(Packet)] /\ intake'[live] = q
      /\ \A c \in Bridge \ {live} : intake'[c] = intake[c]
      /\ drops' \in [Bridge -> Nat] /\ drops'[live] = d
      /\ \A c \in Bridge \ {live} : drops'[c] = drops[c]
  BY <1>0, <1>1 DEF HandOverTypes, CounterTypes
<1>3. SpeakerTypes'
  BY <1>0 DEF SpeakerTypes
<1>4. HandOverTypes'
  BY <1>0, <1>2 DEF HandOverTypes
<1>5. Near'
  <2>1. ASSUME NEW s, NEW c \in Bridge, NEW k \in (Audio!Held(c, s) \cup Handing(s))'
        PROVE  k \in Audio!Held(c, s) \cup Handing(s)
    <3>1. k \in Handing(s)' => k \in Handing(s)
      BY HandingIs
    <3>2. ASSUME k \in Audio!Held(c, s)', c = live
          PROVE  k \in Audio!Held(c, s) \cup Handing(s)
      <4>1. CASE \E p \in Audio!ToSet(q) : p[1] = s /\ k = p[2]
        BY <3>2, <4>1, HeldIs, HandingIs
      <4>2. CASE /\ s \in DOMAIN speakers'[c]
                 /\ \/ k \in Audio!ToSet(speakers'[c][s].queue)
                    \/ k = speakers'[c][s].last /\ k # 0
        BY <3>2, <4>2, HeldIs
      <4> QED BY <1>2, <3>2, <4>1, <4>2, HeldBecomes
    <3>3. ASSUME k \in Audio!Held(c, s)', c # live
          PROVE  k \in Audio!Held(c, s)
      <4>1. intake'[c] = intake[c] /\ speakers'[c] = speakers[c]
        BY <1>2, <3>3
      <4> QED BY <3>3, <4>1 DEF Audio!Held, Audio!ToSet
    <3> QED BY <3>1, <3>2, <3>3
  <2>2. ASSUME NEW s \in Audio!Speaker, NEW c \in Bridge,
               NEW m \in (Audio!Held(c, s) \cup Handing(s))',
               NEW n \in (Audio!Held(c, s) \cup Handing(s))'
        PROVE  m <= newest'[s] /\ m - n <= Window
    BY <1>0, <2>1, <2>2 DEF Near
  <2> QED BY <2>2 DEF Near, Audio!Speaker
<1>6. Sequenced'
  BY <1>0 DEF Sequenced, Follows
<1>7. BridgeStages'
  <2>1. ASSUME NEW c \in Bridge
        PROVE  stage'[c] \in {"none", "done", "folded"} => intake'[c] = <<>> /\ speakers'[c] = <<>>
    BY <1>0, <1>1, <1>2 DEF BridgeStages
  <2>2. live # 0
    BY <1>1 DEF Audio!AudioAssumption
  <2> QED BY <1>0, <2>1, <2>2 DEF BridgeStages
<1>8. IsFiniteSet(Columns(speakers[live])) /\ IsFiniteSet(Owing)
  BY <1>0, <1>1 DEF CounterTypes
<1> DEFINE c == Cardinality(Columns(speakers[live]))
           i == Len(intake[live])
           j == Len(q)
           e == drops[live]
           m == Len(add.todo)
           n == Len(add'.todo)
           old == e + (i + c)
           new == d + (j + c)
<1>9. /\ c \in Nat /\ i \in Nat /\ j \in Nat /\ e \in Nat /\ m \in Nat /\ n \in Nat
      /\ n + d + j = m + e + i
  BY <1>0, <1>1, <1>8, FS_CardinalityType DEF CounterTypes, HandOverTypes
<1>10. /\ Owed(stage[live], drops[live], intake[live], speakers[live]) = old
       /\ Owed(stage'[live], drops'[live], intake'[live], speakers'[live]) = new
  BY <1>1, <1>2 DEF Owed, Waits
<1>11. Aside(live)
  BY <1>2 DEF Aside
<1> HIDE DEF c, i, j, e, m, n
<1>12. old \in Nat /\ new \in Nat /\ new + n = old + m
  <2>1. d \in Nat
    OBVIOUS
  <2>2. old \in Nat /\ new \in Nat
    BY ONLY <1>9, <2>1
  <2>3. new + n = old + m
    BY ONLY <1>9, <2>1
  <2> QED BY <2>2, <2>3
<1> HIDE DEF old, new
<1>13. IsFiniteSet(Owing') /\ Cardinality(Owing') = Cardinality(Owing) - old + new
  BY <1>1, <1>8, <1>10, <1>11, <1>12, OwedChange
<1>14. Cardinality(Owing) \in Nat /\ Cardinality(Owing') \in Nat
  BY <1>8, <1>13, FS_CardinalityType
<1>15. CounterTypes'
  <2>1. \A a \in Bridge : stage'[a] = "none" => drops'[a] = 0
    BY <1>0, <1>1, <1>2 DEF CounterTypes
  <2>2. \A a \in Bridge : IsFiniteSet(Columns(speakers'[a]))
    BY <1>0 DEF CounterTypes
  <2> QED BY <1>0, <1>2, <1>13, <2>1, <2>2 DEF CounterTypes, Columns
<1>16. Balanced'
  <2> DEFINE o == Cardinality(Owing)
             w == Cardinality(Owing')
  <2>1. /\ offered + extra = decoded + discarded + stats + m + o
        /\ w = o - old + new /\ o \in Nat /\ w \in Nat
        /\ decoded \in Nat /\ discarded \in Nat /\ stats \in Nat /\ offered \in Nat
        /\ extra \in Nat
    BY <1>0, <1>13, <1>14 DEF Balanced, CounterTypes, m
  <2> HIDE DEF o, w
  <2>2. offered + extra = decoded + discarded + stats + n + w
    BY ONLY <1>9, <1>12, <2>1
  <2> QED BY <2>2 DEF Balanced, n, w
<1> QED BY <1>3, <1>4, <1>5, <1>6, <1>7, <1>15, <1>16 DEF AudioInv

\* The packet in hand leaves the batch (enqueue).
LEMMA HandedIs ==
  ASSUME Audio!AudioAssumption, AudioInv, add.step # "idle", Audio!Handed
  PROVE  /\ add' \in [step : {"idle", "try", "drop", "again"}, todo : Seq(Packet)]
         /\ add'.step = "idle" <=> add'.todo = <<>>
         /\ Audio!ToSet(add'.todo) \subseteq Audio!ToSet(add.todo)
         /\ Head(add.todo) \in Packet /\ Head(add.todo) \in Audio!ToSet(add.todo)
         /\ Len(add'.todo) \in Nat /\ Len(add.todo) \in Nat /\ Len(add'.todo) + 1 = Len(add.todo)
<1> DEFINE t == add.todo
<1>1. t \in Seq(Packet) /\ t # <<>>
  BY LiveRuns
<1>2. add' = IF Len(t) = 1 THEN [step |-> "idle", todo |-> <<>>]
                           ELSE [step |-> "try", todo |-> Tail(t)]
  BY DEF Audio!Handed, Audio!Idle
<1> HIDE DEF t
<1>3. /\ Tail(t) \in Seq(Packet) /\ Len(Tail(t)) = Len(t) - 1 /\ Head(t) \in Packet
      /\ Len(t) \in Nat \ {0}
      /\ Audio!ToSet(Tail(t)) \subseteq Audio!ToSet(t) /\ Head(t) \in Audio!ToSet(t)
  BY <1>1, TailIsPart
<1>4. CASE Len(t) = 1
  <2>1. add'.step = "idle" /\ add'.todo = <<>> /\ Len(add'.todo) = 0
    BY <1>2, <1>4
  <2>2. Audio!ToSet(<<>>) = {}
    BY DEF Audio!ToSet
  <2>3. <<>> \in Seq(Packet)
    OBVIOUS
  <2> QED BY <1>2, <1>3, <1>4, <2>1, <2>2, <2>3 DEF t
<1>5. CASE Len(t) # 1
  <2>1. add' = [step |-> "try", todo |-> Tail(t)]
    BY <1>2, <1>5
  <2>2. Tail(t) # <<>>
    <3>1. Len(Tail(t)) # 0
      BY <1>3, <1>5
    <3>2. Len(<<>>) = 0
      OBVIOUS
    <3> QED BY <3>1, <3>2
  <2> QED BY <1>3, <2>1, <2>2 DEF t
<1> QED BY <1>4, <1>5

\* The packet in hand goes to the intake (enqueue).
LEMMA SendsKeeps ==
  ASSUME Audio!AudioAssumption, AudioInv, add.step # "idle", Audio!Handed, Audio!Send(live),
         UNCHANGED <<made, live, closed, stage, newest, stats, offered, decoded, discarded, extra>>,
         UNCHANGED <<speakers, drops>>
  PROVE  AudioInv'
<1>1. /\ add' \in [step : {"idle", "try", "drop", "again"}, todo : Seq(Packet)]
      /\ add'.step = "idle" <=> add'.todo = <<>>
      /\ Audio!ToSet(add'.todo) \subseteq Audio!ToSet(add.todo)
      /\ Head(add.todo) \in Packet /\ Head(add.todo) \in Audio!ToSet(add.todo)
      /\ Len(add'.todo) \in Nat /\ Len(add.todo) \in Nat /\ Len(add'.todo) + 1 = Len(add.todo)
  BY HandedIs
<1>2. live \in Bridge
  BY LiveRuns
<1>3. intake[live] \in Seq(Packet) /\ drops \in [Bridge -> Nat] /\ drops[live] \in Nat
  BY <1>2 DEF AudioInv, HandOverTypes, CounterTypes
<1> DEFINE q == Append(intake[live], Head(add.todo))
           d == drops[live]
<1>4. intake' = [intake EXCEPT ![live] = q] /\ drops' = [drops EXCEPT ![live] = d]
  BY <1>3 DEF Audio!Send
<1>5. /\ q \in Seq(Packet) /\ Len(q) = Len(intake[live]) + 1
      /\ Audio!ToSet(q) = Audio!ToSet(intake[live]) \cup {Head(add.todo)}
  <2> DEFINE h == Head(add.todo)
             r == intake[live]
  <2>1. h \in Packet /\ r \in Seq(Packet)
    BY <1>1, <1>3
  <2> HIDE DEF h, r
  <2>2. /\ Append(r, h) \in Seq(Packet) /\ Len(Append(r, h)) = Len(r) + 1
        /\ Audio!ToSet(Append(r, h)) = Audio!ToSet(r) \cup {h}
    BY <2>1, AppendIsMore
  <2> QED BY <2>2 DEF h, r
<1> HIDE DEF q
<1>6. Len(add'.todo) + d + Len(q) = Len(add.todo) + drops[live] + Len(intake[live])
  <2> DEFINE m == Len(add.todo)
             n == Len(add'.todo)
             i == Len(intake[live])
             j == Len(q)
             e == drops[live]
  <2>1. m \in Nat /\ n \in Nat /\ i \in Nat /\ e \in Nat /\ d = e /\ n + 1 = m /\ j = i + 1
    BY <1>1, <1>3, <1>5
  <2> HIDE DEF m, n, i, j, e, d
  <2>2. n + d + j = m + e + i
    BY ONLY <2>1
  <2> QED BY <2>2 DEF m, n, i, j, e
<1>7. \A p \in Audio!ToSet(q) : p \in Audio!ToSet(intake[live]) \/ p \in Audio!ToSet(add.todo)
  BY <1>1, <1>5
<1>8. d \in Nat /\ d = drops[live]
  BY <1>3
<1> HIDE DEF d
<1> QED BY <1>1, <1>4, <1>5, <1>6, <1>7, <1>8, SendStep

\* enqueue: the channel has room, or is full.
LEMMA TriesKeeps ==
  ASSUME Audio!AudioAssumption, AudioInv, Audio!EnqueueTries
  PROVE  AudioInv'
<1>1. /\ add.step = "try" /\ add.step # "idle"
      /\ UNCHANGED <<made, live, closed, stage, newest, stats, offered, decoded, discarded, extra>>
      /\ UNCHANGED <<speakers, drops>>
  BY DEF Audio!EnqueueTries, Audio!history
<1>2. CASE add' = [add EXCEPT !.step = "drop"] /\ UNCHANGED intake
  <2>1. live \in Bridge /\ add.todo \in Seq(Packet) /\ add.todo # <<>>
    BY <1>1, LiveRuns
  <2>2. intake \in [Bridge -> Seq(Packet)] /\ drops \in [Bridge -> Nat]
        /\ add \in [step : {"idle", "try", "drop", "again"}, todo : Seq(Packet)]
    BY DEF AudioInv, HandOverTypes, CounterTypes
  <2>3. /\ add' \in [step : {"idle", "try", "drop", "again"}, todo : Seq(Packet)]
        /\ add'.todo = add.todo /\ add'.step = "drop"
    BY <1>2, <2>2
  <2> DEFINE q == intake[live]
             d == drops[live]
  <2>4. /\ q \in Seq(Packet) /\ intake' = [intake EXCEPT ![live] = q]
        /\ d \in Nat /\ drops' = [drops EXCEPT ![live] = d]
        /\ q = intake[live] /\ d = drops[live]
    BY <1>1, <1>2, <2>1, <2>2
  <2> HIDE DEF q, d
  <2>5. /\ Audio!ToSet(add'.todo) \subseteq Audio!ToSet(add.todo)
        /\ add'.step = "idle" <=> add'.todo = <<>>
        /\ \A p \in Audio!ToSet(q) :
             p \in Audio!ToSet(intake[live]) \/ p \in Audio!ToSet(add.todo)
        /\ Len(add'.todo) + d + Len(q) = Len(add.todo) + drops[live] + Len(intake[live])
    BY <2>1, <2>3, <2>4
  <2> QED BY <1>1, <2>3, <2>4, <2>5, SendStep
<1>3. CASE Audio!Send(live) /\ Audio!Handed
  BY <1>1, <1>3, SendsKeeps
<1> QED BY <1>2, <1>3 DEF Audio!EnqueueTries

\* enqueue: the oldest packet goes to the counters, unless the goroutine took it meanwhile.
LEMMA DropsKeeps ==
  ASSUME Audio!AudioAssumption, AudioInv, Audio!EnqueueDrops
  PROVE  AudioInv'
<1>1. /\ add.step = "drop" /\ add.step # "idle" /\ add' = [add EXCEPT !.step = "again"]
      /\ Audio!DropsOldest(live)
      /\ UNCHANGED <<made, live, closed, stage, newest, stats, offered, decoded, discarded, extra>>
      /\ UNCHANGED speakers
  BY DEF Audio!EnqueueDrops, Audio!history
<1>2. live \in Bridge /\ add.todo \in Seq(Packet) /\ add.todo # <<>> /\ Len(add.todo) \in Nat
  BY <1>1, LiveRuns
<1>3. intake \in [Bridge -> Seq(Packet)] /\ drops \in [Bridge -> Nat]
      /\ add \in [step : {"idle", "try", "drop", "again"}, todo : Seq(Packet)]
  BY DEF AudioInv, HandOverTypes, CounterTypes
<1>4. /\ add' \in [step : {"idle", "try", "drop", "again"}, todo : Seq(Packet)]
      /\ add'.todo = add.todo /\ add'.step = "again"
  BY <1>1, <1>3
<1> DEFINE q == IF intake[live] = <<>> THEN <<>> ELSE Tail(intake[live])
           d == IF intake[live] = <<>> THEN drops[live] ELSE drops[live] + 1
<1>5. /\ intake' = [intake EXCEPT ![live] = q]
      /\ drops' = [drops EXCEPT ![live] = d]
      /\ d \in Nat
  BY <1>1, <1>2, <1>3 DEF Audio!DropsOldest
<1>6. q \in Seq(Packet) /\ Audio!ToSet(q) \subseteq Audio!ToSet(intake[live])
      /\ d + Len(q) = drops[live] + Len(intake[live])
  <2> DEFINE r == intake[live]
             e == drops[live]
  <2>1. r \in Seq(Packet) /\ e \in Nat
    BY <1>2, <1>3
  <2> HIDE DEF r, e
  <2>2. CASE r = <<>>
    <3>1. q = <<>> /\ d = e
      BY <2>2 DEF r, e
    <3> QED BY <2>1, <2>2, <3>1 DEF r, e
  <2>3. CASE r # <<>>
    <3>1. q = Tail(r) /\ d = e + 1
      BY <2>3 DEF r, e
    <3>2. /\ Tail(r) \in Seq(Packet) /\ Len(Tail(r)) = Len(r) - 1 /\ Len(r) \in Nat
          /\ Audio!ToSet(Tail(r)) \subseteq Audio!ToSet(r)
      BY <2>1, <2>3, TailIsPart
    <3> HIDE DEF q, d
    <3>3. d + Len(q) = e + Len(r)
      BY <2>1, <3>1, <3>2
    <3> QED BY <3>1, <3>2, <3>3 DEF r, e
  <2> QED BY <2>2, <2>3
<1> HIDE DEF q, d
<1>7. /\ Audio!ToSet(add'.todo) \subseteq Audio!ToSet(add.todo)
      /\ add'.step = "idle" <=> add'.todo = <<>>
      /\ \A p \in Audio!ToSet(q) :
           p \in Audio!ToSet(intake[live]) \/ p \in Audio!ToSet(add.todo)
  BY <1>2, <1>4, <1>6
<1>8. Len(add'.todo) + d + Len(q) = Len(add.todo) + drops[live] + Len(intake[live])
  <2> DEFINE r == intake[live]
             e == drops[live]
             m == Len(add.todo)
             i == Len(q)
             j == Len(r)
  <2>1. /\ d + i = e + j /\ Len(add'.todo) = m /\ m \in Nat /\ d \in Nat /\ e \in Nat
        /\ i \in Nat /\ j \in Nat
    BY <1>2, <1>3, <1>4, <1>5, <1>6
  <2> HIDE DEF r, e, m, i, j
  <2>2. m + d + i = m + e + j
    BY ONLY <2>1
  <2> QED BY <2>1, <2>2 DEF r, e, m, i, j
<1> QED BY <1>1, <1>4, <1>5, <1>6, <1>7, <1>8, SendStep

\* enqueue: the packet goes to the intake or to the counters.
LEMMA AgainKeeps ==
  ASSUME Audio!AudioAssumption, AudioInv, Audio!EnqueueTriesAgain
  PROVE  AudioInv'
<1>1. /\ add.step = "again" /\ add.step # "idle" /\ Audio!Handed
      /\ UNCHANGED <<made, live, closed, stage, newest, stats, offered, decoded, discarded, extra>>
      /\ UNCHANGED speakers
  BY DEF Audio!EnqueueTriesAgain, Audio!history
<1>2. CASE Audio!Send(live) /\ UNCHANGED drops
  BY <1>1, <1>2, SendsKeeps
<1>3. CASE drops' = [drops EXCEPT ![live] = @ + 1] /\ UNCHANGED intake
  <2>1. /\ add' \in [step : {"idle", "try", "drop", "again"}, todo : Seq(Packet)]
        /\ add'.step = "idle" <=> add'.todo = <<>>
        /\ Audio!ToSet(add'.todo) \subseteq Audio!ToSet(add.todo)
        /\ Len(add'.todo) \in Nat /\ Len(add.todo) \in Nat /\ Len(add'.todo) + 1 = Len(add.todo)
    BY <1>1, HandedIs
  <2>2. live \in Bridge
    BY <1>1, LiveRuns
  <2>3. intake \in [Bridge -> Seq(Packet)] /\ drops \in [Bridge -> Nat]
    BY DEF AudioInv, HandOverTypes, CounterTypes
  <2> DEFINE q == intake[live]
             d == drops[live] + 1
  <2>4. /\ q \in Seq(Packet) /\ intake' = [intake EXCEPT ![live] = q] /\ q = intake[live]
        /\ d \in Nat /\ drops' = [drops EXCEPT ![live] = d] /\ d = drops[live] + 1
        /\ drops[live] \in Nat /\ Len(q) \in Nat
    BY <1>3, <2>2, <2>3
  <2> HIDE DEF q, d
  <2>5. /\ \A p \in Audio!ToSet(q) :
             p \in Audio!ToSet(intake[live]) \/ p \in Audio!ToSet(add.todo)
    BY <2>4
  <2>6. Len(add'.todo) + d + Len(q) = Len(add.todo) + drops[live] + Len(intake[live])
    <3> DEFINE m == Len(add.todo)
               n == Len(add'.todo)
               i == Len(q)
               e == drops[live]
    <3>1. m \in Nat /\ n \in Nat /\ i \in Nat /\ e \in Nat /\ d = e + 1 /\ n + 1 = m
      BY <2>1, <2>4
    <3> HIDE DEF m, n, i, e
    <3>2. n + d + i = m + e + i
      BY ONLY <3>1
    <3> QED BY <2>4, <3>2 DEF m, n, i, e
  <2> QED BY <1>1, <2>1, <2>4, <2>5, <2>6, SendStep
<1> QED BY <1>2, <1>3 DEF Audio!EnqueueTriesAgain

\* The books balance when all that moves is what Add offers to the bridge (Add, enqueue).
LEMMA BooksStay ==
  ASSUME AudioInv,
         UNCHANGED <<stats, decoded, discarded, extra, intake, speakers, drops>>,
         offered' \in Nat, offered' - Len(add'.todo) = offered - Len(add.todo),
         Len(add'.todo) \in Nat,
         \A c \in Bridge : stage'[c] = "folded" <=> stage[c] = "folded",
         \A c \in Bridge : stage'[c] = "none" => stage[c] = "none"
  PROVE  SpeakerTypes' /\ Sequenced' /\ CounterTypes' /\ Balanced'
<1>0. SpeakerTypes /\ Sequenced /\ CounterTypes /\ Balanced
  BY DEF AudioInv
<1>1. Owing' = Owing
  <2> DEFINE f == [c \in Bridge |-> Owed(stage[c], drops[c], intake[c], speakers[c])]
             g == [c \in Bridge |-> Owed(stage'[c], drops'[c], intake'[c], speakers'[c])]
  <2>1. f = g
    BY DEF Owed
  <2>2. Owing = Cells(f) /\ Owing' = Cells(g)
    BY DEF Owing, Cells, Owed, Waits, Columns
  <2> HIDE DEF f, g
  <2> QED BY <2>1, <2>2
<1>2. SpeakerTypes'
  BY <1>0 DEF SpeakerTypes
<1>3. Sequenced'
  BY <1>0 DEF Sequenced, Follows
<1>4. CounterTypes'
  BY <1>0, <1>1 DEF CounterTypes, Columns
<1>5. Balanced'
  <2> DEFINE m == Len(add.todo)
             n == Len(add'.todo)
             o == Cardinality(Owing)
             f == offered'
  <2>1. /\ offered + extra = decoded + discarded + stats + m + o /\ f - n = offered - m
        /\ m \in Nat /\ n \in Nat /\ f \in Nat /\ offered \in Nat /\ extra \in Nat
        /\ decoded \in Nat /\ discarded \in Nat /\ stats \in Nat
    BY <1>0 DEF Balanced, CounterTypes, AudioInv, HandOverTypes
  <2>2. o \in Nat
    BY <1>0, FS_CardinalityType DEF CounterTypes
  <2> HIDE DEF m, n, o, f
  <2>3. f + extra = decoded + discarded + stats + n + o
    BY ONLY <2>1, <2>2
  <2> QED BY <1>1, <2>3 DEF Balanced, n, o, f
<1> QED BY <1>2, <1>3, <1>4, <1>5

\* What a bridge has or is about to get does not change (StartBridge, StopBridge).
LEMMA NearStays ==
  ASSUME AudioInv, UNCHANGED <<add, newest, intake, speakers>>
  PROVE  Near'
<1>1. \A s, c : Audio!Held(c, s)' = Audio!Held(c, s)
  BY DEF Audio!Held, Audio!ToSet
<1>2. \A s : Handing(s)' = Handing(s)
  BY DEF Handing, Audio!ToSet
<1> QED BY <1>1, <1>2 DEF AudioInv, Near, Audio!Speaker

\* startBridge: the next bridge starts with nothing.
LEMMA StartKeeps ==
  ASSUME Audio!AudioAssumption, AudioInv, NEW b \in Bridge, Audio!StartBridge(b)
  PROVE  AudioInv'
<1>0. HandOverTypes /\ BridgeStages
  BY DEF AudioInv
<1>1. /\ live = 0 /\ b = made + 1 /\ live' = b /\ made' = b /\ add.step = "idle"
      /\ stage' = [stage EXCEPT ![b] = "select"]
      /\ UNCHANGED <<add, closed, stats, intake, speakers, drops, newest, offered, decoded,
                     discarded, extra>>
  BY DEF Audio!StartBridge, Audio!history, Audio!NoBridge, Audio!Unlocked
<1>2. made \in Nat /\ b \in Nat \ {0} /\ b > made
  BY <1>0, <1>1 DEF BridgeStages, Audio!AudioAssumption
<1>3. /\ stage \in [Bridge -> {"none", "select", "drain", "mix", "done", "folded"}]
      /\ stage' \in [Bridge -> {"none", "select", "drain", "mix", "done", "folded"}]
      /\ stage[b] = "none" /\ stage'[b] = "select"
      /\ \A c \in Bridge \ {b} : stage'[c] = stage[c]
  BY <1>0, <1>1, <1>2 DEF BridgeStages
<1>4. SpeakerTypes' /\ Sequenced' /\ CounterTypes' /\ Balanced'
  <2>1. \A c \in Bridge : /\ stage'[c] = "folded" <=> stage[c] = "folded"
                          /\ stage'[c] = "none" => stage[c] = "none"
    BY <1>3
  <2>2. /\ offered' \in Nat /\ offered' - Len(add'.todo) = offered - Len(add.todo)
        /\ Len(add'.todo) \in Nat
    BY <1>0, <1>1 DEF HandOverTypes, AudioInv, CounterTypes
  <2> QED BY <1>1, <2>1, <2>2, BooksStay
<1>5. Near'
  BY <1>1, NearStays
<1>6. HandOverTypes'
  BY <1>0, <1>1 DEF HandOverTypes
<1>7. BridgeStages'
  <2>1. \A c \in closed : c <= made' /\ c # b
    <3>1. ASSUME NEW c \in closed PROVE c <= made /\ c # b
      <4>1. c <= made
        BY <1>0 DEF BridgeStages
      <4> QED BY <4>1, <1>2
    <3>2. ASSUME NEW c \in closed PROVE c <= made'
      <4>1. c <= made
        BY <3>1
      <4>2. c \in Int
        BY <1>0 DEF BridgeStages, Audio!AudioAssumption
      <4> QED BY <4>1, <4>2, <1>1, <1>2
    <3> QED BY <3>1, <3>2
  <2>2. ASSUME NEW c \in Bridge
        PROVE  /\ c <= made' => c = live' \/ c \in closed'
               /\ stage'[c] = "none" <=> c > made'
               /\ stage'[c] \in {"done", "folded"} => c \in closed'
               /\ stage'[c] \in {"none", "done", "folded"}
                    => intake'[c] = <<>> /\ speakers'[c] = <<>>
    <3>1. c \in Nat \ {0}
      BY DEF Audio!AudioAssumption
    <3>2. CASE c = b
      BY <3>2, <1>1, <1>2, <1>3
    <3>3. CASE c # b
      BY <3>1, <3>3, <1>0, <1>1, <1>2, <1>3 DEF BridgeStages
    <3> QED BY <3>2, <3>3
  <2>3. /\ made' \in Nat /\ live' \in Nat /\ live' <= made' /\ live' \in Bridge \ closed'
        /\ closed' \subseteq Bridge /\ add'.step = "idle"
    BY <1>0, <1>1, <1>2, <2>1 DEF BridgeStages
  <2> QED BY <1>1, <1>3, <2>1, <2>2, <2>3 DEF BridgeStages
<1> QED BY <1>4, <1>5, <1>6, <1>7 DEF AudioInv

\* stopBridge: the bridge leaves the map.
LEMMA StopKeeps ==
  ASSUME Audio!AudioAssumption, AudioInv, Audio!StopBridge
  PROVE  AudioInv'
<1>0. HandOverTypes /\ BridgeStages
  BY DEF AudioInv
<1>1. /\ live # 0 /\ live' = 0 /\ closed' = closed \cup {live} /\ add.step = "idle"
      /\ UNCHANGED <<add, made, stats, intake, stage, speakers, drops, newest, offered, decoded,
                     discarded, extra>>
  BY DEF Audio!StopBridge, Audio!history, Audio!bridgeVars, Audio!NoBridge, Audio!Unlocked
<1>2. SpeakerTypes' /\ Sequenced' /\ CounterTypes' /\ Balanced'
  <2>1. /\ offered' \in Nat /\ offered' - Len(add'.todo) = offered - Len(add.todo)
        /\ Len(add'.todo) \in Nat
    BY <1>0, <1>1 DEF HandOverTypes, AudioInv, CounterTypes
  <2> QED BY <1>1, <2>1, BooksStay
<1>3. Near'
  BY <1>1, NearStays
<1>4. HandOverTypes'
  BY <1>0, <1>1 DEF HandOverTypes
<1>5. BridgeStages'
  <2>1. /\ made' \in Nat /\ live' \in Nat /\ live' <= made' /\ live' = 0
        /\ closed' \subseteq Bridge /\ \A c \in closed' : c <= made'
        /\ add'.step = "idle"
    BY <1>0, <1>1 DEF BridgeStages
  <2>2. ASSUME NEW c \in Bridge
        PROVE  /\ c <= made' => c \in closed'
               /\ stage'[c] = "none" <=> c > made'
               /\ stage'[c] \in {"done", "folded"} => c \in closed'
               /\ stage'[c] \in {"none", "done", "folded"}
                    => intake'[c] = <<>> /\ speakers'[c] = <<>>
    BY <1>0, <1>1 DEF BridgeStages
  <2> QED BY <1>0, <1>1, <2>1, <2>2 DEF BridgeStages
<1> QED BY <1>2, <1>3, <1>4, <1>5 DEF AudioInv

\* stopBridge: after <-done the counters of the bridge become the stream's.
LEMMA FoldsKeeps ==
  ASSUME Audio!AudioAssumption, AudioInv, NEW b \in Bridge, Audio!StopFolds(b)
  PROVE  AudioInv'
<1>0. SpeakerTypes /\ Sequenced /\ CounterTypes /\ Balanced /\ HandOverTypes /\ BridgeStages
  BY DEF AudioInv
<1>1. /\ b \in closed /\ stage[b] = "done" /\ stats' = stats + drops[b]
      /\ stage' = [stage EXCEPT ![b] = "folded"]
      /\ UNCHANGED <<add, live, made, closed, intake, speakers, drops, newest, offered, decoded,
                     discarded, extra>>
  BY DEF Audio!StopFolds, Audio!MayFold, Audio!history
<1>2. /\ stage' \in [Bridge -> {"none", "select", "drain", "mix", "done", "folded"}]
      /\ stage'[b] = "folded" /\ \A c \in Bridge \ {b} : stage'[c] = stage[c]
  BY <1>0, <1>1 DEF BridgeStages
<1>3. SpeakerTypes'
  BY <1>0, <1>1 DEF SpeakerTypes
<1>4. Sequenced'
  BY <1>0, <1>1 DEF Sequenced, Follows
<1>5. Near'
  BY <1>1, NearStays
<1>6. HandOverTypes'
  BY <1>0, <1>1 DEF HandOverTypes
<1>7. BridgeStages'
  <2>1. ASSUME NEW c \in Bridge
        PROVE  /\ c <= made' => c = live' \/ c \in closed'
               /\ stage'[c] = "none" <=> c > made'
               /\ stage'[c] \in {"done", "folded"} => c \in closed'
               /\ stage'[c] \in {"none", "done", "folded"}
                    => intake'[c] = <<>> /\ speakers'[c] = <<>>
    <3>1. CASE c = b
      BY <3>1, <1>0, <1>1, <1>2 DEF BridgeStages
    <3>2. CASE c # b
      BY <3>2, <1>0, <1>1, <1>2 DEF BridgeStages
    <3> QED BY <3>1, <3>2
  <2> QED BY <2>1, <1>0, <1>1, <1>2 DEF BridgeStages
<1> DEFINE old == drops[b]
<1>8. Waits(intake[b], speakers[b]) = 0
  <2>1. intake[b] = <<>> /\ speakers[b] = <<>>
    BY <1>0, <1>1 DEF BridgeStages
  <2> QED BY <2>1, EmptyWaits
<1>9. /\ old \in Nat /\ 0 \in Nat
      /\ Owed(stage[b], drops[b], intake[b], speakers[b]) = old
      /\ Owed(stage'[b], drops'[b], intake'[b], speakers'[b]) = 0
  BY <1>0, <1>1, <1>2, <1>8 DEF Owed, CounterTypes
<1>10. Aside(b) /\ IsFiniteSet(Owing)
  BY <1>0, <1>1, <1>2 DEF Aside, CounterTypes
<1> HIDE DEF old
<1>11. IsFiniteSet(Owing') /\ Cardinality(Owing') = Cardinality(Owing) - old + 0
  BY <1>9, <1>10, OwedChange
<1>12. Cardinality(Owing) \in Nat /\ Cardinality(Owing') \in Nat
  BY <1>10, <1>11, FS_CardinalityType
<1>13. stats' = stats + old
  BY <1>1 DEF old
<1>14. CounterTypes'
  <2>1. \A c \in Bridge : stage'[c] = "none" => drops'[c] = 0
    BY <1>0, <1>1, <1>2 DEF CounterTypes
  <2>2. \A c \in Bridge : IsFiniteSet(Columns(speakers'[c]))
    BY <1>0, <1>1 DEF CounterTypes
  <2>3. stats' \in Nat
    BY <1>0, <1>9, <1>13 DEF CounterTypes
  <2> QED BY <1>0, <1>1, <1>11, <2>1, <2>2, <2>3 DEF CounterTypes, Columns
<1>15. Balanced'
  <2> DEFINE o == Cardinality(Owing)
             n == Cardinality(Owing')
             m == Len(add.todo)
             t == stats'
  <2>1. /\ offered + extra = decoded + discarded + stats + m + o
        /\ t = stats + old /\ n = o - old + 0
        /\ o \in Nat /\ n \in Nat /\ m \in Nat /\ old \in Nat
        /\ decoded \in Nat /\ discarded \in Nat /\ stats \in Nat /\ offered \in Nat
        /\ extra \in Nat
    BY <1>0, <1>9, <1>11, <1>12, <1>13 DEF Balanced, CounterTypes, HandOverTypes
  <2> HIDE DEF o, n, m, t
  <2>2. offered + extra = decoded + discarded + t + m + n
    BY ONLY <2>1
  <2> QED BY <1>1, <2>2 DEF Balanced, o, n, m, t
<1> QED BY <1>3, <1>4, <1>5, <1>6, <1>7, <1>14, <1>15 DEF AudioInv

\* The largest of at most three numbers (Newest).
LEMMA MaxIs ==
  ASSUME NEW a \in Nat, NEW x \in Nat, NEW y \in Nat, NEW S, S \subseteq {a, x, y}, a \in S
  PROVE  Audio!Max(S) \in S /\ \A n \in S : n <= Audio!Max(S)
<1>1. \E m \in S : \A n \in S : m >= n
  <2>1. CASE x \in S /\ y \in S
    BY <2>1
  <2>2. CASE x \in S /\ y \notin S
    BY <2>2
  <2>3. CASE x \notin S
    BY <2>3
  <2> QED BY <2>1, <2>2, <2>3
<1>2. Audio!Max(S) \in S /\ \A n \in S : Audio!Max(S) >= n
  BY <1>1 DEF Audio!Max
<1>3. S \subseteq Nat
  OBVIOUS
<1> QED BY <1>2, <1>3

\* The newest packet of a speaker is as new as all of the batch, and as the one before (Add).
LEMMA NewestIs ==
  ASSUME Audio!AudioAssumption, HandOverTypes, NEW batch \in Audio!Batch
  PROVE  /\ batch \in Seq(Packet)
         /\ Audio!Newest(batch) \in [Audio!Speaker -> Nat]
         /\ \A s \in Audio!Speaker : newest[s] <= Audio!Newest(batch)[s]
         /\ \A p \in Audio!ToSet(batch) : /\ p[1] \in Audio!Speaker /\ p[2] \in Nat
                                          /\ p[2] <= Audio!Newest(batch)[p[1]]
<1>1. PICK p \in Packet, r \in Packet :
        Audio!ToSet(batch) \subseteq {p, r} /\ batch \in Seq(Packet)
  <2>1. CASE \E p \in Packet : batch = <<p>>
    <3>1. PICK p \in Packet : batch = <<p>>
      BY <2>1
    <3>2. Audio!ToSet(batch) \subseteq {p} /\ batch \in Seq(Packet)
      BY <3>1 DEF Audio!ToSet
    <3> QED BY <3>2
  <2>2. CASE batch \in Packet \X Packet
    <3>1. PICK p \in Packet, r \in Packet : batch = <<p, r>>
      BY <2>2
    <3>2. Audio!ToSet(batch) \subseteq {p, r} /\ batch \in Seq(Packet)
      BY <3>1 DEF Audio!ToSet
    <3> QED BY <3>2
  <2> QED BY <2>1, <2>2 DEF Audio!Batch
<1>2. p[2] \in Nat /\ r[2] \in Nat
  BY DEF Audio!AudioAssumption
<1> DEFINE S(s) == {newest[s]} \cup {q[2] : q \in {e \in Audio!ToSet(batch) : e[1] = s}}
<1>3. Audio!Newest(batch) = [s \in Audio!Speaker |-> Audio!Max(S(s))]
  BY DEF Audio!Newest
<1>4. ASSUME NEW s \in Audio!Speaker
      PROVE  /\ Audio!Max(S(s)) \in Nat /\ newest[s] <= Audio!Max(S(s))
             /\ \A q \in Audio!ToSet(batch) : q[1] = s => q[2] <= Audio!Max(S(s))
  <2>1. newest[s] \in Nat /\ S(s) \subseteq {newest[s], p[2], r[2]} /\ newest[s] \in S(s)
    BY <1>1 DEF HandOverTypes
  <2> DEFINE T == S(s)
             a == newest[s]
             x == p[2]
             y == r[2]
  <2>2. a \in Nat /\ x \in Nat /\ y \in Nat /\ T \subseteq {a, x, y} /\ a \in T
    BY <1>2, <2>1
  <2>3. \A q \in Audio!ToSet(batch) : q[1] = s => q[2] \in T
    OBVIOUS
  <2> HIDE DEF T, a, x, y
  <2>4. Audio!Max(T) \in T /\ \A n \in T : n <= Audio!Max(T)
    BY <2>2, MaxIs
  <2>5. /\ Audio!Max(T) \in Nat /\ a <= Audio!Max(T)
        /\ \A q \in Audio!ToSet(batch) : q[1] = s => q[2] <= Audio!Max(T)
    BY <2>2, <2>3, <2>4
  <2> QED BY <2>5 DEF T, a
<1> HIDE DEF S
<1>5. \A q \in Audio!ToSet(batch) : q[1] \in Audio!Speaker /\ q[2] \in Nat
  BY <1>1, <1>2 DEF Audio!Speaker
<1> QED BY <1>1, <1>3, <1>4, <1>5

\* What a bridge holds are numbers of packets.
LEMMA HeldAreNumbers ==
  ASSUME Audio!AudioAssumption, SpeakerTypes, HandOverTypes, NEW b \in Bridge, NEW s,
         NEW k \in Audio!Held(b, s)
  PROVE  k \in Nat
<1>1. CASE \E q \in Audio!ToSet(intake[b]) : q[1] = s /\ k = q[2]
  <2>1. PICK q \in Audio!ToSet(intake[b]) : k = q[2]
    BY <1>1
  <2>2. q \in Packet
    <3>1. intake[b] \in Seq(Packet)
      BY DEF HandOverTypes
    <3>2. PICK i \in DOMAIN intake[b] : q = intake[b][i]
      BY DEF Audio!ToSet
    <3> QED BY <3>1, <3>2
  <2> QED BY <2>1, <2>2 DEF Audio!AudioAssumption
<1>2. CASE s \in DOMAIN speakers[b] /\ k \in Audio!ToSet(speakers[b][s].queue)
  <2>1. speakers[b][s].queue \in Seq(Nat \ {0})
    BY <1>2 DEF SpeakerTypes, SpeakerState
  <2> QED BY <1>2, <2>1 DEF Audio!ToSet
<1>3. CASE s \in DOMAIN speakers[b] /\ k = speakers[b][s].last
  BY <1>3 DEF SpeakerTypes, SpeakerState
<1> QED BY <1>1, <1>2, <1>3, HeldIs

\* Add up to the hand-over: the packets of a batch that were not seen are offered to the bridge.
LEMMA AddKeeps ==
  ASSUME Audio!AudioAssumption, AudioInv, NEW batch \in Audio!Batch, Audio!AddAccepts(batch)
  PROVE  AudioInv'
<1>0. SpeakerTypes /\ HandOverTypes /\ Near /\ BridgeStages /\ CounterTypes
  BY DEF AudioInv
<1>1. /\ add.step = "idle" /\ Audio!Sendable(batch) /\ newest' = Audio!Newest(batch)
      /\ UNCHANGED <<live, made, closed, stats, intake, stage, speakers, drops, decoded, discarded,
                     extra>>
  BY DEF Audio!AddAccepts, Audio!Unlocked, Audio!bridgeVars
<1>2. PICK fresh \in Audio!Fresh(batch) :
        \/ /\ live # 0 /\ fresh # <<>>
           /\ add' = [step |-> "try", todo |-> fresh]
           /\ offered' = offered + Len(fresh)
        \/ UNCHANGED <<add, offered>>
  BY DEF Audio!AddAccepts, Audio!NoBridge
<1>3. add.todo = <<>> /\ Len(add.todo) = 0 /\ \A s : Handing(s) = {}
  <2>1. add.todo = <<>>
    BY <1>0, <1>1 DEF HandOverTypes
  <2>2. Audio!ToSet(<<>>) = {}
    BY DEF Audio!ToSet
  <2> QED BY <2>1, <2>2 DEF Handing
<1>4. /\ batch \in Seq(Packet)
      /\ newest' \in [Audio!Speaker -> Nat]
      /\ \A s \in Audio!Speaker : newest[s] <= newest'[s]
      /\ \A p \in Audio!ToSet(batch) : /\ p[1] \in Audio!Speaker /\ p[2] \in Nat
                                       /\ p[2] <= newest'[p[1]]
  BY <1>0, <1>1, NewestIs
<1>5. fresh \in Seq(Packet) /\ Len(fresh) \in Nat /\ Audio!ToSet(fresh) \subseteq Audio!ToSet(batch)
  <2> DEFINE P == {i \in DOMAIN batch : batch[i] \notin seen}
  <2>1. fresh \in Audio!Left(batch, P) /\ P \in SUBSET DOMAIN batch
    BY DEF Audio!Fresh
  <2>2. {batch[i] : i \in P} \subseteq Audio!ToSet(batch)
    BY DEF Audio!ToSet
  <2> HIDE DEF P
  <2>3. fresh \in Seq(Packet) /\ Audio!ToSet(fresh) \subseteq {batch[i] : i \in P}
    BY <1>4, <2>1, LeftIsPart
  <2> QED BY <2>2, <2>3
<1>6. /\ add' \in [step : {"idle", "try", "drop", "again"}, todo : Seq(Packet)]
      /\ add'.step = "idle" <=> add'.todo = <<>>
      /\ add'.step # "idle" => live # 0
      /\ Audio!ToSet(add'.todo) \subseteq Audio!ToSet(batch)
      /\ Len(add'.todo) \in Nat /\ offered' \in Nat
      /\ offered' - Len(add'.todo) = offered - Len(add.todo)
  <2>1. CASE /\ live # 0 /\ fresh # <<>>
             /\ add' = [step |-> "try", todo |-> fresh]
             /\ offered' = offered + Len(fresh)
    <3>1. add'.step = "try" /\ add'.todo = fresh
      BY <2>1
    <3>2. offered \in Nat
      BY <1>0 DEF CounterTypes
    <3> QED BY <1>3, <1>5, <2>1, <3>1, <3>2
  <2>2. CASE UNCHANGED <<add, offered>>
    <3>1. Audio!ToSet(<<>>) = {}
      BY DEF Audio!ToSet
    <3> QED BY <1>0, <1>1, <1>3, <2>2, <3>1 DEF HandOverTypes, CounterTypes
  <2> QED BY <1>2, <2>1, <2>2
<1>7. SpeakerTypes' /\ Sequenced' /\ CounterTypes' /\ Balanced'
  BY <1>1, <1>6, BooksStay
<1>8. HandOverTypes'
  BY <1>0, <1>1, <1>4, <1>6 DEF HandOverTypes
<1>9. BridgeStages'
  BY <1>0, <1>1, <1>6 DEF BridgeStages
<1>10. Near'
  <2>1. ASSUME NEW s, NEW c PROVE Audio!Held(c, s)' = Audio!Held(c, s)
    BY <1>1 DEF Audio!Held, Audio!ToSet
  <2>2. ASSUME NEW s \in Audio!Speaker, NEW c \in Bridge, NEW k \in Audio!Held(c, s)
        PROVE  k \in Nat /\ k <= newest'[s]
    <3>1. k \in Nat
      BY <1>0, HeldAreNumbers
    <3>2. k <= newest[s]
      BY <1>0 DEF Near
    <3>3. newest[s] \in Nat /\ newest'[s] \in Nat /\ newest[s] <= newest'[s]
      BY <1>0, <1>4 DEF HandOverTypes
    <3> QED BY <3>1, <3>2, <3>3
  <2>3. ASSUME NEW s \in Audio!Speaker, NEW k \in Handing(s)'
        PROVE  /\ k \in Nat /\ k <= newest'[s] /\ newest'[s] - k < Window
               /\ \A c \in Bridge : \A n \in Audio!Held(c, s) : k - n <= Window
    <3>1. PICK p \in Audio!ToSet(batch) : p[1] = s /\ k = p[2]
      BY <1>6, HandingIs
    <3> QED BY <1>1, <1>4, <3>1 DEF Audio!Sendable
  <2>4. Window \in Nat /\ \A s \in Audio!Speaker : newest'[s] \in Nat
    BY <1>4 DEF Audio!AudioAssumption
  <2>5. ASSUME NEW s \in Audio!Speaker, NEW c \in Bridge,
               NEW m \in Audio!Held(c, s) \cup Handing(s)',
               NEW n \in Audio!Held(c, s) \cup Handing(s)'
        PROVE  m <= newest'[s] /\ m - n <= Window
    <3>1. m \in Nat /\ n \in Nat /\ m <= newest'[s] /\ n <= newest'[s] /\ newest'[s] \in Nat
      BY <2>2, <2>3, <2>4
    <3>2. CASE n \in Handing(s)'
      <4>1. newest'[s] - n < Window
        BY <2>3, <3>2
      <4> QED BY <2>4, <3>1, <4>1
    <3>3. CASE n \in Audio!Held(c, s) /\ m \in Handing(s)'
      BY <2>3, <3>1, <3>3
    <3>4. CASE n \in Audio!Held(c, s) /\ m \in Audio!Held(c, s)
      BY <1>0, <3>1, <3>4 DEF Near
    <3> QED BY <3>2, <3>3, <3>4
  <2> QED BY <2>1, <2>5 DEF Near, Audio!Speaker
<1> QED BY <1>7, <1>8, <1>9, <1>10 DEF AudioInv

-----------------------------------------------------------------------------
(* The invariant, and what it is for.                                                            *)

\* A stream starts without bridges and with empty books (NewManager).
LEMMA AudioInit == Audio!AudioAssumption /\ Audio!Init => AudioInv
<1> SUFFICES ASSUME Audio!AudioAssumption, Audio!Init PROVE AudioInv
  OBVIOUS
<1>1. /\ add = [step |-> "idle", todo |-> <<>>] /\ live = 0 /\ made = 0 /\ closed = {}
      /\ stats = 0 /\ intake = [b \in Bridge |-> <<>>] /\ stage = [b \in Bridge |-> "none"]
      /\ speakers = [b \in Bridge |-> <<>>] /\ drops = [b \in Bridge |-> 0]
      /\ newest = [s \in Audio!Speaker |-> 0]
      /\ offered = 0 /\ decoded = 0 /\ discarded = 0 /\ extra = 0
  BY DEF Audio!Init, Audio!Idle, Audio!NoBridge
<1>2. DOMAIN <<>> = {} /\ Audio!ToSet(<<>>) = {} /\ Len(<<>>) = 0
  BY DEF Audio!ToSet
<1>3. \A b \in Bridge : intake[b] = <<>> /\ speakers[b] = <<>> /\ drops[b] = 0 /\ stage[b] = "none"
  BY <1>1
<1>4. \A b \in Bridge : DOMAIN speakers[b] = {}
  BY <1>2, <1>3
<1>5. SpeakerTypes /\ Sequenced
  BY <1>1, <1>4 DEF SpeakerTypes, Sequenced
<1>6. HandOverTypes
  <2>1. <<>> \in Seq(Packet)
    OBVIOUS
  <2> QED BY <1>1, <2>1 DEF HandOverTypes
<1>7. Near
  <2>1. ASSUME NEW s, NEW b \in Bridge PROVE Audio!Held(b, s) = {} /\ Handing(s) = {}
    BY <1>1, <1>2, <1>3, <1>4 DEF Audio!Held, Handing
  <2> QED BY <2>1 DEF Near
<1>8. BridgeStages
  BY <1>1, <1>3 DEF BridgeStages, Audio!AudioAssumption
<1>9. \A b \in Bridge : Columns(speakers[b]) = {}
  BY <1>4 DEF Columns
<1>10. IsFiniteSet({}) /\ Cardinality({}) = 0
  BY FS_EmptySet
<1>11. Owing = {}
  <2>1. \A b \in Bridge : Owed(stage[b], drops[b], intake[b], speakers[b]) = 0
    <3>1. Owed("none", 0, <<>>, <<>>) = 0
      BY EmptyWaits DEF Owed
    <3> QED BY <1>3, <3>1
  <2>2. \A n : n \notin 1..0
    OBVIOUS
  <2> QED BY <2>1, <2>2 DEF Owing, Cells
<1>12. CounterTypes
  BY <1>1, <1>3, <1>9, <1>10, <1>11 DEF CounterTypes
<1>13. Balanced
  BY <1>1, <1>2, <1>10, <1>11 DEF Balanced
<1> QED BY <1>5, <1>6, <1>7, <1>8, <1>12, <1>13 DEF AudioInv

\* Every call of Add and StopBridge and every round of a bridge's goroutine keeps the invariant, and
\* lets no speaker be heard again or late.
LEMMA AudioStep ==
  ASSUME Audio!AudioAssumption, AudioInv, [Audio!Next]_Audio!vars
  PROVE  AudioInv' /\ [HeardOn]_<<speakers, decoded>>
<1>1. UNCHANGED decoded => HeardOn
  BY DEF HeardOn
<1>2. ASSUME NEW b \in Bridge, Audio!StartBridge(b) PROVE AudioInv' /\ UNCHANGED decoded
  BY <1>2, StartKeeps DEF Audio!StartBridge, Audio!history
<1>3. ASSUME NEW b \in Bridge, Audio!StopFolds(b) PROVE AudioInv' /\ UNCHANGED decoded
  BY <1>3, FoldsKeeps DEF Audio!StopFolds, Audio!history
<1>4. ASSUME Audio!StopBridge PROVE AudioInv' /\ UNCHANGED decoded
  BY <1>4, StopKeeps DEF Audio!StopBridge, Audio!history
<1>5. ASSUME NEW batch \in Audio!Batch, Audio!AddAccepts(batch)
      PROVE  AudioInv' /\ UNCHANGED decoded
  BY <1>5, AddKeeps DEF Audio!AddAccepts
<1>6. ASSUME Audio!EnqueueTries PROVE AudioInv' /\ UNCHANGED decoded
  BY <1>6, TriesKeeps DEF Audio!EnqueueTries, Audio!history
<1>7. ASSUME Audio!EnqueueDrops PROVE AudioInv' /\ UNCHANGED decoded
  BY <1>7, DropsKeeps DEF Audio!EnqueueDrops, Audio!history
<1>8. ASSUME Audio!EnqueueTriesAgain PROVE AudioInv' /\ UNCHANGED decoded
  BY <1>8, AgainKeeps DEF Audio!EnqueueTriesAgain, Audio!history
<1>9. ASSUME NEW b \in Bridge, Audio!BridgeTakes(b) PROVE AudioInv' /\ UNCHANGED decoded
  BY <1>9, TakesKeeps DEF Audio!BridgeTakes, Audio!history
<1>10. ASSUME NEW b \in Bridge, Audio!BridgeTicks(b) \/ Audio!BridgeEmits(b)
       PROVE  AudioInv' /\ UNCHANGED decoded
  BY <1>10, TicksKeeps DEF Audio!BridgeTicks, Audio!BridgeEmits, Audio!history
<1>11. ASSUME NEW b \in Bridge, Audio!BridgeDrained(b) PROVE AudioInv' /\ UNCHANGED decoded
  BY <1>11, DrainedKeeps DEF Audio!BridgeDrained, Audio!history
<1>12. ASSUME NEW b \in Bridge, Audio!BridgeExits(b) PROVE AudioInv' /\ UNCHANGED decoded
  BY <1>12, ExitsKeeps DEF Audio!BridgeExits
<1>13. ASSUME NEW b \in Bridge, NEW s \in DOMAIN speakers[b], Audio!BridgeDecodes(b, s)
       PROVE  AudioInv' /\ HeardOn
  BY <1>13, DecodesKeeps
<1>14. ASSUME NEW b \in Bridge, NEW s \in DOMAIN speakers[b], Audio!BridgeMixes(b, s)
       PROVE  AudioInv' /\ UNCHANGED decoded
  BY <1>14, MixesKeeps DEF Audio!BridgeMixes, Audio!history
<1>15. ASSUME UNCHANGED Audio!vars PROVE AudioInv' /\ UNCHANGED decoded
  <2> USE DEF Audio!vars, Audio!managerVars, Audio!bridgeVars, Audio!history
  <2>1. UNCHANGED <<add, live, made, closed, stats, intake, stage, speakers, drops, newest,
                    offered, decoded, discarded, extra>>
    BY <1>15
  <2>2. SpeakerTypes' /\ Sequenced' /\ CounterTypes' /\ Balanced'
    <3>1. /\ offered' \in Nat /\ offered' - Len(add'.todo) = offered - Len(add.todo)
          /\ Len(add'.todo) \in Nat
      BY <2>1 DEF HandOverTypes, AudioInv, CounterTypes
    <3> QED BY <2>1, <3>1, BooksStay
  <2>3. Near'
    BY <2>1, NearStays
  <2>4. HandOverTypes' /\ BridgeStages'
    BY <2>1 DEF AudioInv, HandOverTypes, BridgeStages
  <2> QED BY <2>1, <2>2, <2>3, <2>4 DEF AudioInv
<1> QED BY <1>1, <1>2, <1>3, <1>4, <1>5, <1>6, <1>7, <1>8, <1>9, <1>10, <1>11, <1>12, <1>13, <1>14,
           <1>15
        DEF Audio!Next

\* Through every packet, tick, stop and decoding error (Add, enqueue, queueSpeakerPacket,
\* nextSpeakerFrame, stopBridge) what a bridge holds of a speaker stays within a window, its decoder
\* expects what follows the packet it decoded last, and the books balance when the resets and
\* concealments that failed are set against decode_errors_total.
THEOREM AudioInvariant == Audio!AudioAssumption => (Audio!Spec => []AudioInv)
<1> SUFFICES ASSUME Audio!AudioAssumption PROVE Audio!Spec => []AudioInv
  OBVIOUS
<1>1. Audio!Init => AudioInv
  BY AudioInit
<1>2. AudioInv /\ [Audio!Next]_Audio!vars => AudioInv'
  BY AudioStep
<1> QED BY <1>1, <1>2, PTL DEF Audio!Spec

\* What is heard is always less behind than a frame, a longest gap and a longest packet, for any
\* number of speakers, packets and bridges (nextSpeakerFrame).
THEOREM BacklogKept == Audio!AudioAssumption => (Audio!Spec => []BacklogBounded)
<1> SUFFICES ASSUME Audio!AudioAssumption PROVE Audio!Spec => []BacklogBounded
  OBVIOUS
<1>1. AudioInv => BacklogBounded
  BY DEF AudioInv, SpeakerTypes, SpeakerState, Backlog, BacklogBounded
<1> QED BY <1>1, AudioInvariant, PTL

\* As long as a speaker keeps its decoder, each packet that is decoded comes after the one before:
\* in the order of speaking and none twice, not even twice in a row, across the wrap of the
\* sequence number, for queues of any size and any number of packets on their way, as long as a
\* worker sends nothing that is half the range away from what the bridge holds.  A decoder that
\* was reset, or forgotten with its speaker, starts anew (popNextSpeakerPacket).
THEOREM HeardInOrder == Audio!AudioAssumption => (Audio!Spec => PlayedInOrder)
<1> SUFFICES ASSUME Audio!AudioAssumption PROVE Audio!Spec => PlayedInOrder
  OBVIOUS
<1>1. Audio!Init => AudioInv
  BY AudioInit
<1>2. AudioInv /\ [Audio!Next]_Audio!vars => AudioInv' /\ [HeardOn]_<<speakers, decoded>>
  BY AudioStep
<1>3. Audio!Spec => [][HeardOn]_<<speakers, decoded>>
  BY <1>1, <1>2, PTL DEF Audio!Spec
<1> QED BY <1>3 DEF PlayedInOrder, HeardOn

\* What one bridge owes is all there is when the others owe nothing (stopBridge).
LEMMA OneOwes ==
  ASSUME NEW f, NEW x \in DOMAIN f, f[x] \in Nat, \A y \in DOMAIN f : y # x => f[y] = 0
  PROVE  Cardinality(Cells(f)) = f[x]
<1> DEFINE k == f[x]
<1>1. Cells(f) = Grown({}, x, k)
  <2>1. \A n : n \notin 1..0
    OBVIOUS
  <2> QED BY <2>1 DEF Cells, Grown
<1>2. Grown({}, x, 0) = {}
  BY DEF Grown
<1>3. IsFiniteSet(Grown({}, x, 0)) /\ Cardinality(Grown({}, x, 0)) = 0
  BY <1>2, FS_EmptySet
<1>4. \A c \in {} : c[1] # x
  OBVIOUS
<1>5. k \in Nat /\ 0 \in Nat
  OBVIOUS
<1> HIDE DEF k
<1>6. Cardinality(Grown({}, x, k)) = Cardinality(Grown({}, x, 0)) - 0 + k
  BY <1>3, <1>4, <1>5, ColumnChange
<1> QED BY <1>1, <1>3, <1>5, <1>6 DEF k

\* Once every stop has returned, no packet is missing from the books and none is in them twice: the
\* totals of the stream, the counters of its bridge, and what waits.  What the counters hold
\* besides packets is the resets and concealments that failed (Status, stopBridge, enqueue).
THEOREM BooksBalance == Audio!AudioAssumption => (Audio!Spec => []Accounted)
<1> SUFFICES ASSUME Audio!AudioAssumption PROVE Audio!Spec => []Accounted
  OBVIOUS
<1>1. AudioInv => Accounted
  <2> SUFFICES ASSUME AudioInv, \A b \in closed : stage[b] = "folded"
               PROVE  offered + extra = decoded + discarded + Reported + Len(add.todo)
                                          + (IF live = NoBridge THEN 0 ELSE Waiting(live))
    BY DEF Accounted
  <2> DEFINE f == [b \in Bridge |-> Owed(stage[b], drops[b], intake[b], speakers[b])]
             o == Cardinality(Owing)
             m == Len(add.todo)
  <2>1. /\ offered + extra = decoded + discarded + stats + m + o
        /\ o \in Nat /\ m \in Nat /\ decoded \in Nat /\ discarded \in Nat /\ stats \in Nat
        /\ offered + extra \in Int
    BY FS_CardinalityType DEF AudioInv, Balanced, CounterTypes, HandOverTypes
  <2>2. ASSUME NEW b \in Bridge, b # live PROVE f[b] = 0
    <3>1. CASE stage[b] = "folded"
      BY <3>1 DEF Owed
    <3>2. CASE stage[b] # "folded"
      <4>1. b \notin closed
        BY <3>2
      <4>2. b > made
        <5>1. b \in Nat /\ made \in Nat /\ ~(b <= made)
          BY <2>2, <4>1 DEF AudioInv, BridgeStages, Audio!AudioAssumption
        <5> QED BY <5>1
      <4>3. stage[b] = "none" /\ intake[b] = <<>> /\ speakers[b] = <<>> /\ drops[b] = 0
        BY <4>2 DEF AudioInv, BridgeStages, CounterTypes
      <4>4. Waits(intake[b], speakers[b]) = 0
        BY <4>3, EmptyWaits
      <4> QED BY <4>3, <4>4 DEF Owed
    <3> QED BY <3>1, <3>2
  <2>3. Owing = Cells(f) /\ DOMAIN f = Bridge
    BY DEF Owing
  <2>4. CASE live = 0
    <3>1. \A b \in Bridge : f[b] = 0
      BY <2>2, <2>4 DEF Audio!AudioAssumption
    <3>2. Cells(f) = {}
      <4>1. \A n : n \notin 1..0
        OBVIOUS
      <4> HIDE DEF f
      <4> QED BY <2>3, <3>1, <4>1 DEF Cells
    <3>3. o = 0
      BY <2>3, <3>2, FS_EmptySet
    <3>4. Reported = stats
      BY <2>1, <2>4 DEF Reported, NoBridge
    <3> HIDE DEF o, m
    <3>5. offered + extra = decoded + discarded + stats + m + 0
      BY ONLY <2>1, <3>3
    <3> QED BY <2>4, <3>4, <3>5 DEF m, NoBridge
  <2>5. CASE live # 0
    <3> DEFINE w == Waits(intake[live], speakers[live])
               d == drops[live]
               r == Reported
    <3>1. live \in Bridge /\ live \notin closed
      BY <2>5 DEF AudioInv, BridgeStages
    <3>2. w \in Nat /\ d \in Nat
      BY <3>1, WaitsIsNat
    <3>3. stage[live] # "folded"
      BY <3>1 DEF AudioInv, BridgeStages
    <3>4. f[live] = d + w /\ d + w \in Nat
      BY <3>1, <3>2, <3>3 DEF Owed
    <3>5. \A b \in DOMAIN f : b # live => f[b] = 0
      BY <2>2, <2>3
    <3>6. o = d + w
      <4> HIDE DEF f, d, w
      <4>1. Cardinality(Cells(f)) = f[live]
        BY <2>3, <3>1, <3>4, <3>5, OneOwes
      <4> QED BY <2>3, <3>4, <4>1
    <3>7. r = stats + d /\ Waiting(live) = w
      BY <2>5, WaitingIs DEF Reported, NoBridge
    <3> HIDE DEF o, m, w, d, r
    <3>8. offered + extra = decoded + discarded + r + m + w
      BY ONLY <2>1, <3>2, <3>6, <3>7
    <3> QED BY <2>5, <3>7, <3>8 DEF m, r, NoBridge
  <2> QED BY <2>4, <2>5
<1> QED BY <1>1, AudioInvariant, PTL

\* The channel holds no more than it can, and once enqueue has made room, the mutex keeps the
\* room: the goroutine only takes.
Room ==
  /\ \A b \in Bridge : Len(intake[b]) <= QueueSize
  /\ add.step = "again" => Len(intake[live]) < QueueSize

\* One intake gets the value q.
LEMMA RoomAt ==
  ASSUME AudioInv, Room, NEW b \in Bridge, NEW q, intake' = [intake EXCEPT ![b] = q],
         Len(q) <= QueueSize
  PROVE  \A c \in Bridge : Len(intake'[c]) <= QueueSize
<1>1. intake'[b] = q /\ \A c \in Bridge \ {b} : intake'[c] = intake[c]
  BY DEF AudioInv, HandOverTypes
<1> QED BY <1>1 DEF Room

\* Add and the goroutine share the channel: no step of either overfills it, and none but the
\* hand-over takes the room that the dropped packet has left (enqueue).
LEMMA RoomStep ==
  ASSUME Audio!AudioAssumption, AudioInv, Room, [Audio!Next]_Audio!vars
  PROVE  Room'
<1>0. QueueSize \in Nat \ {0} /\ intake \in [Bridge -> Seq(Packet)]
  BY DEF Audio!AudioAssumption, AudioInv, HandOverTypes
<1>1. ASSUME UNCHANGED intake, add'.step # "again" PROVE Room'
  BY <1>1 DEF Room
<1>2. ASSUME UNCHANGED <<intake, add, live>> PROVE Room'
  BY <1>2 DEF Room
<1>3. ASSUME NEW b \in Bridge, UNCHANGED <<add, live>>, NEW q \in Seq(Packet),
             intake' = [intake EXCEPT ![b] = q], Len(q) <= Len(intake[b])
      PROVE  Room'
  <2>1. Len(q) \in Nat /\ Len(intake[b]) \in Nat /\ Len(intake[b]) <= QueueSize
    BY <1>0 DEF Room
  <2>2. Len(q) <= QueueSize
    BY <1>0, <1>3, <2>1
  <2>3. \A c \in Bridge : Len(intake'[c]) <= QueueSize
    BY <1>3, <2>2, RoomAt
  <2>4. ASSUME add'.step = "again" PROVE Len(intake'[live']) < QueueSize
    <3>1. add.step = "again" /\ live' = live
      BY <1>3, <2>4
    <3>2. live \in Bridge /\ Len(intake[live]) < QueueSize
      BY <3>1, LiveRuns DEF Room
    <3>3. CASE live = b
      <4>1. intake'[live] = q
        BY <1>0, <1>3, <3>3
      <4>2. Len(q) < QueueSize
        BY <1>0, <1>3, <2>1, <3>2, <3>3
      <4> QED BY <3>1, <4>1, <4>2
    <3>4. CASE live # b
      <4>1. intake'[live] = intake[live]
        BY <1>0, <1>3, <3>2, <3>4
      <4> QED BY <3>1, <3>2, <4>1
    <3> QED BY <3>3, <3>4
  <2> QED BY <2>3, <2>4 DEF Room
<1>4. ASSUME add.step # "idle", Audio!Handed, Len(intake[live]) < QueueSize, Audio!Send(live)
      PROVE  Room'
  <2>0. live \in Bridge
    BY <1>4, LiveRuns
  <2>1. intake[live] \in Seq(Packet) /\ Len(intake[live]) \in Nat
    BY <1>0, <2>0
  <2>2. Head(add.todo) \in Packet
    BY <1>4, HandedIs
  <2> DEFINE q == Append(intake[live], Head(add.todo))
  <2>3. Len(q) <= QueueSize
    <3>1. Len(q) = Len(intake[live]) + 1
      BY <2>1, <2>2
    <3> QED BY <1>0, <1>4, <2>1, <3>1
  <2>4. intake' = [intake EXCEPT ![live] = q]
    BY <1>4 DEF Audio!Send
  <2> HIDE DEF q
  <2>5. \A c \in Bridge : Len(intake'[c]) <= QueueSize
    BY <2>0, <2>3, <2>4, RoomAt
  <2>6. add'.step # "again"
    BY <1>4 DEF Audio!Handed, Audio!Idle
  <2> QED BY <2>5, <2>6 DEF Room
<1>5. ASSUME Audio!EnqueueTries PROVE Room'
  <2>1. CASE Audio!Full(live)
    <3>1. UNCHANGED intake /\ add' = [add EXCEPT !.step = "drop"]
      BY <1>5, <2>1 DEF Audio!EnqueueTries
    <3>2. add'.step # "again"
      BY <3>1 DEF AudioInv, HandOverTypes
    <3> QED BY <1>1, <3>1, <3>2
  <2>2. CASE ~Audio!Full(live)
    <3>1. add.step # "idle" /\ Audio!Send(live) /\ Audio!Handed
      BY <1>5, <2>2 DEF Audio!EnqueueTries
    <3>2. Len(intake[live]) \in Nat
      BY <1>0, <3>1, LiveRuns
    <3>3. Len(intake[live]) < QueueSize
      BY <1>0, <2>2, <3>2 DEF Audio!Full
    <3> QED BY <1>4, <3>1, <3>3
  <2> QED BY <2>1, <2>2
<1>6. ASSUME Audio!EnqueueDrops PROVE Room'
  <2>1. /\ add.step # "idle" /\ Audio!DropsOldest(live) /\ live' = live
    BY <1>6 DEF Audio!EnqueueDrops
  <2>2. live \in Bridge /\ intake[live] \in Seq(Packet) /\ Len(intake[live]) <= QueueSize
    BY <1>0, <2>1, LiveRuns DEF Room
  <2>3. CASE intake[live] = <<>>
    <3>1. UNCHANGED intake
      BY <2>1, <2>3 DEF Audio!DropsOldest
    <3>2. Len(intake[live]) = 0
      BY <2>3
    <3>3. Len(intake[live]) < QueueSize
      BY <1>0, <3>2
    <3> QED BY <2>1, <3>1, <3>3 DEF Room
  <2>4. CASE intake[live] # <<>>
    <3> DEFINE q == Tail(intake[live])
    <3>1. intake' = [intake EXCEPT ![live] = q]
      BY <2>1, <2>4 DEF Audio!DropsOldest
    <3>2. Len(q) = Len(intake[live]) - 1 /\ Len(intake[live]) \in Nat
      BY <2>2, <2>4
    <3>3. Len(q) < QueueSize /\ Len(q) <= QueueSize
      BY <1>0, <2>2, <3>2
    <3>4. intake'[live] = q
      BY <1>0, <2>2, <3>1
    <3> HIDE DEF q
    <3>5. \A c \in Bridge : Len(intake'[c]) <= QueueSize
      BY <2>2, <3>1, <3>3, RoomAt
    <3> QED BY <2>1, <3>3, <3>4, <3>5 DEF Room
  <2> QED BY <2>3, <2>4
<1>7. ASSUME Audio!EnqueueTriesAgain PROVE Room'
  <2>1. add.step = "again" /\ add.step # "idle" /\ Audio!Handed
    BY <1>7 DEF Audio!EnqueueTriesAgain
  <2>2. Len(intake[live]) < QueueSize
    BY <2>1 DEF Room
  <2>3. Len(intake[live]) \in Nat
    BY <1>0, <2>1, LiveRuns
  <2>4. ~Audio!Full(live)
    BY <1>0, <2>2, <2>3 DEF Audio!Full
  <2>5. Audio!Send(live)
    BY <1>7, <2>4 DEF Audio!EnqueueTriesAgain
  <2> QED BY <1>4, <2>1, <2>2, <2>5
<1>8. ASSUME NEW b \in Bridge, Audio!BridgeTakes(b) PROVE Room'
  <2> DEFINE q == Tail(intake[b])
  <2>1. UNCHANGED <<add, live>> /\ intake' = [intake EXCEPT ![b] = q] /\ intake[b] # <<>>
    BY <1>8 DEF Audio!BridgeTakes, Audio!managerVars
  <2>2. q \in Seq(Packet) /\ Len(q) <= Len(intake[b])
    <3>1. intake[b] \in Seq(Packet)
      BY <1>0
    <3>2. q \in Seq(Packet) /\ Len(q) = Len(intake[b]) - 1 /\ Len(intake[b]) \in Nat
      BY <2>1, <3>1
    <3> QED BY <3>2
  <2> HIDE DEF q
  <2> QED BY <1>3, <2>1, <2>2
<1>9. ASSUME NEW b \in Bridge, Audio!BridgeExits(b) PROVE Room'
  <2> DEFINE q == <<>>
  <2>1. UNCHANGED <<add, live>> /\ intake' = [intake EXCEPT ![b] = q]
    BY <1>9 DEF Audio!BridgeExits, Audio!managerVars
  <2>2. q \in Seq(Packet) /\ Len(q) <= Len(intake[b])
    BY <1>0
  <2> HIDE DEF q
  <2> QED BY <1>3, <2>1, <2>2
<1>10. ASSUME NEW b \in Bridge, Audio!StartBridge(b) PROVE Room'
  BY <1>1, <1>10 DEF Audio!StartBridge, Audio!Unlocked
<1>11. ASSUME Audio!StopBridge PROVE Room'
  BY <1>1, <1>11 DEF Audio!StopBridge, Audio!Unlocked, Audio!bridgeVars
<1>12. ASSUME NEW batch, Audio!AddAccepts(batch) PROVE Room'
  BY <1>1, <1>12 DEF Audio!AddAccepts, Audio!Unlocked, Audio!bridgeVars
<1>13. ASSUME NEW b \in Bridge, Audio!StopFolds(b) PROVE Room'
  BY <1>2, <1>13 DEF Audio!StopFolds
<1>14. ASSUME NEW b \in Bridge,
              Audio!BridgeTicks(b) \/ Audio!BridgeDrained(b) \/ Audio!BridgeEmits(b)
       PROVE  Room'
  BY <1>2, <1>14 DEF Audio!BridgeTicks, Audio!BridgeDrained, Audio!BridgeEmits, Audio!managerVars
<1>15. ASSUME NEW b \in Bridge, NEW s, Audio!BridgeDecodes(b, s) \/ Audio!BridgeMixes(b, s)
       PROVE  Room'
  <2>1. ASSUME Audio!BridgeDecodes(b, s) PROVE UNCHANGED <<intake, add, live>>
    BY <2>1 DEF Audio!BridgeDecodes, Audio!managerVars
  <2>2. ASSUME Audio!BridgeMixes(b, s) PROVE UNCHANGED <<intake, add, live>>
    BY <2>2 DEF Audio!BridgeMixes, Audio!managerVars
  <2> QED BY <1>2, <1>15, <2>1, <2>2
<1>16. CASE UNCHANGED Audio!vars
  BY <1>2, <1>16 DEF Audio!vars, Audio!managerVars, Audio!bridgeVars
<1> QED BY <1>5, <1>6, <1>7, <1>8, <1>9, <1>10, <1>11, <1>12, <1>13, <1>14, <1>15, <1>16
        DEF Audio!Next

\* Once enqueue has dropped the oldest packet, the packet in hand finds room, however Add and the
\* goroutine take turns: of what a worker sends, the newest is never lost to a full channel.
THEOREM NewestPacketKept ==
  Audio!AudioAssumption => (Audio!Spec => [](add.step = "again" => ~Audio!Full(live)))
<1> SUFFICES ASSUME Audio!AudioAssumption
             PROVE  Audio!Spec => [](add.step = "again" => ~Audio!Full(live))
  OBVIOUS
<1>1. Audio!Init => Room
  <2> SUFFICES ASSUME Audio!Init PROVE Room
    OBVIOUS
  <2>1. \A b \in Bridge : Len(intake[b]) = 0
    BY DEF Audio!Init
  <2>2. add.step # "again"
    BY DEF Audio!Init, Audio!Idle
  <2> QED BY <2>1, <2>2 DEF Room, Audio!AudioAssumption
<1>2. AudioInv /\ Room /\ [Audio!Next]_Audio!vars => Room'
  BY RoomStep
<1>3. AudioInv /\ Room => (add.step = "again" => ~Audio!Full(live))
  <2> SUFFICES ASSUME AudioInv, Room, add.step = "again" PROVE ~Audio!Full(live)
    OBVIOUS
  <2>1. live \in Bridge /\ Len(intake[live]) < QueueSize
    BY LiveRuns DEF Room
  <2>2. Len(intake[live]) \in Nat /\ QueueSize \in Nat
    BY <2>1 DEF AudioInv, HandOverTypes, Audio!AudioAssumption
  <2> QED BY <2>1, <2>2 DEF Audio!Full
<1> QED BY <1>1, <1>2, <1>3, AudioInvariant, PTL DEF Audio!Spec
=============================================================================
