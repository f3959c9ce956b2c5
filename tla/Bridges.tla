------------------------------ MODULE Bridges -------------------------------
(***************************************************************************)
(* The media bridges of one stream (internal/videoingest/manager.go, the   *)
(* map of internal/audioingest/manager.go) and the handlers that open and  *)
(* close them (internal/httpapi: start preparations, direct starts,        *)
(* stops).  A start owns the bridges it opened; both managers find them by *)
(* the stream's id, and the video manager has one at a time, on one port.  *)
(*                                                                         *)
(* Of the process slot (ProcessSlot) the owner, its status and whether it  *)
(* is being cleaned up are kept, and the goroutine that waits for each     *)
(* child: what it closes, and when it gives the slot back.  The frames a   *)
(* publisher sends are numbered.                                           *)
(***************************************************************************)
EXTENDS Naturals, FiniteSets, Sequences

CONSTANTS
  Staged,      \* start preparations, with a video and an audio bridge
  Direct,      \* direct starts, with an audio bridge
  Stop,        \* stop requests
  MaxFrames,   \* bound on the frames of a publisher
  Patient      \* the control panel waits for the answer of one request before the next start

Start == Staged \cup Direct
None == "none"

ASSUME BridgesAssumption == None \notin Start /\ Staged \cap Direct = {} /\ Patient \in BOOLEAN

VARIABLES
  owner, status,  \* the slot: its start, "starting", "running", "stopping", "packaging" or "ended"
  cleaning,       \* the slot is still being cleaned up
  at,             \* where the handler of each start is
  abort,          \* where the abort of each preparation is
  wait,           \* where the goroutine that waits for the child of each start is
  cleaner,        \* the cleanup function of each preparation: "no", "set", or where it is
  stop, target,   \* where each stop handler is, and the start whose child it waits for
  videoMap, audioMap,   \* the bridge in each manager's map
  video, audio,   \* each start's bridges: "open" or "closed"
  closing,        \* video bridges out of the map that stopBridge has not closed yet
  stopped,        \* video bridges marked as stopped
  pump,           \* the goroutine of each video bridge: "none", "accept", "pump", "finish" or "end"
  read, chan, latest,   \* frames read, in the channel, and to be repeated for FFmpeg
  reader,         \* is the reader between frames, or handing one over?
  hasty           \* direct starts that opened their bridge before an earlier direct run closed its

slot == <<owner, status, cleaning>>
starts == <<at, hasty>>
ends == <<abort, wait, cleaner>>
stops == <<stop, target>>
handlers == <<starts, ends, stops>>
videoBridges == <<videoMap, video, closing, stopped>>
audioBridges == <<audioMap, audio>>
bridges == <<videoBridges, audioBridges>>
frames == <<read, chan, latest, reader>>
vars == <<slot, handlers, bridges, pump, frames>>

Init ==
  /\ owner = None /\ status = "ended" /\ cleaning = FALSE
  /\ at = [p \in Start |-> "new"]
  /\ hasty = {}
  /\ abort = [p \in Staged |-> "no"]
  /\ wait = [p \in Start |-> "no"]
  /\ cleaner = [p \in Staged |-> "no"]
  /\ stop = [h \in Stop |-> "new"] /\ target = [h \in Stop |-> None]
  /\ videoMap = None /\ audioMap = None
  /\ video = [p \in Staged |-> "closed"] /\ audio = [p \in Start |-> "closed"]
  /\ closing = {} /\ stopped = {}
  /\ pump = [p \in Staged |-> "none"]
  /\ read = [p \in Staged |-> 0] /\ chan = [p \in Staged |-> <<>>]
  /\ latest = [p \in Staged |-> 0] /\ reader = [p \in Staged |-> "idle"]

Answered(h) == stop[h] \in {"new", "done"}
InFlight(p) == at[p] \notin {"new", "done"}

\* A patient control panel starts when nothing is being answered, and does not stop a direct
\* start that is.
MayStart == Patient => (\A h \in Stop : Answered(h)) /\ \A p \in Start : ~InFlight(p)
MayStop == Patient => \A p \in Direct : ~InFlight(p)

StepTo(p, place) == at' = [at EXCEPT ![p] = place]

-----------------------------------------------------------------------------
(* The managers                                                            *)

VideoFree == videoMap = None /\ \A q \in Staged : video[q] # "open"

OpenVideo(p) ==
  /\ videoMap' = p
  /\ video' = [video EXCEPT ![p] = "open"]
  /\ pump' = [pump EXCEPT ![p] = "accept"]

\* StopOwnedBridge of the audio manager: only when the map still has this bridge.
CloseOwnAudio(p) ==
  IF audioMap = p
  THEN audioMap' = None /\ audio' = [audio EXCEPT ![p] = "closed"]
  ELSE UNCHANGED <<audioMap, audio>>

DetachOnly(p) ==
  /\ videoMap' = None
  /\ stopped' = stopped \cup {p}
  /\ UNCHANGED closing

\* stopBridge of the video manager: out of the map first, closed afterwards (CloseVideo).
DetachVideo(p) ==
  /\ videoMap' = None
  /\ stopped' = stopped \cup {p}
  /\ closing' = closing \cup {p}

DetachOwnVideo(p) ==
  IF videoMap = p THEN DetachVideo(p) ELSE UNCHANGED <<videoMap, stopped, closing>>

\* StopBridge by the stream's id.
CloseVideoById ==
  IF videoMap = None THEN UNCHANGED <<videoMap, stopped, closing>> ELSE DetachVideo(videoMap)

CloseAudioById ==
  IF audioMap = None
  THEN UNCHANGED <<audioMap, audio>>
  ELSE audioMap' = None /\ audio' = [audio EXCEPT ![audioMap] = "closed"]

CloseVideo(p) ==
  /\ p \in closing
  /\ closing' = closing \ {p}
  /\ video' = [video EXCEPT ![p] = "closed"]
  /\ UNCHANGED <<slot, handlers, videoMap, stopped, audioBridges, pump, frames>>

-----------------------------------------------------------------------------
(* The slot, and what is done at the end of a run                          *)

FreeOnceEnded == status = "ended"

\* processOwnsSlot of the start in the slot.
SlotFree == status = "ended" /\ ~cleaning

TakeSlot(p) == SlotFree /\ owner' = p /\ status' = "starting" /\ UNCHANGED cleaning

\* cleanupPreparationResources, once.
Cleaned(p) ==
  [cleaner EXCEPT ![p] = CASE @ = "no" -> "done" [] @ = "set" -> "video" [] OTHER -> @]

\* FinishStartPreparation was called.
PrepareDone(p) == at[p] \in {"prepared", "failed", "done"}

ReleaseSlot(p) == cleaning' = (cleaning /\ owner # p)

\* A child ends.  The run of a preparation that was not committed, or was aborted, has failed;
\* another has failed or is packaged.
ChildExits(p) ==
  /\ wait[p] = "child" /\ owner = p
  /\ \/ status' = "ended"
     \/ /\ status \in {"running", "stopping"} /\ (p \in Staged => abort[p] = "no")
        /\ status' = "packaging"
  /\ cleaning' = TRUE
  /\ IF p \in Staged
     THEN cleaner' = Cleaned(p) /\ wait' = [wait EXCEPT ![p] = "cleanup"]
     ELSE wait' = [wait EXCEPT ![p] = "audio"] /\ UNCHANGED cleaner
  /\ UNCHANGED <<owner, starts, abort, stops, bridges, pump, frames>>

\* ProcessExitHook of a direct run: both bridges by the stream's id.
HookClosesAudio(p) ==
  /\ wait[p] = "audio"
  /\ CloseAudioById
  /\ wait' = [wait EXCEPT ![p] = "video"]
  /\ UNCHANGED <<slot, starts, abort, cleaner, stops, videoBridges, pump, frames>>

HookClosesVideo(p) ==
  /\ wait[p] = "video"
  /\ CloseVideoById
  /\ wait' = [wait EXCEPT ![p] = "release"]
  /\ UNCHANGED <<slot, starts, abort, cleaner, stops, video, audioBridges, pump, frames>>

\* The goroutine gives the slot back.
WaitEnds(p) ==
  /\ wait[p] = "release" \/ (wait[p] = "cleanup" /\ cleaner[p] = "done" /\ PrepareDone(p))
  /\ wait' = [wait EXCEPT ![p] = "end"]
  /\ ReleaseSlot(p)
  /\ UNCHANGED <<owner, status, starts, abort, cleaner, stops, bridges, pump, frames>>

PackagingEnds(p) ==
  /\ wait[p] = "end" /\ owner = p /\ status = "packaging"
  /\ status' = "ended"
  /\ UNCHANGED <<owner, cleaning, handlers, bridges, pump, frames>>

\* The cleanup function of a preparation: StopOwnedBridge of the video manager, which closes the
\* bridge it takes out, then of the audio manager.
CleanupVideo(p) ==
  /\ cleaner[p] = "video"
  /\ DetachOwnVideo(p)
  /\ cleaner' = [cleaner EXCEPT ![p] = IF videoMap = p THEN "close" ELSE "audio"]
  /\ UNCHANGED <<slot, starts, abort, wait, stops, video, audioBridges, pump, frames>>

CleanupAudio(p) ==
  /\ cleaner[p] = "audio" \/ (cleaner[p] = "close" /\ p \notin closing)
  /\ CloseOwnAudio(p)
  /\ cleaner' = [cleaner EXCEPT ![p] = "done"]
  /\ UNCHANGED <<slot, starts, abort, wait, stops, videoBridges, pump, frames>>

-----------------------------------------------------------------------------
(* prepareStreamStart                                                      *)

PrepareBegins(p) ==
  /\ at[p] = "new" /\ MayStart
  /\ \/ TakeSlot(p) /\ StepTo(p, "video")
     \/ ~SlotFree /\ StepTo(p, "done") /\ UNCHANGED slot
  /\ UNCHANGED <<hasty, ends, stops, bridges, pump, frames>>

\* The listener cannot bind while another has the port.  The configuration of the job may also
\* fail before this.
StartVideo(p) ==
  /\ at[p] = "video"
  /\ \/ VideoFree /\ OpenVideo(p) /\ StepTo(p, "audio")
     \/ StepTo(p, "failing") /\ UNCHANGED <<videoMap, video, pump>>
  /\ UNCHANGED <<slot, hasty, ends, stops, audioBridges, closing, stopped, frames>>

StartAudio(p) ==
  /\ at[p] = "audio"
  /\ IF audioMap = None
     THEN /\ audioMap' = p /\ audio' = [audio EXCEPT ![p] = "open"]
          /\ StepTo(p, "cleanup")
          /\ UNCHANGED <<videoMap, stopped, closing>>
     ELSE /\ DetachOwnVideo(p)
          /\ StepTo(p, "failing")
          /\ UNCHANGED audioBridges
  /\ UNCHANGED <<slot, hasty, ends, stops, video, pump, frames>>

\* SetPreparationCleanup refuses when the preparation was aborted: the bridges are closed here.
SetCleanup(p) ==
  /\ at[p] = "cleanup"
  /\ IF abort[p] = "no"
     THEN /\ cleaner' = [cleaner EXCEPT ![p] = "set"] /\ StepTo(p, "prepare")
          /\ UNCHANGED <<videoMap, stopped, closing, audioBridges>>
     ELSE /\ DetachOwnVideo(p) /\ CloseOwnAudio(p)
          /\ StepTo(p, "failing")
          /\ UNCHANGED cleaner
  /\ UNCHANGED <<slot, hasty, abort, wait, stops, video, pump, frames>>

\* The child is installed even when the preparation was aborted meanwhile.
PrepareStart(p) ==
  /\ at[p] = "prepare"
  /\ \/ StepTo(p, "failing") /\ UNCHANGED wait
     \/ /\ wait' = [wait EXCEPT ![p] = "child"]
        /\ StepTo(p, "failing") \/ (abort[p] = "no" /\ StepTo(p, "prepared"))
  /\ UNCHANGED <<slot, hasty, abort, cleaner, stops, bridges, pump, frames>>

PrepareAnswers(p) ==
  /\ at[p] = "prepared"
  /\ StepTo(p, "done")
  /\ UNCHANGED <<slot, hasty, ends, stops, bridges, pump, frames>>

\* FinishStartPreparation of a preparation that failed.
PrepareFinishes(p) ==
  /\ at[p] = "failing"
  /\ StepTo(p, "failed")
  /\ UNCHANGED <<slot, hasty, ends, stops, bridges, pump, frames>>

\* abortPreparation begins once, unless all is cleaned up already.
MayAbort(p) ==
  /\ owner = p /\ abort[p] = "no"
  /\ ~(cleaner[p] = "done" /\ PrepareDone(p) /\ ~cleaning)

ClaimAbort(p) == abort' = [abort EXCEPT ![p] = "begun"] /\ cleaning' = TRUE

\* FailStartPreparation.
PrepareFails(p) ==
  /\ at[p] = "failed"
  /\ StepTo(p, "done")
  /\ IF MayAbort(p) THEN ClaimAbort(p) ELSE UNCHANGED <<abort, cleaning>>
  /\ UNCHANGED <<owner, status, hasty, wait, cleaner, stops, bridges, pump, frames>>

\* An abort by request, also of a start that runs, or because the preparation expires.  Not of a
\* run that is still to be packaged: what packageArchive then does to the slot is in ProcessSlot
\* (LateAborts).
AbortBegins(p) ==
  /\ at[p] # "new" /\ MayAbort(p)
  /\ status # "packaging"
  /\ ClaimAbort(p)
  /\ UNCHANGED <<owner, status, starts, wait, cleaner, stops, bridges, pump, frames>>

\* The cleanup begins when the preparation has finished and the child, if any, was killed.
AbortCleansUp(p) ==
  /\ abort[p] = "begun"
  /\ PrepareDone(p) /\ wait[p] # "child"
  /\ abort' = [abort EXCEPT ![p] = "cleanup"]
  /\ cleaner' = Cleaned(p)
  /\ UNCHANGED <<slot, starts, wait, stops, bridges, pump, frames>>

AbortEnds(p) ==
  /\ abort[p] = "cleanup" /\ cleaner[p] = "done"
  /\ abort' = [abort EXCEPT ![p] = "ended"]
  /\ status' = IF owner = p THEN "ended" ELSE status
  /\ ReleaseSlot(p)
  /\ UNCHANGED <<owner, starts, wait, cleaner, stops, bridges, pump, frames>>

\* Its five seconds are over: the slot stays taken.
AbortTimesOut(p) ==
  /\ abort[p] \in {"begun", "cleanup"}
  /\ abort' = [abort EXCEPT ![p] = "ended"]
  /\ UNCHANGED <<slot, starts, wait, cleaner, stops, bridges, pump, frames>>

Commit(p) ==
  /\ at[p] \in {"prepared", "done"}
  /\ wait[p] = "child" /\ abort[p] = "no"
  /\ owner = p /\ status = "starting"
  /\ status' = "running"
  /\ UNCHANGED <<owner, cleaning, handlers, bridges, pump, frames>>

-----------------------------------------------------------------------------
(* startStream without worker video                                        *)

\* An earlier direct run has still to close the audio bridge by the stream's id.
HookToCome == \E d \in Direct : wait[d] \in {"child", "audio"}

DirectAudio(p) ==
  /\ at[p] = "new" /\ MayStart
  /\ IF audioMap = None
     THEN /\ audioMap' = p /\ audio' = [audio EXCEPT ![p] = "open"]
          /\ StepTo(p, "reserve")
          /\ hasty' = IF HookToCome THEN hasty \cup {p} ELSE hasty
     ELSE StepTo(p, "done") /\ UNCHANGED <<audioBridges, hasty>>
  /\ UNCHANGED <<slot, ends, stops, videoBridges, pump, frames>>

\* The job or the receipt may also be at fault.
DirectReserves(p) ==
  /\ at[p] = "reserve"
  /\ (TakeSlot(p) /\ StepTo(p, "start")) \/ (StepTo(p, "close") /\ UNCHANGED slot)
  /\ UNCHANGED <<hasty, ends, stops, bridges, pump, frames>>

\* A start that fails gives its place in the map back.
DirectStarts(p) ==
  /\ at[p] = "start"
  /\ \/ /\ StepTo(p, "done")
        /\ status' = "running" /\ wait' = [wait EXCEPT ![p] = "child"]
        /\ UNCHANGED owner
     \/ /\ StepTo(p, "close")
        /\ owner' = None /\ status' = "ended"
        /\ UNCHANGED wait
  /\ UNCHANGED <<cleaning, hasty, abort, cleaner, stops, bridges, pump, frames>>

\* A refused or failed start closes the audio bridge by the stream's id.
DirectFails(p) ==
  /\ at[p] = "close"
  /\ StepTo(p, "done")
  /\ CloseAudioById
  /\ UNCHANGED <<slot, hasty, ends, stops, videoBridges, pump, frames>>

-----------------------------------------------------------------------------
(* stopStream                                                              *)

Goes(h, place) == stop' = [stop EXCEPT ![h] = place]

\* MarkStopRequested, when the process is running or stopping.
StopLooks(h) ==
  /\ stop[h] = "new" /\ MayStop
  /\ stopped' = IF status \in {"running", "stopping"} /\ videoMap # None
                THEN stopped \cup {videoMap} ELSE stopped
  /\ Goes(h, "call")
  /\ UNCHANGED <<slot, starts, ends, target, videoMap, video, closing, audioBridges, pump, frames>>

\* Manager.Stop.  An ended run is answered as already stopped or, when it was packaged or nothing
\* is known of it, as not running.
StopCalls(h) ==
  /\ stop[h] = "call"
  /\ \/ /\ status = "running"
        /\ Goes(h, "wait") /\ target' = [target EXCEPT ![h] = owner]
        /\ status' = "stopping"
     \/ /\ status \in {"stopping", "packaging", "ended"}
        /\ Goes(h, "audio") /\ UNCHANGED <<status, target>>
     \/ /\ status \in {"starting", "ended"}
        /\ Goes(h, "done") /\ UNCHANGED <<status, target>>
  /\ UNCHANGED <<owner, cleaning, starts, ends, bridges, pump, frames>>

\* The child may not end in time, or the receipt not be written: the bridges stay.
StopWaits(h) ==
  /\ stop[h] = "wait"
  /\ (wait[target[h]] # "child" /\ Goes(h, "audio")) \/ Goes(h, "done")
  /\ target' = [target EXCEPT ![h] = None]
  /\ UNCHANGED <<slot, starts, ends, bridges, pump, frames>>

StopClosesAudio(h) ==
  /\ stop[h] = "audio"
  /\ CloseAudioById
  /\ Goes(h, "video")
  /\ UNCHANGED <<slot, starts, ends, target, videoBridges, pump, frames>>

StopClosesVideo(h) ==
  /\ stop[h] = "video"
  /\ CloseVideoById
  /\ Goes(h, "done")
  /\ UNCHANGED <<slot, starts, ends, target, video, audioBridges, pump, frames>>

-----------------------------------------------------------------------------
(* The goroutines of a video bridge                                        *)

\* A publisher and FFmpeg connect; attach refuses a bridge that is closed.
Accepts(p) ==
  /\ pump[p] = "accept"
  /\ pump' = [pump EXCEPT ![p] = IF video[p] = "open" THEN "pump" ELSE "finish"]
  /\ UNCHANGED <<slot, handlers, bridges, frames>>

\* An accept, the input or a write fails: after a close, or because a peer went away.  The frames
\* go with the goroutine.
PumpStops(p) ==
  /\ pump[p] \in {"accept", "pump"}
  /\ pump' = [pump EXCEPT ![p] = "finish"]
  /\ read' = [read EXCEPT ![p] = 0] /\ chan' = [chan EXCEPT ![p] = <<>>]
  /\ latest' = [latest EXCEPT ![p] = 0] /\ reader' = [reader EXCEPT ![p] = "idle"]
  /\ UNCHANGED <<slot, handlers, bridges>>

FinishForgets(p) == IF videoMap = p THEN None ELSE videoMap

\* finish closes the bridge, reports whether it was marked, and takes it out of the map when it
\* is still there.
Finishes(p) ==
  /\ pump[p] = "finish"
  /\ pump' = [pump EXCEPT ![p] = "end"]
  /\ video' = [video EXCEPT ![p] = "closed"]
  /\ videoMap' = FinishForgets(p)
  /\ stopped' = stopped \ {p}
  /\ UNCHANGED <<slot, handlers, audioBridges, closing, frames>>

\* readSceneFrames: a frame is decoded, and handed over through a channel of one place.  Bounds:
\* MaxFrames, and the frames of one publisher at a time.
FrameRead(p) ==
  /\ pump[p] = "pump" /\ reader[p] = "idle" /\ read[p] < MaxFrames
  /\ \A q \in Staged \ {p} : read[q] = 0
  /\ read' = [read EXCEPT ![p] = @ + 1]
  /\ reader' = [reader EXCEPT ![p] = "send"]
  /\ UNCHANGED <<slot, handlers, bridges, pump, chan, latest>>

GivesUp(p) ==
  IF chan[p] = <<>>
  THEN chan' = [chan EXCEPT ![p] = <<read[p]>>] /\ reader' = [reader EXCEPT ![p] = "idle"]
  ELSE reader' = [reader EXCEPT ![p] = "idle"] /\ UNCHANGED chan

\* A full channel loses its frame first, unless the goroutine took it meanwhile.
Sends(p) ==
  IF chan[p] = <<>>
  THEN chan' = [chan EXCEPT ![p] = <<read[p]>>] /\ reader' = [reader EXCEPT ![p] = "idle"]
  ELSE reader' = [reader EXCEPT ![p] = "drop"] /\ UNCHANGED chan

FrameSent(p) ==
  /\ reader[p] = "send"
  /\ Sends(p)
  /\ UNCHANGED <<slot, handlers, bridges, pump, read, latest>>

FrameDropped(p) ==
  /\ reader[p] = "drop"
  /\ chan' = [chan EXCEPT ![p] = <<>>]
  /\ reader' = [reader EXCEPT ![p] = "send"]
  /\ UNCHANGED <<slot, handlers, bridges, pump, read, latest>>

FrameTaken(p) ==
  /\ pump[p] = "pump" /\ chan[p] # <<>>
  /\ latest' = [latest EXCEPT ![p] = Head(chan[p])]
  /\ chan' = [chan EXCEPT ![p] = <<>>]
  /\ UNCHANGED <<slot, handlers, bridges, pump, read, reader>>

Next ==
  \/ \E p \in Staged :
       \/ PrepareBegins(p) \/ StartVideo(p) \/ StartAudio(p) \/ SetCleanup(p)
       \/ PrepareStart(p) \/ PrepareAnswers(p) \/ PrepareFinishes(p) \/ PrepareFails(p)
       \/ Commit(p)
       \/ AbortBegins(p) \/ AbortCleansUp(p) \/ AbortEnds(p) \/ AbortTimesOut(p)
       \/ CleanupVideo(p) \/ CleanupAudio(p)
       \/ CloseVideo(p) \/ Accepts(p) \/ PumpStops(p) \/ Finishes(p)
       \/ FrameRead(p) \/ FrameSent(p) \/ FrameDropped(p) \/ FrameTaken(p)
  \/ \E p \in Direct :
       \/ DirectAudio(p) \/ DirectReserves(p) \/ DirectStarts(p) \/ DirectFails(p)
       \/ HookClosesAudio(p) \/ HookClosesVideo(p)
  \/ \E p \in Start : ChildExits(p) \/ WaitEnds(p) \/ PackagingEnds(p)
  \/ \E h \in Stop :
       StopLooks(h) \/ StopCalls(h) \/ StopWaits(h) \/ StopClosesAudio(h) \/ StopClosesVideo(h)

Spec == Init /\ [][Next]_vars

-----------------------------------------------------------------------------
(* A start that is prepared or runs, and that nobody has aborted or stopped, has its audio
   bridge, and its video bridge as long as its publisher is there: no handler, cleanup or exit of
   an earlier start or stop of the stream closes the bridges of a later one (StopOwnedBridge, the
   order of slot and bridges in prepareStreamStart and of Stop and StopBridge in stopStream).
   Exempt is a direct start that opened its bridge before the ProcessExitHook of an earlier direct
   run had closed what it finds under the stream's id: that hook may close the new bridge. *)
RunHasItsBridges ==
  \A p \in Start \ hasty :
    (/\ owner = p
     /\ status = "running" \/ (wait[p] = "child" /\ at[p] = "done" /\ status = "starting")
     /\ p \in Staged => abort[p] = "no")
    => /\ audioMap = p /\ audio[p] = "open"
       /\ p \in Staged /\ pump[p] \in {"accept", "pump"} => videoMap = p /\ video[p] = "open"

(* A bridge that is open can be found: it is in the map of its manager, or the one who took it
   out is about to close it.  A listener that nobody can close would keep the video port for
   good (stopBridge, finish). *)
NoOrphanBridge ==
  /\ \A p \in Staged : video[p] = "open" => videoMap = p \/ p \in closing
  /\ \A p \in Start : audio[p] = "open" => audioMap = p

(* Between two frames of the publisher the newest one is in the channel or is the one that is
   repeated for FFmpeg: dropping the oldest never loses the newest (readSceneFrames). *)
NewestFrameKept ==
  \A p \in Staged :
    reader[p] = "idle" /\ read[p] > 0
      => latest[p] = read[p] \/ chan[p] = <<read[p]>>
=============================================================================
