----------------------------- MODULE AudioPromise -----------------------------
(***************************************************************************)
(* What the audio intake promises the listeners and the operators of a     *)
(* stream: in which order a speaker is heard, how far behind, and where    *)
(* each packet went (internal/audioingest/manager.go).  AudioIngest says   *)
(* how the bridges do it.                                                  *)
(***************************************************************************)
EXTENDS Integers, FiniteSets, Sequences

CONSTANTS
  Bridge,        \* the bridges of the stream, 1..k: each is started and stopped once
  Frame,         \* audioSamplesPerFrame
  MaxConceal,    \* audioMaxConcealmentFrames and audioMaxConcealmentPackets
  PacketSamples  \* the longest packet, in samples

VARIABLES
  add,        \* the call of Add in progress: it holds the manager's mutex
  live,       \* the bridge in the map, NoBridge if there is none
  closed,     \* bridges whose stop channel is closed
  stats,      \* the drops of the bridges that were folded into the stream's totals
  intake,     \* per bridge: its channel
  stage,      \* where its goroutine is
  speakers,   \* the speakers it tracks
  drops,      \* the sum of its loss counters: queue drops, speaker limit, late, decode errors
  offered, decoded, discarded,  \* packets given to a bridge, decoded, left at its stop
  extra       \* decode errors that stand for no packet: failed resets and concealments

NoBridge == 0

\* The places taken in the queues of the speakers.
Queued(b) == UNION {{s} \X DOMAIN speakers[b][s].queue : s \in DOMAIN speakers[b]}

Waiting(b) == Len(intake[b]) + Cardinality(Queued(b))

(* What is heard is always less behind than a frame, a longest gap and a longest packet: a part of
   a frame may be left when a gap and a packet are added
   (appendPacketLossConcealment, nextSpeakerFrame). *)
BacklogBounded ==
  \A b \in Bridge : \A s \in DOMAIN speakers[b] :
    speakers[b][s].pcm < Frame + MaxConceal * Frame + PacketSamples

(* As long as a speaker keeps its decoder (it is neither reset after an error nor forgotten with
   the speaker), each packet that is decoded comes after the one before it: what is said is heard
   in order and no packet twice, across the wrap of the sequence number, packets out of order,
   retries of packets that were trimmed from the seen set, and lost packets
   (popNextSpeakerPacket). *)
PlayedInOrder ==
  [][\A b \in Bridge :
       \A s \in DOMAIN speakers[b] \cap DOMAIN speakers'[b] :
         /\ decoded' # decoded /\ speakers'[b][s] # speakers[b][s]
         /\ speakers[b][s].last # 0
         => speakers'[b][s].last > speakers[b][s].last]_<<speakers, decoded>>

\* What Status reports: the totals of the stream and the counters of its bridge.
Reported == stats + (IF live = NoBridge THEN 0 ELSE drops[live])

(* Once every stop has returned, each packet that was handed to a bridge is waiting, was decoded,
   was left at the stop, or is in the counters that Status reports, exactly once.  Besides packets
   the counters hold the decoder resets and the concealments that failed, and nothing else
   (enqueue drops the oldest while the mixer takes one; stopBridge adds the counters of a bridge
   to those of the stream while the next bridge runs). *)
Accounted ==
  (\A b \in closed : stage[b] = "folded")
    => offered + extra = decoded + discarded + Reported + Len(add.todo)
                          + (IF live = NoBridge THEN 0 ELSE Waiting(live))
=============================================================================
