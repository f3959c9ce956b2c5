---------------------------- MODULE AudioIngest -----------------------------
(***************************************************************************)
(* The audio intake of one stream (internal/audioingest/manager.go): a     *)
(* worker posts Opus packets, Add drops the ones it has seen, appends the  *)
(* others to the sidecar file and hands them to the bridge's intake        *)
(* channel; the bridge's goroutine sorts them into one queue per speaker,  *)
(* decodes them in the order of their 16-bit sequence numbers, conceals    *)
(* gaps, and mixes a frame every 20 ms.                                    *)
(*                                                                         *)
(* A packet is <<speaker, n>> with n its place in what the speaker said;   *)
(* the code sees n modulo Modulus.  Decoded audio is counted in samples    *)
(* per channel.                                                            *)
(***************************************************************************)
EXTENDS AudioPromise, SequencesExt

CONSTANTS
  Packet,        \* what the speakers say: pairs <<speaker, n>>, n >= 1
  Modulus,       \* 2^16 in the code
  Window,        \* how late a packet may be sent, and how many in a row may get lost
  QueueSize,     \* audioRTPQueueSize
  SpeakerQueueSize,
  MaxSpeakers,   \* audioMaxTrackedSpeakers
  MaxSeen,
  MaxAdds,       \* bound on the calls of Add
  MaxErrors      \* bound on failed appends and rounds of decoding with an error

Speaker == {p[1] : p \in Packet}
Half == Modulus \div 2

ASSUME AudioAssumption ==
  /\ \A p \in Packet : p[2] \in Nat \ {0}
  /\ Bridge \subseteq Nat \ {0}
  /\ Modulus \in Nat \ {0} /\ Window \in Nat /\ Window < Half
  /\ QueueSize \in Nat \ {0} /\ SpeakerQueueSize \in Nat \ {0}
  /\ Frame \in Nat \ {0} /\ MaxConceal \in Nat /\ PacketSamples \in Nat

VARIABLES
  seen,       \* keys of packets accepted before
  made,       \* bridges started so far
  mixing,     \* speakers that have not contributed to the frame being mixed
  newest,     \* per speaker: the newest packet sent
  adds, errors

managerVars == <<seen, add, live, made, closed, stats>>
bridgeVars == <<intake, stage, speakers, mixing, drops>>
history == <<newest, offered, decoded, discarded, extra>>
vars == <<managerVars, bridgeVars, history, adds, errors>>

Idle == [step |-> "idle", todo |-> <<>>]

Init ==
  /\ seen = {} /\ add = Idle /\ live = NoBridge /\ made = 0 /\ closed = {} /\ stats = 0
  /\ intake = [b \in Bridge |-> <<>>]
  /\ stage = [b \in Bridge |-> "none"]
  /\ speakers = [b \in Bridge |-> <<>>]
  /\ mixing = [b \in Bridge |-> {}]
  /\ drops = [b \in Bridge |-> 0]
  /\ newest = [s \in Speaker |-> 0]
  /\ offered = 0 /\ decoded = 0 /\ discarded = 0 /\ extra = 0
  /\ adds = 0 /\ errors = 0

Unlocked == add.step = "idle"

-----------------------------------------------------------------------------
(* Bridges                                                                 *)

StartBridge(b) ==
  /\ Unlocked
  /\ live = NoBridge /\ b = made + 1
  /\ live' = b /\ made' = b
  /\ stage' = [stage EXCEPT ![b] = "select"]
  /\ UNCHANGED <<seen, add, closed, stats, intake, speakers, mixing, drops, history, adds, errors>>

\* stopBridge takes the bridge out of the map and closes its stop channel.
StopBridge ==
  /\ Unlocked
  /\ live # NoBridge
  /\ live' = NoBridge
  /\ closed' = closed \cup {live}
  /\ UNCHANGED <<seen, add, made, stats, bridgeVars, history, adds, errors>>

MayFold(b) == b \in closed /\ stage[b] = "done"

\* After <-done the counters are added to the stream's.
StopFolds(b) ==
  /\ Unlocked
  /\ MayFold(b)
  /\ stage[b] # "folded"
  /\ stats' = stats + drops[b]
  /\ stage' = [stage EXCEPT ![b] = "folded"]
  /\ UNCHANGED <<seen, add, live, made, closed, intake, speakers, mixing, drops, history, adds,
                 errors>>

-----------------------------------------------------------------------------
(* Add                                                                     *)

\* What bridge b holds of a speaker: the packets that wait, and the one that was heard last.
Held(b, s) ==
  {p[2] : p \in {q \in ToSet(intake[b]) : q[1] = s}}
    \cup (IF s \in DOMAIN speakers[b]
          THEN ToSet(speakers[b][s].queue) \cup ({speakers[b][s].last} \ {0})
          ELSE {})

\* The newest packet of each speaker once a batch is sent.
Newest(batch) ==
  [s \in Speaker |-> Max({newest[s]} \cup {p[2] : p \in {q \in ToSet(batch) : q[1] = s}})]

\* What a worker may send: no packet is Window behind the newest of its speaker, and none is more
\* than Window ahead of what a bridge holds of its speaker.
Sendable(batch) ==
  \A p \in ToSet(batch) :
    /\ Newest(batch)[p[1]] - p[2] < Window
    /\ \A b \in Bridge : \A n \in Held(b, p[1]) : p[2] - n <= Window

\* trimSeenLocked keeps the packets received last.  Two received at the same time go in any order.
Trimmed(S, kept) ==
  /\ kept \subseteq S
  /\ Cardinality(kept) = IF Cardinality(S) <= MaxSeen THEN Cardinality(S) ELSE MaxSeen
  /\ \A p \in kept, q \in S \ kept : q[2] <= p[2]

\* What is left of a sequence, in its order, when only these places stay: a set of one sequence.
Left(seq, places) ==
  LET orders == {f \in [1..Cardinality(places) -> places] :
                   \A i, j \in DOMAIN f : i < j => f[i] < f[j]}
  IN  {[k \in DOMAIN f |-> seq[f[k]]] : f \in orders}

\* The packets of a batch that are new.
Fresh(batch) == Left(batch, {i \in DOMAIN batch : batch[i] \notin seen})

\* Everything up to the hand-over.  An append that fails ends the call with the packets seen.
AddAccepts(batch) ==
  /\ Unlocked
  /\ adds < MaxAdds
  /\ Sendable(batch)
  /\ adds' = adds + 1
  /\ newest' = Newest(batch)
  /\ \E kept \in SUBSET (seen \cup ToSet(batch)) :
       Trimmed(seen \cup ToSet(batch), kept) /\ seen' = kept
  /\ \E fresh \in Fresh(batch) :
       \/ /\ live # NoBridge /\ fresh # <<>>
          /\ add' = [step |-> "try", todo |-> fresh]
          /\ offered' = offered + Len(fresh)
          /\ UNCHANGED errors
       \/ /\ live = NoBridge \/ fresh = <<>>
          /\ UNCHANGED <<add, offered, errors>>
       \/ /\ fresh # <<>> /\ errors < MaxErrors
          /\ errors' = errors + 1
          /\ UNCHANGED <<add, offered>>
  /\ UNCHANGED <<live, made, closed, stats, bridgeVars, decoded, discarded, extra>>

Handed == add' = IF Len(add.todo) = 1 THEN Idle ELSE [step |-> "try", todo |-> Tail(add.todo)]

Full(b) == Len(intake[b]) >= QueueSize

Send(b) == intake' = [intake EXCEPT ![b] = Append(@, Head(add.todo))]

EnqueueTries ==
  /\ add.step = "try"
  /\ IF Full(live)
     THEN add' = [add EXCEPT !.step = "drop"] /\ UNCHANGED intake
     ELSE Send(live) /\ Handed
  /\ UNCHANGED <<seen, live, made, closed, stats, stage, speakers, mixing, drops, history, adds,
                 errors>>

DropsBlindly(b) ==
  /\ intake' = [intake EXCEPT ![b] = IF @ = <<>> THEN @ ELSE Tail(@)]
  /\ drops' = [drops EXCEPT ![b] = @ + 1]

\* The oldest packet goes, unless the goroutine took it meanwhile.
DropsOldest(b) ==
  IF intake[b] = <<>>
  THEN UNCHANGED <<intake, drops>>
  ELSE /\ intake' = [intake EXCEPT ![b] = Tail(@)]
       /\ drops' = [drops EXCEPT ![b] = @ + 1]

EnqueueDrops ==
  /\ add.step = "drop"
  /\ DropsOldest(live)
  /\ add' = [add EXCEPT !.step = "again"]
  /\ UNCHANGED <<seen, live, made, closed, stats, stage, speakers, mixing, history, adds, errors>>

\* The mutex makes Add the only sender, so there is room now.
EnqueueTriesAgain ==
  /\ add.step = "again"
  /\ Handed
  /\ IF Full(live)
     THEN drops' = [drops EXCEPT ![live] = @ + 1] /\ UNCHANGED intake
     ELSE Send(live) /\ UNCHANGED drops
  /\ UNCHANGED <<seen, live, made, closed, stats, stage, speakers, mixing, history, adds, errors>>

-----------------------------------------------------------------------------
(* The bridge's goroutine                                                  *)

NewSpeaker == [queue |-> <<>>, pcm |-> 0, expected |-> 0, hasSequence |-> FALSE, last |-> 0]

\* Speakers with nothing left that were quiet for audioSpeakerIdleTimeout are forgotten.
Evicted(b, gone) ==
  \A s \in gone : speakers[b][s].queue = <<>> /\ speakers[b][s].pcm = 0

Without(f, gone) == [s \in DOMAIN f \ gone |-> f[s]]

With(f, s, value) == [t \in DOMAIN f \cup {s} |-> IF t = s THEN value ELSE f[t]]

\* queueSpeakerPacket: the packet is queued, or counted when there is no room or no decoder for
\* its speaker, or the speaker's queue loses its oldest.
QueueSpeakerPacket(b, p, tracked, noDecoder) ==
  LET s == p[1]
      speaker == IF s \in DOMAIN tracked THEN tracked[s] ELSE NewSpeaker
      room == Len(speaker.queue) < SpeakerQueueSize
      kept == IF room THEN speaker.queue ELSE Tail(speaker.queue)
  IN  IF s \notin DOMAIN tracked /\ (Cardinality(DOMAIN tracked) >= MaxSpeakers \/ noDecoder)
      THEN /\ speakers' = [speakers EXCEPT ![b] = tracked]
           /\ drops' = [drops EXCEPT ![b] = @ + 1]
      ELSE /\ speakers' = [speakers EXCEPT ![b] =
                With(tracked, s, [speaker EXCEPT !.queue = Append(kept, p[2])])]
           /\ drops' = [drops EXCEPT ![b] = IF room THEN @ ELSE @ + 1]

\* One packet, by the select or by drainPackets.
BridgeTakes(b) ==
  /\ stage[b] \in {"select", "drain"}
  /\ intake[b] # <<>>
  /\ \E gone \in SUBSET DOMAIN speakers[b], noDecoder \in BOOLEAN :
       /\ Evicted(b, gone)
       /\ QueueSpeakerPacket(b, Head(intake[b]), Without(speakers[b], gone), noDecoder)
  /\ intake' = [intake EXCEPT ![b] = Tail(@)]
  /\ UNCHANGED <<managerVars, stage, mixing, history, adds, errors>>

\* The timer fires.
BridgeTicks(b) ==
  /\ stage[b] = "select"
  /\ stage' = [stage EXCEPT ![b] = "drain"]
  /\ UNCHANGED <<managerVars, intake, speakers, mixing, drops, history, adds, errors>>

\* The channel was found empty: mixFrame begins.
BridgeDrained(b) ==
  /\ stage[b] = "drain"
  /\ intake[b] = <<>>
  /\ \E gone \in SUBSET DOMAIN speakers[b] :
       /\ Evicted(b, gone)
       /\ speakers' = [speakers EXCEPT ![b] = Without(@, gone)]
       /\ mixing' = [mixing EXCEPT ![b] = DOMAIN speakers[b] \ gone]
  /\ stage' = [stage EXCEPT ![b] = "mix"]
  /\ UNCHANGED <<managerVars, intake, drops, history, adds, errors>>

Distance(n, expected) == (n - expected) % Modulus

IsLate(speaker, n) == speaker.hasSequence /\ Distance(n, speaker.expected) >= Half

\* The places of a queue that are not late.
Timely(speaker) == {i \in DOMAIN speaker.queue : ~IsLate(speaker, speaker.queue[i])}

\* popNextSpeakerPacket takes, of the packets that are not late, the nearest ahead, or the first
\* when no sequence is known: a set of one place.
Best(speaker) ==
  LET d(i) == IF speaker.hasSequence THEN Distance(speaker.queue[i], speaker.expected) ELSE 0
  IN  {i \in Timely(speaker) :
         \A j \in Timely(speaker) : d(i) < d(j) \/ (d(i) = d(j) /\ i <= j)}

UnboundedConcealed(missing) == {<<missing * Frame, 0>>}

\* appendPacketLossConcealment: pairs of the samples added, at most MaxConceal frames, and the
\* decodings that failed, each of which adds a frame of silence.
Concealed(missing) ==
  LET packets == IF missing < MaxConceal THEN missing ELSE MaxConceal
  IN  {c \in (0..(MaxConceal * Frame)) \X (0..packets) :
         /\ c[2] * Frame + (packets - c[2]) <= c[1]
         /\ c[1] <= c[2] * Frame + (packets - c[2]) * PacketSamples}

Hungry(speaker) == speaker.pcm < Frame /\ speaker.queue # <<>>

ExpectsAgain(n) == n % Modulus

\* The sequence number after a packet.
Expected(n) == (n + 1) % Modulus

Errors(count) ==
  IF count = 0 THEN UNCHANGED errors ELSE errors < MaxErrors /\ errors' = errors + 1

\* One round of nextSpeakerFrame.  A packet that does not decode resets the decoder, which may fail
\* too; the samples that conceal the gap before it stay.
BridgeDecodes(b, s) ==
  LET speaker == speakers[b][s]
      late == Cardinality(DOMAIN speaker.queue \ Timely(speaker))
      set(value) == speakers' = [speakers EXCEPT ![b][s] = value]
      counts(lost, besides) ==
        drops' = [drops EXCEPT ![b] = @ + (lost + besides)] /\ extra' = extra + besides
  IN  /\ stage[b] = "mix" /\ s \in mixing[b]
      /\ Hungry(speaker)
      /\ \/ /\ Timely(speaker) = {}
            /\ set([speaker EXCEPT !.queue = <<>>])
            /\ counts(late, 0)
            /\ UNCHANGED <<decoded, errors>>
         \/ \E i \in Best(speaker) :
            \E rest \in Left(speaker.queue, Timely(speaker) \ {i}) :
              LET n == speaker.queue[i]
                  missing == IF speaker.hasSequence THEN Distance(n, speaker.expected) ELSE 0
              IN  \E hidden \in Concealed(missing) :
                    \/ /\ \E samples \in 1..PacketSamples :
                            set([queue |-> rest, pcm |-> speaker.pcm + hidden[1] + samples,
                                 expected |-> Expected(n), hasSequence |-> TRUE, last |-> n])
                       /\ counts(late, hidden[2])
                       /\ Errors(hidden[2])
                       /\ decoded' = decoded + 1
                    \/ /\ set([speaker EXCEPT !.queue = rest, !.pcm = @ + hidden[1],
                                              !.hasSequence = FALSE, !.last = 0])
                       /\ \E failedReset \in 0..1 : counts(late + 1, hidden[2] + failedReset)
                       /\ Errors(1)
                       /\ UNCHANGED decoded
      /\ UNCHANGED <<managerVars, intake, stage, mixing, newest, offered, discarded, adds>>

\* A frame is taken, the last one filled up with silence.
AfterFrame(pcm) == IF pcm < Frame THEN 0 ELSE pcm - Frame

\* A speaker contributes a frame, or nothing.
BridgeMixes(b, s) ==
  /\ stage[b] = "mix" /\ s \in mixing[b]
  /\ ~Hungry(speakers[b][s])
  /\ speakers' = [speakers EXCEPT ![b][s].pcm = AfterFrame(@)]
  /\ mixing' = [mixing EXCEPT ![b] = @ \ {s}]
  /\ UNCHANGED <<managerVars, intake, stage, drops, history, adds, errors>>

\* The frame is sent; more frames of the burst may be due.
BridgeEmits(b) ==
  /\ stage[b] = "mix" /\ mixing[b] = {}
  /\ \E next \in {"select", "drain"} : stage' = [stage EXCEPT ![b] = next]
  /\ UNCHANGED <<managerVars, intake, speakers, mixing, drops, history, adds, errors>>

\* The goroutine sees the closed channel in its select or between the frames of a burst.
BridgeExits(b) ==
  /\ stage[b] \in {"select", "drain"}
  /\ b \in closed
  /\ stage' = [stage EXCEPT ![b] = "done"]
  /\ discarded' = discarded + Waiting(b)
  /\ intake' = [intake EXCEPT ![b] = <<>>]
  /\ speakers' = [speakers EXCEPT ![b] = <<>>]
  /\ UNCHANGED <<managerVars, mixing, drops, newest, offered, decoded, extra, adds, errors>>

Batch == {<<p>> : p \in Packet} \cup {pq \in Packet \X Packet : pq[1] # pq[2]}

Next ==
  \/ \E b \in Bridge : StartBridge(b) \/ StopFolds(b)
  \/ StopBridge
  \/ \E batch \in Batch : AddAccepts(batch)
  \/ EnqueueTries \/ EnqueueDrops \/ EnqueueTriesAgain
  \/ \E b \in Bridge :
       \/ BridgeTakes(b) \/ BridgeTicks(b) \/ BridgeDrained(b) \/ BridgeEmits(b) \/ BridgeExits(b)
       \/ \E s \in DOMAIN speakers[b] : BridgeDecodes(b, s) \/ BridgeMixes(b, s)

Spec == Init /\ [][Next]_vars
=============================================================================
