------------------------ MODULE WorkerEvents_proofs ------------------------
(***************************************************************************)
(* Proofs about WorkerEvents, for any set of events and any bounds: the    *)
(* generation fence keeps the log of a run in order, and a caption is      *)
(* written at most once for every time its key was not remembered.         *)
(***************************************************************************)
EXTENDS WorkerEvents, FiniteSetTheorems, TLAPS

Steps == {"idle", "log", "cue", "transcript", "remember"}

Typed ==
  /\ stream \in {"none", "starting", "running"}
  /\ posted \subseteq Event
  /\ latest \in Nat
  /\ step \in Steps
  /\ step # "idle" => adding \in Event
  /\ log \in Seq(Event)

\* The call in progress has passed the fence, and nobody can pass it before the call is over.
Fenced == step # "idle" /\ adding.generation > 0 => latest = adding.generation

\* The fence is behind nothing that was logged - except after a crash, when nothing can be
\* logged before a start has rewritten the file.
FenceHolds ==
  \/ \A i \in DOMAIN log : log[i].generation <= latest
  \/ stream = "none" /\ posted = {} /\ step = "idle"

OrderInv == Typed /\ Fenced /\ FenceHolds /\ GenerationsInOrder

\* What one append does to the log.
LEMMA LogAppend ==
  ASSUME NEW e \in Event, log \in Seq(Event), log' = Append(log, e)
  PROVE  /\ log' \in Seq(Event)
         /\ DOMAIN log' = DOMAIN log \cup {Len(log) + 1}
         /\ \A i \in DOMAIN log : i < Len(log) + 1 /\ log'[i] = log[i]
         /\ log'[Len(log) + 1] = e
  OBVIOUS

LEMMA OrderInit == Init => OrderInv
  BY DEF Init, OrderInv, Typed, Steps, Fenced, FenceHolds, GenerationsInOrder

\* An append behind the fence keeps the order.
LEMMA LogStepKeepsOrder == OrderInv /\ AddLogs => OrderInv'
<1> SUFFICES ASSUME OrderInv, AddLogs PROVE OrderInv'
  OBVIOUS
<1>1. adding \in Event /\ adding.generation \in Nat /\ log \in Seq(Event) /\ latest \in Nat
  BY EventsAssumption DEF OrderInv, Typed, AddLogs
<1>2. /\ log' \in Seq(Event)
      /\ DOMAIN log' = DOMAIN log \cup {Len(log) + 1}
      /\ \A i \in DOMAIN log : i < Len(log) + 1 /\ log'[i] = log[i]
      /\ log'[Len(log) + 1] = adding
  BY <1>1, LogAppend DEF AddLogs
<1>3. \A i \in DOMAIN log : log[i].generation <= latest /\ log[i].generation \in Nat
  BY <1>1, EventsAssumption DEF OrderInv, FenceHolds, AddLogs
<1>4. adding.generation <= latest /\ (adding.generation > 0 => latest = adding.generation)
  BY <1>1 DEF OrderInv, Fenced, AddLogs
<1>5. Typed'
  BY <1>1, <1>2 DEF OrderInv, Typed, AddLogs, memory, counters, Steps
<1>6. Fenced'
  BY <1>4 DEF AddLogs, memory, Fenced
<1>7. FenceHolds'
  <2>1. latest' = latest
    BY DEF AddLogs, memory
  <2>2. \A i \in DOMAIN log' : log'[i].generation <= latest
    BY <1>2, <1>3, <1>4
  <2> QED BY <2>1, <2>2 DEF FenceHolds
<1>8. GenerationsInOrder'
  <2> SUFFICES ASSUME NEW i \in DOMAIN log', NEW j \in DOMAIN log', i < j, log'[j].generation > 0
               PROVE  log'[i].generation <= log'[j].generation
    BY DEF GenerationsInOrder
  <2>1. i \in DOMAIN log
    BY <1>1, <1>2
  <2>2. CASE j \in DOMAIN log
    BY <1>2, <2>1, <2>2 DEF OrderInv, GenerationsInOrder
  <2>3. CASE j = Len(log) + 1
    BY <1>2, <1>3, <1>4, <2>1, <2>3
  <2> QED BY <1>2, <2>2, <2>3
<1> QED BY <1>5, <1>6, <1>7, <1>8 DEF OrderInv

LEMMA OrderStep == OrderInv /\ [Next]_vars => OrderInv'
<1> SUFFICES ASSUME OrderInv, [Next]_vars PROVE OrderInv'
  OBVIOUS
<1> USE DEF OrderInv, Typed, Steps, Fenced, FenceHolds, GenerationsInOrder, memory, call, sidecars, counters
<1>1. CASE StartRewritesLog
  BY <1>1 DEF StartRewritesLog
<1>2. CASE RunStarts
  BY <1>2 DEF RunStarts
<1>3. CASE RunEnds
  BY <1>3 DEF RunEnds
<1>4. ASSUME NEW e \in Event, Post(e) PROVE OrderInv'
  BY <1>4 DEF Post
<1>5. ASSUME NEW e \in Event, AddBegins(e) PROVE OrderInv'
  <2>1. /\ e.generation \in Nat /\ posted # {} /\ step = "idle"
        /\ posted' \subseteq Event /\ stream' = stream /\ log' = log
    BY <1>5, EventsAssumption DEF AddBegins
  <2>2. \A i \in DOMAIN log : log[i].generation \in Nat /\ log[i].generation <= latest
    BY <2>1, EventsAssumption
  <2>3. CASE ~Current(e)
    BY <1>5, <2>1, <2>2, <2>3 DEF AddBegins
  <2>4. CASE Current(e)
    <3>1. latest' \in Nat /\ latest <= latest' /\ (e.generation > 0 => latest' = e.generation)
      BY <1>5, <2>1, <2>4 DEF AddBegins, Current
    <3>2. (UNCHANGED call) \/ (adding' = e /\ step' = "log")
      BY <1>5, <2>4 DEF AddBegins
    <3>3. \A i \in DOMAIN log' : log'[i].generation <= latest'
      BY <2>1, <2>2, <3>1
    <3> QED BY <2>1, <3>1, <3>2, <3>3
  <2> QED BY <2>3, <2>4
<1>6. CASE AddFails
  BY <1>6 DEF AddFails
<1>7. CASE AddLogs
  BY <1>7, LogStepKeepsOrder
<1>8. CASE AddCues
  BY <1>8 DEF AddCues
<1>9. CASE AddTranscribes
  BY <1>9 DEF AddTranscribes
<1>10. CASE AddRemembers
  BY <1>10 DEF AddRemembers
<1>11. CASE Crash
  BY <1>11 DEF Crash
<1>12. CASE UNCHANGED vars
  BY <1>12 DEF vars
<1> QED BY <1>1, <1>2, <1>3, <1>4, <1>5, <1>6, <1>7, <1>8, <1>9, <1>10, <1>11, <1>12 DEF Next

(* For any set of events, any number of requests, runs, failed writes and crashes: the log of a
   run is in the order of the generations (the fence in Add, the log rewritten by a start). *)
THEOREM LogInOrder == Spec => []GenerationsInOrder
<1>1. OrderInv => GenerationsInOrder
  BY DEF OrderInv
<1> QED BY <1>1, OrderInit, OrderStep, PTL DEF Spec
-----------------------------------------------------------------------------
(* Captions.                                                                *)

Remembered(k) == IF \E x \in seen : x.key = k THEN 1 ELSE 0

\* The call in progress has still to write its cue, or its part of the transcript.
CueToCome(k) == IF step \in {"log", "cue"} /\ adding.key = k THEN 1 ELSE 0
LineToCome(k) == IF step = "transcript" /\ adding.key = k THEN 1 ELSE 0

CaptionTypes ==
  /\ posted \subseteq Event
  /\ step \in Steps
  /\ step # "idle" => adding \in Event
  /\ cues \in Seq(Key) /\ transcript \in Seq(Key)
  /\ forgotten \in [Key -> Nat]
  /\ \A x, y \in seen : x.key = y.key => x = y

\* Each cue is paid for by a key that is remembered, or was forgotten after it had been.
CuesPaid == \A k \in Key : Count(cues, k) + CueToCome(k) <= forgotten[k] + Remembered(k)

LinesPaid == \A k \in Key : Count(transcript, k) + LineToCome(k) <= Count(cues, k)

CaptionInv == CaptionTypes /\ CuesPaid /\ LinesPaid

LEMMA CountIsNat == ASSUME NEW s \in Seq(Key), NEW k PROVE Count(s, k) \in Nat
<1>1. IsFiniteSet(DOMAIN s)
  BY FS_Interval
<1>2. IsFiniteSet({i \in DOMAIN s : s[i] = k})
  BY <1>1, FS_Subset
<1> QED BY <1>2, FS_CardinalityType DEF Count

LEMMA CountAppend ==
  ASSUME NEW s \in Seq(Key), NEW x \in Key, NEW k
  PROVE  /\ Append(s, x) \in Seq(Key)
         /\ Count(Append(s, x), k) = Count(s, k) + (IF x = k THEN 1 ELSE 0)
<1> DEFINE t == Append(s, x)
           before == {i \in DOMAIN s : s[i] = k}
           after == {i \in DOMAIN t : t[i] = k}
<1>1. /\ t \in Seq(Key)
      /\ DOMAIN t = DOMAIN s \cup {Len(s) + 1}
      /\ Len(s) + 1 \notin DOMAIN s
      /\ \A i \in DOMAIN s : t[i] = s[i]
      /\ t[Len(s) + 1] = x
  OBVIOUS
<1>2. IsFiniteSet(DOMAIN s)
  BY FS_Interval
<1>3. IsFiniteSet(before)
  BY <1>2, FS_Subset
<1>4. Cardinality(before) \in Nat
  BY <1>3, FS_CardinalityType
<1>5. Count(s, k) = Cardinality(before) /\ Count(t, k) = Cardinality(after)
  BY DEF Count
<1> HIDE DEF t, before, after
<1>6. Count(t, k) = Count(s, k) + (IF x = k THEN 1 ELSE 0)
  <2>1. CASE x = k
    <3>1. after = before \cup {Len(s) + 1} /\ Len(s) + 1 \notin before
      BY <1>1, <2>1 DEF before, after
    <3>2. Cardinality(after) = Cardinality(before) + 1
      BY <1>3, <3>1, FS_AddElement
    <3> QED BY <1>5, <2>1, <3>2
  <2>2. CASE x # k
    <3>1. after = before
      BY <1>1, <2>2 DEF before, after
    <3> QED BY <1>4, <1>5, <2>2, <3>1
  <2> QED BY <2>1, <2>2
<1> QED BY <1>1, <1>6 DEF t

LEMMA CaptionInit == Init => CaptionInv
<1> SUFFICES ASSUME Init PROVE CaptionInv
  OBVIOUS
<1>1. ASSUME NEW k \in Key PROVE Count(<<>>, k) = 0
  <2>1. {i \in DOMAIN <<>> : <<>>[i] = k} = {}
    OBVIOUS
  <2> QED BY <2>1, FS_EmptySet DEF Count
<1>2. CaptionTypes
  BY DEF Init, CaptionTypes, Steps
<1>3. CuesPaid /\ LinesPaid
  BY <1>1 DEF Init, CuesPaid, LinesPaid, CueToCome, LineToCome, Remembered
<1> QED BY <1>2, <1>3 DEF CaptionInv

\* Forgetting a key pays for what it was remembered for.
LEMMA ForgettingPays ==
  ASSUME CaptionTypes, NEW S, NEW kept \in SUBSET S, NEW k \in Key,
         \A x, y \in S : x.key = y.key => x = y
  PROVE  /\ Forgets(S \ kept) \in [Key -> Nat]
         /\ forgotten[k] <= Forgets(S \ kept)[k]
         /\ (\E x \in S : x.key = k) /\ ~(\E x \in kept : x.key = k)
               => Forgets(S \ kept)[k] = forgotten[k] + 1
<1>1. forgotten[k] \in Nat
  BY DEF CaptionTypes
<1> QED BY <1>1 DEF Forgets, CaptionTypes

LEMMA BeginKeepsCaptions == ASSUME CaptionInv, NEW e \in Event, AddBegins(e) PROVE CaptionInv'
<1>1. /\ step = "idle" /\ e.key \in Key /\ posted' \subseteq Event
      /\ cues' = cues /\ transcript' = transcript
  BY DEF AddBegins, CaptionInv, CaptionTypes, sidecars, Key
<1>2. CASE UNCHANGED <<seen, forgotten, call>>
  BY <1>1, <1>2 DEF CaptionInv, CaptionTypes, CuesPaid, LinesPaid, CueToCome, LineToCome,
                    Remembered, call, Steps
<1>3. CASE ~UNCHANGED <<seen, forgotten, call>>
  <2>1. /\ ~\E x \in seen : x.key = e.key
        /\ adding' = e /\ step' = "log"
    BY <1>3 DEF AddBegins, KeyOf
  <2>2. PICK kept \in SUBSET Marked(e) : seen' = kept /\ forgotten' = Forgets(Marked(e) \ kept)
    BY <1>3 DEF AddBegins
  <2>3. \A x, y \in Marked(e) : x.key = y.key => x = y
    BY <2>1 DEF Marked, KeyOf, CaptionInv, CaptionTypes
  <2>4. CaptionTypes'
    <3>1. forgotten' \in [Key -> Nat]
      BY <2>2, <2>3, <1>1, ForgettingPays DEF CaptionInv
    <3>2. \A x, y \in seen' : x.key = y.key => x = y
      BY <2>2, <2>3
    <3> QED BY <1>1, <2>1, <3>1, <3>2 DEF CaptionInv, CaptionTypes, Steps
  <2>5. ASSUME NEW k \in Key
        PROVE  Count(cues, k) + CueToCome(k)' <= forgotten'[k] + Remembered(k)'
    <3>1. /\ Count(cues, k) <= forgotten[k] + Remembered(k)
          /\ Count(cues, k) \in Nat /\ forgotten[k] \in Nat /\ forgotten'[k] \in Nat
      BY <1>1, <2>4, CountIsNat DEF CaptionInv, CaptionTypes, CuesPaid, CueToCome
    <3>2. /\ forgotten[k] <= forgotten'[k]
          /\ (\E x \in Marked(e) : x.key = k) /\ ~(\E x \in kept : x.key = k)
               => forgotten'[k] = forgotten[k] + 1
      <4>1. /\ forgotten[k] <= Forgets(Marked(e) \ kept)[k]
            /\ (\E x \in Marked(e) : x.key = k) /\ ~(\E x \in kept : x.key = k)
                  => Forgets(Marked(e) \ kept)[k] = forgotten[k] + 1
        <5>1. forgotten[k] \in Nat
          BY DEF CaptionInv, CaptionTypes
        <5> QED BY <5>1 DEF Forgets
      <4> QED BY <2>2, <4>1
    <3>3. CASE k = e.key
      <4>1. Remembered(k) = 0 /\ CueToCome(k)' = 1
        BY <2>1, <3>3 DEF Remembered, CueToCome
      <4>2. \E x \in Marked(e) : x.key = k
        <5>1. /\ [key |-> e.key, time |-> e.time] \in Marked(e)
              /\ [key |-> e.key, time |-> e.time].key = e.key
          BY DEF Marked, KeyOf
        <5> QED BY <3>3, <5>1
      <4>3. CASE \E x \in kept : x.key = k
        <5>1. Remembered(k)' = 1
          BY <2>2, <4>3 DEF Remembered
        <5> QED BY <3>1, <3>2, <4>1, <5>1
      <4>4. CASE ~\E x \in kept : x.key = k
        <5>1. Remembered(k)' = 0
          BY <2>2, <4>4 DEF Remembered
        <5> QED BY <3>1, <3>2, <4>1, <4>2, <4>4, <5>1
      <4> QED BY <4>3, <4>4
    <3>4. CASE k # e.key
      <4>1. CueToCome(k)' = 0
        BY <2>1, <3>4 DEF CueToCome
      <4>2. CASE \E x \in kept : x.key = k
        <5>1. Remembered(k)' = 1 /\ Remembered(k) \in {0, 1}
          BY <2>2, <4>2 DEF Remembered
        <5> QED BY <3>1, <3>2, <4>1, <5>1
      <4>3. CASE ~\E x \in kept : x.key = k
        <5>1. Remembered(k)' = 0
          BY <2>2, <4>3 DEF Remembered
        <5>2. Remembered(k) = 1 => forgotten'[k] = forgotten[k] + 1
          BY <3>2, <4>3 DEF Remembered, Marked
        <5>3. Remembered(k) \in {0, 1}
          BY DEF Remembered
        <5> QED BY <3>1, <3>2, <4>1, <5>1, <5>2, <5>3
      <4> QED BY <4>2, <4>3
    <3> QED BY <3>3, <3>4
  <2>6. CuesPaid'
    BY <1>1, <2>5 DEF CuesPaid
  <2>7. LinesPaid'
    BY <1>1, <2>1 DEF LinesPaid, CaptionInv, LineToCome
  <2> QED BY <2>4, <2>6, <2>7 DEF CaptionInv
<1> QED BY <1>2, <1>3

LEMMA CueKeepsCaptions == ASSUME CaptionInv, AddCues PROVE CaptionInv'
<1>1. /\ adding \in Event /\ adding.key \in Key /\ step = "cue" /\ step' = "transcript"
      /\ adding' = adding /\ cues' = Append(cues, adding.key) /\ transcript' = transcript
      /\ seen' = seen /\ forgotten' = forgotten /\ posted' = posted
  BY DEF AddCues, CaptionInv, CaptionTypes, memory, Key
<1>2. cues' \in Seq(Key)
  BY <1>1, CountAppend DEF CaptionInv, CaptionTypes
<1>3. CaptionTypes'
  BY <1>1, <1>2 DEF CaptionInv, CaptionTypes, Steps
<1>4. ASSUME NEW k \in Key
      PROVE  /\ Count(cues', k) + CueToCome(k)' <= forgotten'[k] + Remembered(k)'
             /\ Count(transcript', k) + LineToCome(k)' <= Count(cues', k)
  <2>1. Count(cues', k) = Count(cues, k) + (IF adding.key = k THEN 1 ELSE 0)
    BY <1>1, CountAppend DEF CaptionInv, CaptionTypes
  <2>2. /\ Count(cues, k) \in Nat /\ Count(transcript, k) \in Nat /\ forgotten[k] \in Nat
    BY CountIsNat DEF CaptionInv, CaptionTypes
  <2>3. /\ Count(cues, k) + (IF adding.key = k THEN 1 ELSE 0) <= forgotten[k] + Remembered(k)
        /\ Count(transcript, k) + 0 <= Count(cues, k)
    BY <1>1 DEF CaptionInv, CuesPaid, LinesPaid, CueToCome, LineToCome
  <2>4. Remembered(k)' = Remembered(k) /\ Remembered(k) \in {0, 1}
    BY <1>1 DEF Remembered
  <2>5. CueToCome(k)' = 0 /\ LineToCome(k)' = IF adding.key = k THEN 1 ELSE 0
    BY <1>1 DEF CueToCome, LineToCome
  <2> QED BY <1>1, <2>1, <2>2, <2>3, <2>4, <2>5
<1> QED BY <1>3, <1>4 DEF CaptionInv, CuesPaid, LinesPaid

LEMMA LineKeepsCaptions == ASSUME CaptionInv, AddTranscribes PROVE CaptionInv'
<1>1. /\ adding \in Event /\ adding.key \in Key /\ step = "transcript" /\ step' = "remember"
      /\ adding' = adding /\ transcript' = Append(transcript, adding.key) /\ cues' = cues
      /\ seen' = seen /\ forgotten' = forgotten /\ posted' = posted
  BY DEF AddTranscribes, CaptionInv, CaptionTypes, memory, Key
<1>2. transcript' \in Seq(Key)
  BY <1>1, CountAppend DEF CaptionInv, CaptionTypes
<1>3. CaptionTypes'
  BY <1>1, <1>2 DEF CaptionInv, CaptionTypes, Steps
<1>4. CuesPaid'
  BY <1>1 DEF CaptionInv, CuesPaid, CueToCome, Remembered
<1>5. ASSUME NEW k \in Key PROVE Count(transcript', k) + LineToCome(k)' <= Count(cues', k)
  <2>1. Count(transcript', k) = Count(transcript, k) + (IF adding.key = k THEN 1 ELSE 0)
    BY <1>1, CountAppend DEF CaptionInv, CaptionTypes
  <2>2. Count(cues, k) \in Nat /\ Count(transcript, k) \in Nat
    BY CountIsNat DEF CaptionInv, CaptionTypes
  <2>3. Count(transcript, k) + (IF adding.key = k THEN 1 ELSE 0) <= Count(cues, k)
    BY <1>1 DEF CaptionInv, LinesPaid, LineToCome
  <2>4. LineToCome(k)' = 0
    BY <1>1 DEF LineToCome
  <2> QED BY <1>1, <2>1, <2>2, <2>3, <2>4
<1> QED BY <1>3, <1>4, <1>5 DEF CaptionInv, LinesPaid

LEMMA CrashKeepsCaptions == ASSUME CaptionInv, Crash PROVE CaptionInv'
<1>1. /\ step' = "idle" /\ posted' = {} /\ seen' = {} /\ forgotten' = Forgets(seen)
      /\ cues' = cues /\ transcript' = transcript
  BY DEF Crash, sidecars
<1>2. ASSUME NEW k \in Key
      PROVE  /\ forgotten' \in [Key -> Nat]
             /\ forgotten[k] <= forgotten'[k]
             /\ (\E x \in seen : x.key = k) => forgotten'[k] = forgotten[k] + 1
  <2>1. forgotten[k] \in Nat
    BY DEF CaptionInv, CaptionTypes
  <2> QED BY <1>1, <2>1 DEF CaptionInv, CaptionTypes, Forgets
<1>3. CaptionTypes'
  <2>1. forgotten' \in [Key -> Nat]
    BY <1>1 DEF CaptionInv, CaptionTypes, Forgets
  <2> QED BY <1>1, <2>1 DEF CaptionInv, CaptionTypes, Steps
<1>4. ASSUME NEW k \in Key
      PROVE  /\ Count(cues', k) + CueToCome(k)' <= forgotten'[k] + Remembered(k)'
             /\ Count(transcript', k) + LineToCome(k)' <= Count(cues', k)
  <2>1. /\ Count(cues, k) \in Nat /\ Count(transcript, k) \in Nat
        /\ forgotten[k] \in Nat /\ forgotten'[k] \in Nat
    BY <1>2, CountIsNat DEF CaptionInv, CaptionTypes
  <2>2. /\ CueToCome(k)' = 0 /\ LineToCome(k)' = 0 /\ Remembered(k)' = 0
        /\ CueToCome(k) \in {0, 1} /\ LineToCome(k) \in {0, 1}
    BY <1>1 DEF CueToCome, LineToCome, Remembered
  <2>3. forgotten[k] + Remembered(k) <= forgotten'[k]
    BY <1>2, <2>1 DEF Remembered
  <2>4. Remembered(k) \in {0, 1}
    BY DEF Remembered
  <2> QED BY <1>1, <2>1, <2>2, <2>3, <2>4 DEF CaptionInv, CuesPaid, LinesPaid
<1> QED BY <1>3, <1>4 DEF CaptionInv, CuesPaid, LinesPaid

\* A call that goes on or gives up has no more to write than before.
LEMMA OtherStepsKeepCaptions ==
  ASSUME CaptionInv, posted' \subseteq Event,
         UNCHANGED <<seen, forgotten, cues, transcript>>,
         \/ UNCHANGED call
         \/ step' = "idle"
         \/ adding' = adding /\ step = "log" /\ step' \in {"cue", "remember"}
  PROVE  CaptionInv'
<1>1. CaptionTypes'
  BY DEF CaptionInv, CaptionTypes, Steps, call
<1>2. ASSUME NEW k \in Key
      PROVE  /\ Count(cues', k) + CueToCome(k)' <= forgotten'[k] + Remembered(k)'
             /\ Count(transcript', k) + LineToCome(k)' <= Count(cues', k)
  <2>1. /\ Count(cues, k) \in Nat /\ Count(transcript, k) \in Nat /\ forgotten[k] \in Nat
    BY CountIsNat DEF CaptionInv, CaptionTypes
  <2>2. CueToCome(k)' <= CueToCome(k) /\ LineToCome(k)' <= LineToCome(k)
    BY DEF CueToCome, LineToCome, call
  <2>3. /\ {CueToCome(k), CueToCome(k)', LineToCome(k), LineToCome(k)', Remembered(k)} \subseteq {0, 1}
        /\ Remembered(k)' = Remembered(k)
    BY DEF CueToCome, LineToCome, Remembered
  <2> QED BY <2>1, <2>2, <2>3 DEF CaptionInv, CuesPaid, LinesPaid
<1> QED BY <1>1, <1>2 DEF CaptionInv, CuesPaid, LinesPaid

LEMMA CaptionStep == CaptionInv /\ [Next]_vars => CaptionInv'
<1> SUFFICES ASSUME CaptionInv, [Next]_vars PROVE CaptionInv'
  OBVIOUS
<1>0. posted \subseteq Event
  BY DEF CaptionInv, CaptionTypes
<1> USE DEF memory, call, sidecars, counters
<1>1. CASE StartRewritesLog
  BY <1>0, <1>1, OtherStepsKeepCaptions DEF StartRewritesLog
<1>2. CASE RunStarts
  BY <1>0, <1>2, OtherStepsKeepCaptions DEF RunStarts
<1>3. CASE RunEnds
  BY <1>0, <1>3, OtherStepsKeepCaptions DEF RunEnds
<1>4. ASSUME NEW e \in Event, Post(e) PROVE CaptionInv'
  BY <1>0, <1>4, OtherStepsKeepCaptions DEF Post
<1>5. ASSUME NEW e \in Event, AddBegins(e) PROVE CaptionInv'
  BY <1>5, BeginKeepsCaptions
<1>6. CASE AddFails
  BY <1>0, <1>6, OtherStepsKeepCaptions DEF AddFails
<1>7. CASE AddLogs
  BY <1>0, <1>7, OtherStepsKeepCaptions DEF AddLogs
<1>8. CASE AddCues
  BY <1>8, CueKeepsCaptions
<1>9. CASE AddTranscribes
  BY <1>9, LineKeepsCaptions
<1>10. CASE AddRemembers
  BY <1>0, <1>10, OtherStepsKeepCaptions DEF AddRemembers
<1>11. CASE Crash
  BY <1>11, CrashKeepsCaptions
<1>12. CASE UNCHANGED vars
  BY <1>0, <1>12, OtherStepsKeepCaptions DEF vars
<1> QED BY <1>1, <1>2, <1>3, <1>4, <1>5, <1>6, <1>7, <1>8, <1>9, <1>10, <1>11, <1>12 DEF Next

LEMMA CaptionInvGivesOnce == CaptionInv => CaptionOnce
<1> SUFFICES ASSUME CaptionInv, NEW k \in Key
             PROVE  Count(transcript, k) <= Count(cues, k) /\ Count(cues, k) <= 1 + forgotten[k]
  BY DEF CaptionOnce
<1>1. Count(cues, k) \in Nat /\ Count(transcript, k) \in Nat /\ forgotten[k] \in Nat
  BY CountIsNat DEF CaptionInv, CaptionTypes
<1>2. {CueToCome(k), LineToCome(k), Remembered(k)} \subseteq {0, 1}
  BY DEF CueToCome, LineToCome, Remembered
<1> QED BY <1>1, <1>2 DEF CaptionInv, CuesPaid, LinesPaid

(* For any set of events and any bounds: a caption is in a file at most once more often than its
   key was forgotten, and never in the transcript more often than in the cues (Add marks the
   key before it writes, appendCaption writes the cue first). *)
THEOREM CaptionsWrittenOnce == Spec => []CaptionOnce
<1> QED BY CaptionInit, CaptionStep, CaptionInvGivesOnce, PTL DEF Spec
=============================================================================
