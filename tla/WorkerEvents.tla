---------------------------- MODULE WorkerEvents ----------------------------
(***************************************************************************)
(* The worker events of one stream (internal/workerevents/manager.go and   *)
(* its route): a worker posts an event, perhaps several times; the route   *)
(* asks whether the stream runs, Add fences old generations, drops what it *)
(* has seen, and writes the log line, the caption cue and the transcript   *)
(* one after the other.  Each write may fail, and the process may die      *)
(* between two of them; what Add remembers is in memory only.              *)
(***************************************************************************)
EXTENDS Naturals, FiniteSets, Sequences

CONSTANTS
  Event,      \* records [id, key, generation, time, caption]: key is what eventDedupeKey returns
  MaxSeen, MaxRecent,
  MaxPosts,   \* bound on the requests
  MaxRuns,    \* bound on the runs of the stream
  MaxFails,   \* bound on the writes that fail
  MaxCrashes

None == "none"

ASSUME EventsAssumption ==
  /\ \A e \in Event : e.generation \in Nat /\ e.time \in Nat /\ e.caption \in BOOLEAN
  /\ MaxSeen \in Nat \ {0} /\ MaxRecent \in Nat \ {0}

VARIABLES
  stream,      \* "none", "starting" or "running"
  posted,      \* requests that passed the route's check
  seen,        \* keys, with the time of their event
  latest,      \* latestGeneration
  recent,      \* the last events, for the control panel
  adding,      \* the event of the call that holds the mutex, None if it is free
  step,        \* what that call does next
  log, cues, transcript,   \* the three files: events in the order of their lines
  forgotten,   \* per key: how often it was trimmed or lost with the process
  posts, runs, fails, crashes

memory == <<seen, latest, recent>>
call == <<adding, step>>
sidecars == <<log, cues, transcript>>
counters == <<posts, runs, fails, crashes>>
vars == <<stream, posted, memory, call, sidecars, forgotten, counters>>

Key == {e.key : e \in Event}

Init ==
  /\ stream = "none" /\ posted = {}
  /\ seen = {} /\ latest = 0 /\ recent = <<>>
  /\ adding = None /\ step = "idle"
  /\ log = <<>> /\ cues = <<>> /\ transcript = <<>>
  /\ forgotten = [k \in Key |-> 0]
  /\ posts = 0 /\ runs = 0 /\ fails = 0 /\ crashes = 0

\* A start writes a new log file; captions and transcript stay from run to run.
StartRewritesLog ==
  /\ stream = "none" /\ runs < MaxRuns
  /\ stream' = "starting"
  /\ runs' = runs + 1
  /\ log' = <<>>
  /\ UNCHANGED <<posted, memory, call, cues, transcript, forgotten, posts, fails, crashes>>

RunStarts ==
  /\ stream = "starting"
  /\ stream' = "running"
  /\ UNCHANGED <<posted, memory, call, sidecars, forgotten, counters>>

\* The run is over, or its start has failed.
RunEnds ==
  /\ stream # "none"
  /\ stream' = "none"
  /\ UNCHANGED <<posted, memory, call, sidecars, forgotten, counters>>

\* The route: a request is let through while the stream runs.  It may wait for the mutex until
\* the run is over.
Post(e) ==
  /\ posts < MaxPosts
  /\ stream = "running"
  /\ e \notin posted
  /\ posted' = posted \cup {e}
  /\ posts' = posts + 1
  /\ UNCHANGED <<stream, memory, call, sidecars, forgotten, runs, fails, crashes>>

NoFence(e) == TRUE

Current(e) == e.generation = 0 \/ e.generation >= latest

KeyOfRequest(e) == e.id

KeyOf(e) == e.key

\* trimSeenLocked: the keys of the newest events stay.
Trimmed(S, kept) ==
  /\ kept \subseteq S
  /\ Cardinality(kept) = IF Cardinality(S) <= MaxSeen THEN Cardinality(S) ELSE MaxSeen
  /\ \A x \in kept, y \in S \ kept : y.time <= x.time

Marked(e) == seen \cup {[key |-> KeyOf(e), time |-> e.time]}

Forgets(lost) ==
  [k \in Key |-> IF \E x \in lost : x.key = k THEN forgotten[k] + 1 ELSE forgotten[k]]

\* The fence, the generation and the seen set change before anything is written.
AddBegins(e) ==
  /\ step = "idle" /\ e \in posted
  /\ posted' = posted \ {e}
  /\ IF ~Current(e)
     THEN UNCHANGED <<seen, latest, forgotten, call>>
     ELSE /\ latest' = IF e.generation > latest THEN e.generation ELSE latest
          /\ IF \E x \in seen : x.key = KeyOf(e)
             THEN UNCHANGED <<seen, forgotten, call>>
             ELSE /\ \E kept \in SUBSET Marked(e) :
                       /\ Trimmed(Marked(e), kept)
                       /\ seen' = kept
                       /\ forgotten' = Forgets(Marked(e) \ kept)
                  /\ adding' = e /\ step' = "log"
  /\ UNCHANGED <<stream, recent, sidecars, counters>>

\* A write fails: the call ends with an error, and nothing it remembered is taken back.
AddFails ==
  /\ step \in {"log", "cue", "transcript"}
  /\ fails < MaxFails
  /\ fails' = fails + 1
  /\ adding' = None /\ step' = "idle"
  /\ UNCHANGED <<stream, posted, memory, sidecars, forgotten, posts, runs, crashes>>

AddLogs ==
  /\ step = "log"
  /\ log' = Append(log, adding)
  /\ step' = IF adding.caption THEN "cue" ELSE "remember"
  /\ UNCHANGED <<stream, posted, memory, adding, cues, transcript, forgotten, counters>>

AddCues ==
  /\ step = "cue"
  /\ cues' = Append(cues, adding.key)
  /\ step' = "transcript"
  /\ UNCHANGED <<stream, posted, memory, adding, log, transcript, forgotten, counters>>

\* appendTranscript reads the file and replaces it by a rename.
AddTranscribes ==
  /\ step = "transcript"
  /\ transcript' = Append(transcript, adding.key)
  /\ step' = "remember"
  /\ UNCHANGED <<stream, posted, memory, adding, log, cues, forgotten, counters>>

Newest(s) == IF Len(s) > MaxRecent THEN SubSeq(s, Len(s) - MaxRecent + 1, Len(s)) ELSE s

AddRemembers ==
  /\ step = "remember"
  /\ recent' = Newest(Append(recent, adding))
  /\ adding' = None /\ step' = "idle"
  /\ UNCHANGED <<stream, posted, seen, latest, sidecars, forgotten, counters>>

\* The files stay; the pending requests and all that Add remembers go.
Crash ==
  /\ crashes < MaxCrashes
  /\ crashes' = crashes + 1
  /\ stream' = "none" /\ posted' = {}
  /\ seen' = {} /\ latest' = 0 /\ recent' = <<>>
  /\ adding' = None /\ step' = "idle"
  /\ forgotten' = Forgets(seen)
  /\ UNCHANGED <<sidecars, posts, runs, fails>>

Next ==
  \/ StartRewritesLog \/ RunStarts \/ RunEnds
  \/ \E e \in Event : Post(e) \/ AddBegins(e)
  \/ AddFails \/ AddLogs \/ AddCues \/ AddTranscribes \/ AddRemembers
  \/ Crash

Spec == Init /\ [][Next]_vars

-----------------------------------------------------------------------------
(* In the log of a run no event of an older generation stands behind one of a newer
   generation, whatever order the requests arrive in, however long they wait for the mutex, and
   although the fence is forgotten when the process dies (Add compares with latestGeneration
   under the mutex; a start rewrites the log). *)
GenerationsInOrder ==
  \A i, j \in DOMAIN log :
    i < j /\ log[j].generation > 0 => log[i].generation <= log[j].generation

Count(s, k) == Cardinality({i \in DOMAIN s : s[i] = k})

(* A caption reaches each file at most once for every time its key was not remembered, and the
   transcript never without its cue: retries, a redelivery under a new event id, failed writes
   and restarts included (eventDedupeKey, the order of the writes in appendCaption). *)
CaptionOnce ==
  \A k \in Key :
    /\ Count(transcript, k) <= Count(cues, k)
    /\ Count(cues, k) <= 1 + forgotten[k]
=============================================================================
