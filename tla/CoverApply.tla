----------------------------- MODULE CoverApply -----------------------------
(***************************************************************************)
(* The two visual layers of a running encoder: ApplyVideoCover changes the *)
(* Cover, UpdateRuntimeSettings the Watermark, and wait clears both when   *)
(* the child exits (internal/streamproc: cover_apply.go, cover_state.go,   *)
(* runtime_settings.go, process_lifecycle.go).                             *)
(*                                                                         *)
(* A new frame is handed to the layer's feed and a witness then waits for  *)
(* its delivery and for the output to advance.  A witness that times out   *)
(* leaves open whether the graph took the frame: it may, now or later.     *)
(* The module starts after a start: revision 1 of the Cover is applied, or *)
(* the start was a legacy one that negotiated no Cover.                    *)
(***************************************************************************)
EXTENDS Naturals, Sequences

CONSTANTS
  Applier,        \* callers of ApplyVideoCover
  Setter,         \* callers of UpdateRuntimeSettings
  Key,            \* idempotency keys
  MaxRevision,    \* bound on the Cover revisions asked for
  MaxFrame,       \* bound on the Watermark frames delivered
  MaxReplay,      \* maxCoverReplayEntries
  None, Wait      \* nobody; the goroutine that waits for the child

ASSUME CoverAssumption ==
  /\ MaxRevision \in Nat \ {0} /\ MaxFrame \in Nat /\ MaxReplay \in Nat \ {0}
  /\ Applier \cap Setter = {}
  /\ {None, Wait} \cap (Applier \cup Setter) = {} /\ None # Wait

VARIABLES
  managerLock, coverLock, runtimeLock, \* Manager.mu, tracked.coverMu, .runtimeMu
  at,          \* where each caller is
  request,     \* the ApplyRequest of each applier
  waiter,      \* where wait is
  cover,       \* tracked.coverState: is it negotiated, what is desired, applied
               \* and was last known applied (0: unknown), and the witness
  watermark,   \* tracked.watermarkState: the frame it describes
  closed,      \* tracked fields that wait has set to nil
  terminal,    \* tracked.terminalCoverState: the last revision known applied
  replay,      \* tracked.coverReplayOrder with coverReplay: requests and outcomes
  coverFeed, watermarkFeed,   \* the frame in each feed
  coverShown, watermarkShown, \* the frame the graph shows
  writes,      \* history: how often each Cover revision was handed to the feed
  everApplied  \* history: the newest Cover revision known to have been applied

locks == <<managerLock, coverLock, runtimeLock>>
callers == <<at, request>>
state == <<cover, watermark, closed, terminal, replay>>
graph == <<coverFeed, watermarkFeed, coverShown, watermarkShown>>
history == <<writes, everApplied>>
vars == <<locks, callers, waiter, state, graph, history>>

Revision == 1..MaxRevision
Frame == 0..MaxFrame

\* "current" stands for the two generations the request is fenced by.
Request == [key : Key, revision : Revision, active : BOOLEAN, current : BOOLEAN]

NoRequest == [key |-> None, revision |-> 0, active |-> FALSE, current |-> FALSE]
NoWitness == [cover |-> 0, watermark |-> 0]
NotNegotiated == [negotiated |-> FALSE, desired |-> 0, applied |-> 0, lastGood |-> 0,
                  witness |-> NoWitness]

Witness == [cover : 0..MaxRevision, watermark : Frame]
CoverState == [negotiated : BOOLEAN, desired : 0..MaxRevision, applied : 0..MaxRevision,
               lastGood : 0..MaxRevision, witness : Witness]
ReplayEntry == [request : Request, outcome : {"rejected", "applied", "ambiguous"}]

ApplyPlace == {"idle", "asked", "locking", "fetching", "witnessing"}
SettingsPlace == {"idle", "checked", "commanded", "witnessing", "publishing"}

TypeOK ==
  /\ managerLock \in Applier \cup {Wait, None}
  /\ coverLock \in Applier \cup Setter \cup {None} /\ runtimeLock \in Setter \cup {None}
  /\ at \in [Applier \cup Setter -> ApplyPlace \cup SettingsPlace]
  /\ \A a \in Applier : at[a] \in ApplyPlace
  /\ \A s \in Setter : at[s] \in SettingsPlace
  /\ request \in [Applier -> Request \cup {NoRequest}]
  /\ waiter \in {"running", "exited", "locked", "scrubbed", "forgot", "done"}
  /\ cover \in CoverState
  /\ watermark \in Frame
  /\ closed \subseteq {"cover", "watermark"}
  /\ terminal \in 0..MaxRevision
  /\ replay \in Seq(ReplayEntry)
  /\ Len(replay) <= MaxReplay
  /\ coverFeed \in 0..MaxRevision /\ coverShown \in 0..MaxRevision
  /\ watermarkFeed \in Frame /\ watermarkShown \in Frame
  /\ writes \in [Revision -> Nat] /\ everApplied \in 0..MaxRevision

Init ==
  /\ managerLock = None /\ coverLock = None /\ runtimeLock = None
  /\ at = [c \in Applier \cup Setter |-> "idle"]
  /\ request = [a \in Applier |-> NoRequest]
  /\ waiter = "running"
  /\ \E negotiated \in BOOLEAN :
       /\ cover = IF negotiated
                  THEN [negotiated |-> TRUE, desired |-> 1, applied |-> 1, lastGood |-> 0,
                        witness |-> [cover |-> 1, watermark |-> 0]]
                  ELSE NotNegotiated
       /\ LET shown == IF negotiated THEN 1 ELSE 0
          IN  coverFeed = shown /\ coverShown = shown /\ everApplied = shown
  /\ watermark = 0 /\ watermarkFeed = 0 /\ watermarkShown = 0
  /\ closed = {} /\ terminal = 0 /\ replay = <<>>
  /\ writes = [r \in Revision |-> 0]

-----------------------------------------------------------------------------
(* ApplyVideoCover.  It takes Manager.mu, then coverMu while still holding *)
(* Manager.mu, and keeps coverMu until it answers.                         *)

Running == waiter \in {"running", "exited"}

ApplyAsked(a) ==
  /\ at[a] = "idle"
  /\ at' = [at EXCEPT ![a] = "asked"]
  /\ UNCHANGED <<locks, request, waiter, state, graph, history>>

\* The request is chosen when it is first looked at.
ApplyLocksManager(a) ==
  /\ at[a] = "asked"
  /\ managerLock = None
  /\ managerLock' = a
  /\ \E q \in Request : request' = [request EXCEPT ![a] = q]
  /\ at' = [at EXCEPT ![a] = "locking"]
  /\ UNCHANGED <<coverLock, runtimeLock, waiter, state, graph, history>>

Answered(a) ==
  /\ at' = [at EXCEPT ![a] = "idle"]
  /\ request' = [request EXCEPT ![a] = NoRequest]

\* storeCoverReplay: the oldest entry makes room.
Remembering(q, outcome) ==
  LET entries == Append(replay, [request |-> q, outcome |-> outcome])
  IN  IF Len(entries) > MaxReplay THEN Tail(entries) ELSE entries

Replayed(q) == \E i \in DOMAIN replay : replay[i].request.key = q.key

MutableAgain(q) == q.current /\ q.revision >= cover.desired

\* The fences of cover_apply.go:76-95.
Mutable(q) == q.current /\ q.revision > cover.desired

\* The answers that need neither the asset nor the feed: the stream is not
\* running or negotiated no Cover, the key is known (the stored response, or a
\* conflict), or the request is fenced off, which is remembered.
ApplyAnsweredAtOnce(a) ==
  /\ at[a] = "locking"
  /\ coverLock = None
  /\ LET q == request[a]
         open == Running /\ "cover" \notin closed /\ cover.negotiated
     IN  /\ open => (Replayed(q) \/ ~Mutable(q))
         /\ replay' = IF open /\ ~Replayed(q) THEN Remembering(q, "rejected") ELSE replay
  /\ managerLock' = None
  /\ Answered(a)
  /\ UNCHANGED <<coverLock, runtimeLock, waiter, cover, watermark, closed, terminal, graph, history>>

ApplyBegins(a) ==
  /\ at[a] = "locking"
  /\ coverLock = None
  /\ Running /\ "cover" \notin closed /\ cover.negotiated
  /\ ~Replayed(request[a]) /\ Mutable(request[a])
  /\ managerLock' = None
  /\ coverLock' = a
  /\ at' = [at EXCEPT ![a] = "fetching"]
  /\ UNCHANGED <<runtimeLock, request, waiter, state, graph, history>>

ApplyRejectedKeepsLock(a) ==
  /\ at[a] = "fetching"
  /\ request[a].active
  /\ replay' \in {replay, Remembering(request[a], "rejected")}
  /\ Answered(a)
  /\ UNCHANGED <<locks, waiter, cover, watermark, closed, terminal, graph, history>>

\* The asset is refused or late; an invalid request is not even remembered.
ApplyRejected(a) ==
  /\ at[a] = "fetching"
  /\ request[a].active
  /\ replay' \in {replay, Remembering(request[a], "rejected")}
  /\ coverLock' = None
  /\ Answered(a)
  /\ UNCHANGED <<managerLock, runtimeLock, waiter, cover, watermark, closed, terminal, graph, history>>

ApplyDelivers(a) ==
  /\ at[a] = "fetching"
  /\ LET r == request[a].revision
     IN  /\ cover' = [cover EXCEPT !.desired = r]
         /\ coverFeed' = r
         /\ writes' = [writes EXCEPT ![r] = @ + 1]
  /\ at' = [at EXCEPT ![a] = "witnessing"]
  /\ UNCHANGED <<locks, request, waiter, watermark, closed, terminal, replay,
                 watermarkFeed, coverShown, watermarkShown, everApplied>>

WitnessAtOnce(a) == at[a] = "witnessing"

\* The witness saw the frame delivered and the output advance.
CoverWitnessed(a) == at[a] = "witnessing" /\ coverShown = coverFeed

\* markCoverApplied
ApplyWitnessed(a) ==
  /\ CoverWitnessed(a)
  /\ LET r == request[a].revision
     IN  /\ cover' = [cover EXCEPT !.applied = r, !.lastGood = 0,
                        !.witness = [cover |-> r, watermark |-> watermark]]
         /\ everApplied' = r
  /\ replay' = Remembering(request[a], "applied")
  /\ coverLock' = None
  /\ Answered(a)
  /\ UNCHANGED <<managerLock, runtimeLock, waiter, watermark, closed, terminal, graph, writes>>

KeptGoodOfApplied == cover.applied

\* The revision known applied before stays known as the last good one.
KeptGood == IF cover.lastGood # 0 THEN cover.lastGood ELSE cover.applied

ApplyAmbiguous(a) ==
  /\ at[a] = "witnessing"
  /\ cover' = [cover EXCEPT !.applied = 0, !.lastGood = KeptGood, !.witness = NoWitness]
  /\ replay' = Remembering(request[a], "ambiguous")
  /\ coverLock' = None
  /\ Answered(a)
  /\ UNCHANGED <<managerLock, runtimeLock, waiter, watermark, closed, terminal, graph, history>>

-----------------------------------------------------------------------------
(* UpdateRuntimeSettings.  It looks the stream up under Manager.mu, gives  *)
(* the lock back, and takes runtimeMu and then coverMu.                    *)

SettingsChecked(s) ==
  /\ at[s] = "idle"
  /\ watermarkFeed < MaxFrame
  /\ managerLock = None
  /\ Running /\ "watermark" \notin closed
  /\ at' = [at EXCEPT ![s] = "checked"]
  /\ UNCHANGED <<locks, request, waiter, state, graph, history>>

\* runtimeMu, and the gain command; a broken pipe ends the request.
SettingsCommanded(s) ==
  /\ at[s] = "checked"
  /\ runtimeLock = None
  /\ \/ /\ runtimeLock' = s
        /\ at' = [at EXCEPT ![s] = "commanded"]
     \/ /\ at' = [at EXCEPT ![s] = "idle"]
        /\ UNCHANGED runtimeLock
  /\ UNCHANGED <<managerLock, coverLock, request, waiter, state, graph, history>>

SettingsDelivers(s) ==
  /\ at[s] = "commanded"
  /\ coverLock = None
  /\ "watermark" \notin closed
  /\ watermarkFeed < MaxFrame
  /\ coverLock' = s
  /\ watermarkFeed' = watermarkFeed + 1
  /\ at' = [at EXCEPT ![s] = "witnessing"]
  /\ UNCHANGED <<managerLock, runtimeLock, request, waiter, state,
                 coverFeed, coverShown, watermarkShown, history>>

\* markWatermarkWitnessUnknownLocked
WitnessUnknown ==
  cover' = IF ~cover.negotiated THEN cover
           ELSE [cover EXCEPT !.lastGood = IF cover.applied # 0 THEN cover.applied ELSE @,
                              !.applied = 0, !.witness = NoWitness]

\* wait has already set tracked.watermark to nil: an error without a delivery.
\* (A caller that would pass the bound MaxFrame fails in the same way.)
SettingsFoundClosed(s) ==
  /\ at[s] = "commanded"
  /\ coverLock = None
  /\ "watermark" \in closed \/ watermarkFeed = MaxFrame
  /\ WitnessUnknown
  /\ runtimeLock' = None
  /\ at' = [at EXCEPT ![s] = "idle"]
  /\ UNCHANGED <<managerLock, coverLock, request, waiter, watermark, closed, terminal, replay,
                 graph, history>>

SettingsKeepWitness(s) ==
  /\ at[s] = "witnessing"
  /\ watermarkShown = watermarkFeed
  /\ watermark' = watermarkFeed
  /\ coverLock' = None
  /\ at' = [at EXCEPT ![s] = "publishing"]
  /\ UNCHANGED <<managerLock, runtimeLock, request, waiter, cover, closed, terminal, replay,
                 graph, history>>

\* The witness in a Cover that is known is bound to the new Watermark.
SettingsWitnessed(s) ==
  /\ at[s] = "witnessing"
  /\ watermarkShown = watermarkFeed
  /\ watermark' = watermarkFeed
  /\ cover' = IF cover.witness.cover = 0 THEN cover
              ELSE [cover EXCEPT !.witness.watermark = watermarkFeed]
  /\ coverLock' = None
  /\ at' = [at EXCEPT ![s] = "publishing"]
  /\ UNCHANGED <<managerLock, runtimeLock, request, waiter, closed, terminal, replay, graph, history>>

\* The witness times out.
SettingsAmbiguous(s) ==
  /\ at[s] = "witnessing"
  /\ WitnessUnknown
  /\ coverLock' = None /\ runtimeLock' = None
  /\ at' = [at EXCEPT ![s] = "idle"]
  /\ UNCHANGED <<managerLock, request, waiter, watermark, closed, terminal, replay, graph, history>>

\* The snapshot is updated under Manager.mu; runtimeMu goes with the return.
SettingsPublished(s) ==
  /\ at[s] = "publishing"
  /\ managerLock = None
  /\ runtimeLock' = None
  /\ at' = [at EXCEPT ![s] = "idle"]
  /\ UNCHANGED <<managerLock, coverLock, request, waiter, state, graph, history>>

-----------------------------------------------------------------------------
(* The end of the child: wait holds Manager.mu and takes coverMu twice.    *)

ChildExits ==
  /\ waiter = "running"
  /\ waiter' = "exited"
  /\ UNCHANGED <<locks, callers, state, graph, history>>

WaitLocksManager ==
  /\ waiter = "exited"
  /\ managerLock = None
  /\ managerLock' = Wait
  /\ waiter' = "locked"
  /\ UNCHANGED <<coverLock, runtimeLock, callers, state, graph, history>>

MayScrubAnyTime == waiter = "locked"

MayScrub == waiter = "locked" /\ coverLock = None

\* scrubTrackedProcessJob: the terminal state keeps the last good revision.
WaitScrubs ==
  /\ MayScrub
  /\ terminal' = IF cover.applied # 0 THEN cover.applied ELSE cover.lastGood
  /\ cover' = NotNegotiated
  /\ replay' = <<>>
  /\ waiter' = "scrubbed"
  /\ UNCHANGED <<locks, callers, watermark, closed, graph, history>>

WaitForgetsWatermark ==
  /\ waiter = "scrubbed"
  /\ closed' = closed \cup {"watermark"}
  /\ waiter' = "forgot"
  /\ UNCHANGED <<locks, callers, cover, watermark, terminal, replay, graph, history>>

WaitForgetsCover ==
  /\ waiter = "forgot"
  /\ coverLock = None
  /\ closed' = closed \cup {"cover"}
  /\ managerLock' = None
  /\ waiter' = "done"
  /\ UNCHANGED <<coverLock, runtimeLock, callers, cover, watermark, terminal, replay, graph, history>>

-----------------------------------------------------------------------------
(* The graph takes the frame in a feed, whenever it gets to it.            *)

GraphShowsCover ==
  /\ waiter = "running"
  /\ coverShown # coverFeed
  /\ coverShown' = coverFeed
  /\ UNCHANGED <<locks, callers, waiter, state, coverFeed, watermarkFeed, watermarkShown, history>>

GraphShowsWatermark ==
  /\ waiter = "running"
  /\ watermarkShown # watermarkFeed
  /\ watermarkShown' = watermarkFeed
  /\ UNCHANGED <<locks, callers, waiter, state, coverFeed, watermarkFeed, coverShown, history>>

ApplyProceeds(a) ==
  \/ ApplyLocksManager(a) \/ ApplyAnsweredAtOnce(a) \/ ApplyBegins(a)
  \/ ApplyRejected(a) \/ ApplyDelivers(a) \/ ApplyWitnessed(a) \/ ApplyAmbiguous(a)
SettingsProceed(s) ==
  \/ SettingsCommanded(s) \/ SettingsDelivers(s) \/ SettingsFoundClosed(s)
  \/ SettingsWitnessed(s) \/ SettingsAmbiguous(s) \/ SettingsPublished(s)
WaitProceeds == WaitLocksManager \/ WaitScrubs \/ WaitForgetsWatermark \/ WaitForgetsCover

Next ==
  \/ \E a \in Applier : ApplyAsked(a) \/ ApplyProceeds(a)
  \/ \E s \in Setter : SettingsChecked(s) \/ SettingsProceed(s)
  \/ ChildExits \/ WaitProceeds
  \/ GraphShowsCover \/ GraphShowsWatermark

Spec == Init /\ [][Next]_vars

\* A goroutine that can run runs, a Go mutex goes to a waiter that keeps asking,
\* and asset loads and witnesses have a timeout.  Each is strong because a lock
\* may be taken and given back by others in between.
Fairness ==
  /\ \A a \in Applier : SF_vars(ApplyProceeds(a))
  /\ \A s \in Setter : SF_vars(SettingsProceed(s))
  /\ SF_vars(WaitProceeds)

FairSpec == Spec /\ Fairness

-----------------------------------------------------------------------------
\* Applied means shown: whatever a caller can read while nobody changes the
\* layers, a revision called applied is the one the graph shows.
AppliedIsShown ==
  (coverLock = None /\ cover.applied # 0) =>
    /\ coverShown = cover.applied /\ cover.desired = cover.applied
    /\ cover.witness.cover = cover.applied

\* "This prevents a concurrent Cover apply from publishing a witness that pairs
\* its new Cover revision with a pre-witness Watermark" (runtime_settings.go:49-51):
\* a witness names the newest Watermark that was witnessed, and while nothing was
\* delivered after it that is the one the graph shows.
WitnessIsCurrent ==
  (coverLock = None /\ cover.witness.cover # 0) =>
    /\ cover.witness.watermark = watermark
    /\ watermarkFeed = watermark => watermarkShown = watermark

\* "the combined graph witness is no longer safe after a Watermark delivery
\* whose downstream effect could not be observed" (cover_state.go:181-183): no
\* witness is published while such a delivery is the last one.  Not so after
\* the next cover apply: no run checks it, the README tells why.
NoWitnessAfterUnobserved ==
  (coverLock = None /\ cover.witness.cover # 0) => watermarkFeed = watermark

\* "Once feed delivery begins, any missing graph witness is ambiguous and is
\* never retried automatically" (cover_apply.go:33-35): no revision is handed
\* to the feed twice, also when its response has left the replay cache.
NeverResent == \A r \in Revision : writes[r] <= 1

\* What a caller is told was last good is the newest revision ever known to be
\* applied, through ambiguous applies, Watermark updates and the end of the child.
LastGoodIsNewest ==
  /\ (coverLock = None /\ cover.negotiated /\ cover.applied = 0) => cover.lastGood = everApplied
  /\ waiter \in {"scrubbed", "forgot", "done"} => terminal = everApplied

\* A late witness does not bring a finished stream back: once the terminal
\* state is taken no Cover is negotiated, applied or witnessed.
EndedStaysTerminal ==
  waiter \in {"scrubbed", "forgot", "done"} => cover = NotNegotiated

\* The end of the child is processed, although wait and the callers hold
\* Manager.mu while they wait for coverMu, and coverMu while they wait for an
\* asset or for the graph.
EndProcessed == (waiter = "exited") ~> (waiter = "done")
=============================================================================
