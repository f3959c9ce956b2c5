------------------------- MODULE CoverApply_proofs --------------------------
(***************************************************************************)
(* Proofs about CoverApply, for any number of callers, revisions, frames   *)
(* and replay entries: what the state of the layers says is what the graph *)
(* shows, no revision is delivered twice, and the last good revision is    *)
(* known through ambiguous deliveries and the end of the child.            *)
(***************************************************************************)
EXTENDS CoverApply, FeedPromise, TLAPS

Ended == {"scrubbed", "forgot", "done"}

\* Whoever holds a lock is where the code holds it, and nobody else is.
LocksHeld ==
  /\ \A a \in Applier : at[a] = "locking" <=> managerLock = a
  /\ waiter \in {"locked", "scrubbed", "forgot"} <=> managerLock = Wait
  /\ \A a \in Applier : at[a] \in {"fetching", "witnessing"} <=> coverLock = a
  /\ \A s \in Setter : at[s] = "witnessing" <=> coverLock = s

\* An applier that got past the manager has a request, and while it holds coverMu the end of the
\* child is not processed.  What it fetches is newer than anything delivered.
ApplierHolds ==
  \A a \in Applier :
    /\ at[a] \in {"locking", "fetching", "witnessing"} => request[a] \in Request
    /\ at[a] \in {"fetching", "witnessing"} => waiter \notin Ended /\ cover.negotiated
    /\ at[a] = "fetching" => request[a].revision > cover.desired
    /\ at[a] = "witnessing" => request[a].revision = cover.desired

\* What was desired last is what is in the feed; only desired revisions were ever written.
FeedIsDesired ==
  /\ cover.negotiated => coverFeed = cover.desired
  /\ cover.negotiated => \A r \in Revision : writes[r] > 0 => r <= cover.desired
  /\ ~cover.negotiated => cover = NotNegotiated

\* A revision that is called applied is the newest one known to be, and unless another one is
\* being witnessed it is desired and shown.
KnownApplied ==
  /\ cover.applied # 0 =>
       /\ cover.applied = everApplied /\ cover.lastGood = 0
       /\ cover.witness.cover = cover.applied
       /\ (\A a \in Applier : at[a] # "witnessing") =>
            cover.desired = cover.applied /\ coverShown = cover.applied
  /\ cover.applied = 0 => cover.witness.cover = 0
  /\ waiter \notin Ended /\ cover.applied = 0 => cover.lastGood = everApplied
  /\ waiter \in Ended => terminal = everApplied

\* The frame a witness names is the one the watermark state has, and what was witnessed is not
\* newer than what was delivered.
WatermarkKnown ==
  /\ cover.witness.cover # 0 => cover.witness.watermark = watermark
  /\ watermark <= watermarkFeed
  /\ watermarkFeed = watermark => watermarkShown = watermark

CoverInv ==
  TypeOK /\ LocksHeld /\ ApplierHolds /\ FeedIsDesired /\ KnownApplied /\ WatermarkKnown
    /\ NeverResent /\ EndedStaysTerminal

LEMMA CoverInit == Init => CoverInv
<1> SUFFICES ASSUME Init PROVE CoverInv
  OBVIOUS
<1> USE CoverAssumption DEF Init
<1>1. PICK negotiated \in BOOLEAN :
        /\ cover = IF negotiated
                   THEN [negotiated |-> TRUE, desired |-> 1, applied |-> 1, lastGood |-> 0,
                         witness |-> [cover |-> 1, watermark |-> 0]]
                   ELSE NotNegotiated
        /\ coverFeed = IF negotiated THEN 1 ELSE 0
        /\ coverShown = IF negotiated THEN 1 ELSE 0
        /\ everApplied = IF negotiated THEN 1 ELSE 0
  OBVIOUS
<1>2. cover \in CoverState
  <2>1. NoWitness \in Witness /\ [cover |-> 1, watermark |-> 0] \in Witness
    BY DEF NoWitness, Witness, Frame
  <2>2. CASE negotiated
    BY <1>1, <2>1, <2>2 DEF CoverState
  <2>3. CASE ~negotiated
    BY <1>1, <2>1, <2>3 DEF CoverState, NotNegotiated
  <2> QED BY <2>2, <2>3
<1>3. TypeOK
  <2>1. /\ replay \in Seq(ReplayEntry) /\ Len(replay) <= MaxReplay
        /\ writes \in [Revision -> Nat]
    OBVIOUS
  <2>2. at \in [Applier \cup Setter -> ApplyPlace \cup SettingsPlace]
    BY DEF ApplyPlace, SettingsPlace
  <2>3. (\A a \in Applier : at[a] \in ApplyPlace) /\ \A s \in Setter : at[s] \in SettingsPlace
    BY DEF ApplyPlace, SettingsPlace
  <2>4. /\ coverFeed \in 0..MaxRevision /\ coverShown \in 0..MaxRevision
        /\ everApplied \in 0..MaxRevision
        /\ watermark \in Frame /\ watermarkFeed \in Frame /\ watermarkShown \in Frame
    BY <1>1 DEF Frame
  <2> QED BY <1>2, <2>1, <2>2, <2>3, <2>4 DEF TypeOK
<1>4. LocksHeld /\ ApplierHolds
  BY DEF LocksHeld, ApplierHolds
<1>5. FeedIsDesired
  <2>1. CASE negotiated
    BY <1>1, <2>1 DEF FeedIsDesired
  <2>2. CASE ~negotiated
    BY <1>1, <2>2 DEF FeedIsDesired, NotNegotiated
  <2> QED BY <2>1, <2>2
<1>6. KnownApplied
  BY <1>1 DEF KnownApplied, NotNegotiated, NoWitness, Ended
<1>7. WatermarkKnown
  BY <1>1 DEF WatermarkKnown, NotNegotiated, NoWitness
<1>8. NeverResent /\ EndedStaysTerminal
  BY DEF NeverResent, EndedStaysTerminal
<1> QED BY <1>3, <1>4, <1>5, <1>6, <1>7, <1>8 DEF CoverInv

\* storeCoverReplay keeps the entries well formed and their number bounded.
LEMMA RememberingTypes ==
  ASSUME TypeOK, NEW q \in Request, NEW outcome \in {"rejected", "applied", "ambiguous"}
  PROVE  /\ Remembering(q, outcome) \in Seq(ReplayEntry)
         /\ Len(Remembering(q, outcome)) <= MaxReplay
<1> DEFINE entries == Append(replay, [request |-> q, outcome |-> outcome])
<1>1. [request |-> q, outcome |-> outcome] \in ReplayEntry
  BY DEF ReplayEntry
<1>2. replay \in Seq(ReplayEntry) /\ Len(replay) <= MaxReplay
  BY DEF TypeOK
<1>3. entries \in Seq(ReplayEntry) /\ Len(entries) = Len(replay) + 1
  BY <1>1, <1>2
<1> HIDE DEF entries
<1>4. CASE Len(entries) > MaxReplay
  <2>1. entries # <<>>
    BY <1>3, <1>2
  <2>2. Tail(entries) \in Seq(ReplayEntry) /\ Len(Tail(entries)) = Len(entries) - 1
    BY <1>3, <2>1
  <2> QED BY <2>2, <1>2, <1>3, <1>4, CoverAssumption DEF Remembering, entries
<1>5. CASE ~(Len(entries) > MaxReplay)
  BY <1>2, <1>3, <1>5, CoverAssumption DEF Remembering, entries
<1> QED BY <1>4, <1>5

\* The ways in which the state of the Cover is changed leave it well formed.
LEMMA CoverUpdated ==
  ASSUME NEW c \in CoverState
  PROVE  /\ \A d, e \in 0..MaxRevision, w \in Witness :
              [c EXCEPT !.applied = d, !.lastGood = e, !.witness = w] \in CoverState
         /\ \A d, e \in 0..MaxRevision, w \in Witness :
              [c EXCEPT !.lastGood = e, !.applied = d, !.witness = w] \in CoverState
         /\ \A d \in 0..MaxRevision : [c EXCEPT !.desired = d] \in CoverState
         /\ \A f \in Frame : [c EXCEPT !.witness.watermark = f] \in CoverState
<1>1. ASSUME NEW d \in 0..MaxRevision, NEW e \in 0..MaxRevision, NEW w \in Witness
      PROVE  [c EXCEPT !.applied = d, !.lastGood = e, !.witness = w] \in CoverState
  BY Zenon DEF CoverState
<1>2. ASSUME NEW d \in 0..MaxRevision, NEW e \in 0..MaxRevision, NEW w \in Witness
      PROVE  [c EXCEPT !.lastGood = e, !.applied = d, !.witness = w] \in CoverState
  BY Zenon DEF CoverState
<1>3. ASSUME NEW d \in 0..MaxRevision PROVE [c EXCEPT !.desired = d] \in CoverState
  BY DEF CoverState
<1>4. ASSUME NEW f \in Frame PROVE [c EXCEPT !.witness.watermark = f] \in CoverState
  BY DEF CoverState, Witness
<1> QED BY <1>1, <1>2, <1>3, <1>4

\* A watermark whose effect is unknown takes the witness away and leaves the rest of the state.
LEMMA WitnessUnknownSays ==
  ASSUME cover \in CoverState, WitnessUnknown
  PROVE  /\ cover' \in CoverState
         /\ cover'.negotiated = cover.negotiated /\ cover'.desired = cover.desired
         /\ ~cover.negotiated => cover' = cover
<1>1. NoWitness \in Witness
  BY CoverAssumption DEF NoWitness, Witness, Frame
<1>2. CASE ~cover.negotiated
  BY <1>2 DEF WitnessUnknown
<1>3. CASE cover.negotiated
  <2> DEFINE good == IF cover.applied # 0 THEN cover.applied ELSE cover.lastGood
  <2>2. good \in 0..MaxRevision /\ 0 \in 0..MaxRevision
    BY CoverAssumption DEF CoverState
  <2>3. cover' = [cover EXCEPT !.lastGood = good, !.applied = 0, !.witness = NoWitness]
    BY <1>3 DEF WitnessUnknown
  <2> HIDE DEF good
  <2>4. cover' \in CoverState
    BY <1>1, <2>2, <2>3, CoverUpdated
  <2>5. cover'.negotiated = cover.negotiated /\ cover'.desired = cover.desired
    BY <2>3 DEF CoverState
  <2> QED BY <1>3, <2>4, <2>5
<1> QED BY <1>2, <1>3

\* Binding the witness to a new frame leaves the rest of the state, and a state without a
\* witness as it is.
LEMMA WitnessBoundSays ==
  ASSUME cover \in CoverState, NEW f \in Frame, cover.witness.cover # 0,
         cover' = [cover EXCEPT !.witness.watermark = f]
  PROVE  /\ cover' \in CoverState
         /\ cover'.negotiated = cover.negotiated /\ cover'.desired = cover.desired
         /\ cover # NotNegotiated
<1>1. cover' \in CoverState
  BY CoverUpdated
<1> QED BY <1>1, CoverAssumption DEF CoverState, Witness, NotNegotiated, NoWitness

\* Every step keeps the types.
LEMMA TypesKept ==
  ASSUME TypeOK, LocksHeld, ApplierHolds, [Next]_vars
  PROVE  TypeOK'
<1> USE CoverAssumption DEF locks, callers, state, graph, history
<1>1. ASSUME NEW a \in Applier, ApplyAsked(a) PROVE TypeOK'
  BY <1>1 DEF ApplyAsked, TypeOK, ApplyPlace
<1>2. ASSUME NEW a \in Applier, ApplyLocksManager(a) PROVE TypeOK'
  BY <1>2 DEF ApplyLocksManager, TypeOK, ApplyPlace
<1>3. ASSUME NEW a \in Applier, ApplyAnsweredAtOnce(a) PROVE TypeOK'
  <2>1. request[a] \in Request
    BY <1>3 DEF ApplyAnsweredAtOnce, ApplierHolds
  <2>2. replay' \in Seq(ReplayEntry) /\ Len(replay') <= MaxReplay
    BY <1>3, <2>1, RememberingTypes DEF ApplyAnsweredAtOnce, TypeOK
  <2> QED BY <1>3, <2>2 DEF ApplyAnsweredAtOnce, Answered, TypeOK, ApplyPlace
<1>4. ASSUME NEW a \in Applier, ApplyBegins(a) PROVE TypeOK'
  BY <1>4 DEF ApplyBegins, Running, TypeOK, ApplyPlace
<1>5. ASSUME NEW a \in Applier, ApplyRejected(a) PROVE TypeOK'
  <2>1. request[a] \in Request
    BY <1>5 DEF ApplyRejected, ApplierHolds
  <2>2. replay' \in Seq(ReplayEntry) /\ Len(replay') <= MaxReplay
    BY <1>5, <2>1, RememberingTypes DEF ApplyRejected, TypeOK
  <2> QED BY <1>5, <2>2 DEF ApplyRejected, Answered, TypeOK, ApplyPlace
<1>6. ASSUME NEW a \in Applier, ApplyDelivers(a) PROVE TypeOK'
  <2>1. request[a] \in Request /\ request[a].revision \in Revision
    BY <1>6 DEF ApplyDelivers, ApplierHolds, Request
  <2>2. cover' \in CoverState /\ coverFeed' \in 0..MaxRevision
    <3>1. request[a].revision \in 0..MaxRevision
      BY <2>1 DEF Revision
    <3>2. cover' = [cover EXCEPT !.desired = request[a].revision] /\ coverFeed' = request[a].revision
      BY <1>6 DEF ApplyDelivers
    <3> QED BY <3>1, <3>2, CoverUpdated DEF TypeOK
  <2>3. writes' \in [Revision -> Nat]
    BY <1>6, <2>1 DEF ApplyDelivers, TypeOK
  <2> QED BY <1>6, <2>2, <2>3 DEF ApplyDelivers, TypeOK, ApplyPlace
<1>7. ASSUME NEW a \in Applier, ApplyWitnessed(a) PROVE TypeOK'
  <2>1. request[a] \in Request /\ request[a].revision \in Revision
    BY <1>7 DEF ApplyWitnessed, CoverWitnessed, ApplierHolds, Request
  <2>2. replay' \in Seq(ReplayEntry) /\ Len(replay') <= MaxReplay
    BY <1>7, <2>1, RememberingTypes DEF ApplyWitnessed
  <2>3. [cover |-> request[a].revision, watermark |-> watermark] \in Witness
    BY <2>1 DEF TypeOK, Witness, Revision
  <2>4. cover' \in CoverState /\ everApplied' \in 0..MaxRevision
    <3>1. request[a].revision \in 0..MaxRevision /\ 0 \in 0..MaxRevision
      BY <2>1, CoverAssumption DEF Revision
    <3>2. /\ cover' = [cover EXCEPT !.applied = request[a].revision, !.lastGood = 0,
                         !.witness = [cover |-> request[a].revision, watermark |-> watermark]]
          /\ everApplied' = request[a].revision
      BY <1>7 DEF ApplyWitnessed
    <3>3. cover \in CoverState
      BY DEF TypeOK
    <3> QED BY <2>3, <3>1, <3>2, <3>3, CoverUpdated
  <2> QED BY <1>7, <2>2, <2>4 DEF ApplyWitnessed, Answered, TypeOK, ApplyPlace
<1>8. ASSUME NEW a \in Applier, ApplyAmbiguous(a) PROVE TypeOK'
  <2>1. request[a] \in Request
    BY <1>8 DEF ApplyAmbiguous, ApplierHolds
  <2>2. replay' \in Seq(ReplayEntry) /\ Len(replay') <= MaxReplay
    BY <1>8, <2>1, RememberingTypes DEF ApplyAmbiguous
  <2>3. NoWitness \in Witness
    BY DEF NoWitness, Witness, Frame
  <2>4. cover' \in CoverState
    <3>1. KeptGood \in 0..MaxRevision /\ 0 \in 0..MaxRevision
      BY DEF KeptGood, TypeOK, CoverState
    <3> QED BY <1>8, <2>3, <3>1, CoverUpdated DEF ApplyAmbiguous, TypeOK
  <2> QED BY <1>8, <2>2, <2>4 DEF ApplyAmbiguous, Answered, TypeOK, ApplyPlace
<1>9. ASSUME NEW s \in Setter, SettingsChecked(s) PROVE TypeOK'
  BY <1>9 DEF SettingsChecked, TypeOK, SettingsPlace
<1>10. ASSUME NEW s \in Setter, SettingsCommanded(s) PROVE TypeOK'
  <2>1. at' \in [Applier \cup Setter -> ApplyPlace \cup SettingsPlace]
    BY <1>10 DEF SettingsCommanded, TypeOK, SettingsPlace
  <2> QED BY <1>10, <2>1 DEF SettingsCommanded, TypeOK, SettingsPlace
<1>11. ASSUME NEW s \in Setter, SettingsDelivers(s) PROVE TypeOK'
  BY <1>11 DEF SettingsDelivers, TypeOK, SettingsPlace, Frame
<1>12. ASSUME NEW s \in Setter, SettingsFoundClosed(s) PROVE TypeOK'
  <2>1. cover' \in CoverState
    BY <1>12, WitnessUnknownSays DEF SettingsFoundClosed, TypeOK
  <2> QED BY <1>12, <2>1 DEF SettingsFoundClosed, TypeOK, SettingsPlace
<1>13. ASSUME NEW s \in Setter, SettingsWitnessed(s) PROVE TypeOK'
  <2>1. cover' \in CoverState
    BY <1>13, CoverUpdated DEF SettingsWitnessed, TypeOK
  <2> QED BY <1>13, <2>1 DEF SettingsWitnessed, TypeOK, SettingsPlace
<1>14. ASSUME NEW s \in Setter, SettingsAmbiguous(s) PROVE TypeOK'
  <2>1. cover' \in CoverState
    BY <1>14, WitnessUnknownSays DEF SettingsAmbiguous, TypeOK
  <2> QED BY <1>14, <2>1 DEF SettingsAmbiguous, TypeOK, SettingsPlace
<1>15. ASSUME NEW s \in Setter, SettingsPublished(s) PROVE TypeOK'
  BY <1>15 DEF SettingsPublished, TypeOK, SettingsPlace
<1>16. CASE ChildExits
  BY <1>16 DEF ChildExits, TypeOK
<1>17. CASE WaitLocksManager
  BY <1>17 DEF WaitLocksManager, TypeOK
<1>18. CASE WaitScrubs
  BY <1>18 DEF WaitScrubs, MayScrub, NotNegotiated, NoWitness, TypeOK, Frame, CoverState, Witness
<1>19. CASE WaitForgetsWatermark
  BY <1>19 DEF WaitForgetsWatermark, TypeOK
<1>20. CASE WaitForgetsCover
  BY <1>20 DEF WaitForgetsCover, TypeOK
<1>21. CASE GraphShowsCover
  BY <1>21 DEF GraphShowsCover, TypeOK
<1>22. CASE GraphShowsWatermark
  BY <1>22 DEF GraphShowsWatermark, TypeOK
<1>23. CASE UNCHANGED vars
  BY <1>23 DEF vars, TypeOK
<1> QED BY <1>1, <1>2, <1>3, <1>4, <1>5, <1>6, <1>7, <1>8, <1>9, <1>10, <1>11, <1>12, <1>13,
       <1>14, <1>15, <1>16, <1>17, <1>18, <1>19, <1>20, <1>21, <1>22, <1>23 DEF Next,
       ApplyProceeds, SettingsProceed, WaitProceeds

\* A lock is taken when it is free and given back by the one who has it.
LEMMA LocksKept ==
  ASSUME LocksHeld, TypeOK, [Next]_vars
  PROVE  LocksHeld'
<1> USE CoverAssumption DEF locks, callers, state, graph, history
<1>1. ASSUME NEW a \in Applier, ApplyAsked(a) PROVE LocksHeld'
  BY <1>1 DEF ApplyAsked, LocksHeld
<1>2. ASSUME NEW a \in Applier, ApplyLocksManager(a) PROVE LocksHeld'
  BY <1>2 DEF ApplyLocksManager, LocksHeld, TypeOK
<1>3. ASSUME NEW a \in Applier, ApplyAnsweredAtOnce(a) PROVE LocksHeld'
  BY <1>3 DEF ApplyAnsweredAtOnce, Answered, LocksHeld, TypeOK
<1>4. ASSUME NEW a \in Applier, ApplyBegins(a) PROVE LocksHeld'
  BY <1>4 DEF ApplyBegins, Running, LocksHeld, TypeOK
<1>5. ASSUME NEW a \in Applier, ApplyRejected(a) PROVE LocksHeld'
  BY <1>5 DEF ApplyRejected, Answered, LocksHeld, TypeOK
<1>6. ASSUME NEW a \in Applier, ApplyDelivers(a) PROVE LocksHeld'
  BY <1>6 DEF ApplyDelivers, LocksHeld
<1>7. ASSUME NEW a \in Applier, ApplyWitnessed(a) PROVE LocksHeld'
  BY <1>7 DEF ApplyWitnessed, CoverWitnessed, Answered, LocksHeld, TypeOK
<1>8. ASSUME NEW a \in Applier, ApplyAmbiguous(a) PROVE LocksHeld'
  BY <1>8 DEF ApplyAmbiguous, KeptGood, Answered, LocksHeld, TypeOK
<1>9. ASSUME NEW s \in Setter, SettingsChecked(s) PROVE LocksHeld'
  BY <1>9 DEF SettingsChecked, LocksHeld
<1>10. ASSUME NEW s \in Setter, SettingsCommanded(s) PROVE LocksHeld'
  BY <1>10 DEF SettingsCommanded, LocksHeld, TypeOK
<1>11. ASSUME NEW s \in Setter, SettingsDelivers(s) PROVE LocksHeld'
  BY <1>11 DEF SettingsDelivers, LocksHeld, TypeOK
<1>12. ASSUME NEW s \in Setter, SettingsFoundClosed(s) PROVE LocksHeld'
  BY <1>12 DEF SettingsFoundClosed, WitnessUnknown, LocksHeld
<1>13. ASSUME NEW s \in Setter, SettingsWitnessed(s) PROVE LocksHeld'
  BY <1>13 DEF SettingsWitnessed, LocksHeld, TypeOK
<1>14. ASSUME NEW s \in Setter, SettingsAmbiguous(s) PROVE LocksHeld'
  BY <1>14 DEF SettingsAmbiguous, WitnessUnknown, LocksHeld, TypeOK
<1>15. ASSUME NEW s \in Setter, SettingsPublished(s) PROVE LocksHeld'
  BY <1>15 DEF SettingsPublished, LocksHeld
<1>16. CASE ChildExits
  BY <1>16 DEF ChildExits, LocksHeld
<1>17. CASE WaitLocksManager
  BY <1>17 DEF WaitLocksManager, LocksHeld
<1>18. CASE WaitScrubs
  BY <1>18 DEF WaitScrubs, MayScrub, LocksHeld
<1>19. CASE WaitForgetsWatermark
  BY <1>19 DEF WaitForgetsWatermark, LocksHeld
<1>20. CASE WaitForgetsCover
  BY <1>20 DEF WaitForgetsCover, LocksHeld
<1>21. CASE GraphShowsCover
  BY <1>21 DEF GraphShowsCover, LocksHeld
<1>22. CASE GraphShowsWatermark
  BY <1>22 DEF GraphShowsWatermark, LocksHeld
<1>23. CASE UNCHANGED vars
  BY <1>23 DEF vars, LocksHeld
<1> QED BY <1>1, <1>2, <1>3, <1>4, <1>5, <1>6, <1>7, <1>8, <1>9, <1>10, <1>11, <1>12, <1>13,
       <1>14, <1>15, <1>16, <1>17, <1>18, <1>19, <1>20, <1>21, <1>22, <1>23 DEF Next,
       ApplyProceeds, SettingsProceed, WaitProceeds

\* The fence of cover_apply.go:76-95 is looked at under coverMu, and coverMu is kept until the
\* answer: nobody else moves the desired revision meanwhile, nor ends the stream.
LEMMA ApplierHoldsKept ==
  ASSUME ApplierHolds, TypeOK, LocksHeld, [Next]_vars
  PROVE  ApplierHolds'
<1> USE CoverAssumption DEF locks, callers, state, graph, history
<1>1. ASSUME NEW a \in Applier, ApplyAsked(a) PROVE ApplierHolds'
  BY <1>1 DEF ApplyAsked, ApplierHolds
<1>2. ASSUME NEW a \in Applier, ApplyLocksManager(a) PROVE ApplierHolds'
  BY <1>2 DEF ApplyLocksManager, ApplierHolds, TypeOK
<1>3. ASSUME NEW a \in Applier, ApplyAnsweredAtOnce(a) PROVE ApplierHolds'
  BY <1>3 DEF ApplyAnsweredAtOnce, Answered, ApplierHolds, TypeOK
<1>4. ASSUME NEW a \in Applier, ApplyBegins(a) PROVE ApplierHolds'
  BY <1>4 DEF ApplyBegins, Running, Mutable, ApplierHolds, Ended
<1>5. ASSUME NEW a \in Applier, ApplyRejected(a) PROVE ApplierHolds'
  BY <1>5 DEF ApplyRejected, Answered, ApplierHolds, TypeOK
<1>6. ASSUME NEW a \in Applier, ApplyDelivers(a) PROVE ApplierHolds'
  BY <1>6 DEF ApplyDelivers, ApplierHolds, TypeOK, LocksHeld
<1>7. ASSUME NEW a \in Applier, ApplyWitnessed(a) PROVE ApplierHolds'
  BY <1>7 DEF ApplyWitnessed, CoverWitnessed, Answered, ApplierHolds, TypeOK
<1>8. ASSUME NEW a \in Applier, ApplyAmbiguous(a) PROVE ApplierHolds'
  BY <1>8 DEF ApplyAmbiguous, KeptGood, Answered, ApplierHolds, TypeOK
<1>9. ASSUME NEW s \in Setter, SettingsChecked(s) PROVE ApplierHolds'
  BY <1>9 DEF SettingsChecked, ApplierHolds
<1>10. ASSUME NEW s \in Setter, SettingsCommanded(s) PROVE ApplierHolds'
  BY <1>10 DEF SettingsCommanded, ApplierHolds, TypeOK
<1>11. ASSUME NEW s \in Setter, SettingsDelivers(s) PROVE ApplierHolds'
  BY <1>11 DEF SettingsDelivers, ApplierHolds
<1>12. ASSUME NEW s \in Setter, SettingsFoundClosed(s) PROVE ApplierHolds'
  BY <1>12 DEF SettingsFoundClosed, WitnessUnknown, ApplierHolds
<1>13. ASSUME NEW s \in Setter, SettingsWitnessed(s) PROVE ApplierHolds'
  BY <1>13 DEF SettingsWitnessed, ApplierHolds
<1>14. ASSUME NEW s \in Setter, SettingsAmbiguous(s) PROVE ApplierHolds'
  BY <1>14 DEF SettingsAmbiguous, WitnessUnknown, ApplierHolds
<1>15. ASSUME NEW s \in Setter, SettingsPublished(s) PROVE ApplierHolds'
  BY <1>15 DEF SettingsPublished, ApplierHolds
<1>16. CASE ChildExits
  BY <1>16 DEF ChildExits, ApplierHolds, Ended
<1>17. CASE WaitLocksManager
  BY <1>17 DEF WaitLocksManager, ApplierHolds, Ended
<1>18. CASE WaitScrubs
  BY <1>18 DEF WaitScrubs, MayScrub, ApplierHolds, LocksHeld
<1>19. CASE WaitForgetsWatermark
  BY <1>19 DEF WaitForgetsWatermark, ApplierHolds, Ended
<1>20. CASE WaitForgetsCover
  BY <1>20 DEF WaitForgetsCover, ApplierHolds, Ended
<1>21. CASE GraphShowsCover
  BY <1>21 DEF GraphShowsCover, ApplierHolds
<1>22. CASE GraphShowsWatermark
  BY <1>22 DEF GraphShowsWatermark, ApplierHolds
<1>23. CASE UNCHANGED vars
  BY <1>23 DEF vars, ApplierHolds
<1> QED BY <1>1, <1>2, <1>3, <1>4, <1>5, <1>6, <1>7, <1>8, <1>9, <1>10, <1>11, <1>12, <1>13,
       <1>14, <1>15, <1>16, <1>17, <1>18, <1>19, <1>20, <1>21, <1>22, <1>23 DEF Next,
       ApplyProceeds, SettingsProceed, WaitProceeds

\* Only a delivery writes the feed, and it sets the desired revision with it.
LEMMA FeedKept ==
  ASSUME FeedIsDesired, TypeOK, ApplierHolds, LocksHeld, [Next]_vars
  PROVE  FeedIsDesired'
<1> USE CoverAssumption DEF locks, callers, state, graph, history
<1>1. ASSUME NEW a \in Applier, ApplyAsked(a) PROVE FeedIsDesired'
  BY <1>1 DEF ApplyAsked, FeedIsDesired
<1>2. ASSUME NEW a \in Applier, ApplyLocksManager(a) PROVE FeedIsDesired'
  BY <1>2 DEF ApplyLocksManager, FeedIsDesired
<1>3. ASSUME NEW a \in Applier, ApplyAnsweredAtOnce(a) PROVE FeedIsDesired'
  BY <1>3 DEF ApplyAnsweredAtOnce, Answered, FeedIsDesired
<1>4. ASSUME NEW a \in Applier, ApplyBegins(a) PROVE FeedIsDesired'
  BY <1>4 DEF ApplyBegins, Running, FeedIsDesired
<1>5. ASSUME NEW a \in Applier, ApplyRejected(a) PROVE FeedIsDesired'
  BY <1>5 DEF ApplyRejected, Answered, FeedIsDesired
<1>6. ASSUME NEW a \in Applier, ApplyDelivers(a) PROVE FeedIsDesired'
  BY <1>6 DEF ApplyDelivers, FeedIsDesired, TypeOK, ApplierHolds, Revision, Request
<1>7. ASSUME NEW a \in Applier, ApplyWitnessed(a) PROVE FeedIsDesired'
  BY <1>7 DEF ApplyWitnessed, CoverWitnessed, FeedIsDesired, ApplierHolds
<1>8. ASSUME NEW a \in Applier, ApplyAmbiguous(a) PROVE FeedIsDesired'
  BY <1>8 DEF ApplyAmbiguous, KeptGood, FeedIsDesired, ApplierHolds
<1>9. ASSUME NEW s \in Setter, SettingsChecked(s) PROVE FeedIsDesired'
  BY <1>9 DEF SettingsChecked, FeedIsDesired
<1>10. ASSUME NEW s \in Setter, SettingsCommanded(s) PROVE FeedIsDesired'
  BY <1>10 DEF SettingsCommanded, FeedIsDesired
<1>11. ASSUME NEW s \in Setter, SettingsDelivers(s) PROVE FeedIsDesired'
  BY <1>11 DEF SettingsDelivers, FeedIsDesired
<1>12. ASSUME NEW s \in Setter, SettingsFoundClosed(s) PROVE FeedIsDesired'
  BY <1>12, WitnessUnknownSays DEF SettingsFoundClosed, FeedIsDesired, TypeOK
<1>13. ASSUME NEW s \in Setter, SettingsWitnessed(s) PROVE FeedIsDesired'
  BY <1>13, WitnessBoundSays DEF SettingsWitnessed, FeedIsDesired, TypeOK
<1>14. ASSUME NEW s \in Setter, SettingsAmbiguous(s) PROVE FeedIsDesired'
  BY <1>14, WitnessUnknownSays DEF SettingsAmbiguous, FeedIsDesired, TypeOK
<1>15. ASSUME NEW s \in Setter, SettingsPublished(s) PROVE FeedIsDesired'
  BY <1>15 DEF SettingsPublished, FeedIsDesired
<1>16. CASE ChildExits
  BY <1>16 DEF ChildExits, FeedIsDesired
<1>17. CASE WaitLocksManager
  BY <1>17 DEF WaitLocksManager, FeedIsDesired
<1>18. CASE WaitScrubs
  BY <1>18 DEF WaitScrubs, MayScrub, NotNegotiated, FeedIsDesired
<1>19. CASE WaitForgetsWatermark
  BY <1>19 DEF WaitForgetsWatermark, FeedIsDesired
<1>20. CASE WaitForgetsCover
  BY <1>20 DEF WaitForgetsCover, FeedIsDesired
<1>21. CASE GraphShowsCover
  BY <1>21 DEF GraphShowsCover, FeedIsDesired
<1>22. CASE GraphShowsWatermark
  BY <1>22 DEF GraphShowsWatermark, FeedIsDesired
<1>23. CASE UNCHANGED vars
  BY <1>23 DEF vars, FeedIsDesired
<1> QED BY <1>1, <1>2, <1>3, <1>4, <1>5, <1>6, <1>7, <1>8, <1>9, <1>10, <1>11, <1>12, <1>13,
       <1>14, <1>15, <1>16, <1>17, <1>18, <1>19, <1>20, <1>21, <1>22, <1>23 DEF Next,
       ApplyProceeds, SettingsProceed, WaitProceeds

\* A witness makes its revision the newest known one, and what takes it away leaves it as the last
\* good one.
LEMMA KnownAppliedKept ==
  ASSUME KnownApplied, TypeOK, LocksHeld, ApplierHolds, FeedIsDesired, EndedStaysTerminal, [Next]_vars
  PROVE  KnownApplied'
<1> USE CoverAssumption DEF locks, callers, state, graph, history
<1>1. ASSUME NEW a \in Applier, ApplyAsked(a) PROVE KnownApplied'
  BY <1>1 DEF ApplyAsked, KnownApplied
<1>2. ASSUME NEW a \in Applier, ApplyLocksManager(a) PROVE KnownApplied'
  BY <1>2 DEF ApplyLocksManager, KnownApplied
<1>3. ASSUME NEW a \in Applier, ApplyAnsweredAtOnce(a) PROVE KnownApplied'
  BY <1>3 DEF ApplyAnsweredAtOnce, Answered, KnownApplied
<1>4. ASSUME NEW a \in Applier, ApplyBegins(a) PROVE KnownApplied'
  BY <1>4 DEF ApplyBegins, Running, KnownApplied
<1>5. ASSUME NEW a \in Applier, ApplyRejected(a) PROVE KnownApplied'
  BY <1>5 DEF ApplyRejected, Answered, KnownApplied
<1>6. ASSUME NEW a \in Applier, ApplyDelivers(a) PROVE KnownApplied'
  BY <1>6 DEF ApplyDelivers, KnownApplied, TypeOK
<1>7. ASSUME NEW a \in Applier, ApplyWitnessed(a) PROVE KnownApplied'
  BY <1>7 DEF ApplyWitnessed, CoverWitnessed, KnownApplied, ApplierHolds, FeedIsDesired
<1>8. ASSUME NEW a \in Applier, ApplyAmbiguous(a) PROVE KnownApplied'
  BY <1>8 DEF ApplyAmbiguous, KeptGood, NoWitness, KnownApplied
<1>9. ASSUME NEW s \in Setter, SettingsChecked(s) PROVE KnownApplied'
  BY <1>9 DEF SettingsChecked, KnownApplied
<1>10. ASSUME NEW s \in Setter, SettingsCommanded(s) PROVE KnownApplied'
  BY <1>10 DEF SettingsCommanded, KnownApplied, TypeOK
<1>11. ASSUME NEW s \in Setter, SettingsDelivers(s) PROVE KnownApplied'
  BY <1>11 DEF SettingsDelivers, KnownApplied
<1>12. ASSUME NEW s \in Setter, SettingsFoundClosed(s) PROVE KnownApplied'
  BY <1>12 DEF SettingsFoundClosed, WitnessUnknown, NoWitness, KnownApplied
<1>13. ASSUME NEW s \in Setter, SettingsWitnessed(s) PROVE KnownApplied'
  BY <1>13 DEF SettingsWitnessed, KnownApplied
<1>14. ASSUME NEW s \in Setter, SettingsAmbiguous(s) PROVE KnownApplied'
  BY <1>14 DEF SettingsAmbiguous, WitnessUnknown, NoWitness, KnownApplied
<1>15. ASSUME NEW s \in Setter, SettingsPublished(s) PROVE KnownApplied'
  BY <1>15 DEF SettingsPublished, KnownApplied
<1>16. CASE ChildExits
  BY <1>16 DEF ChildExits, KnownApplied, Ended
<1>17. CASE WaitLocksManager
  BY <1>17 DEF WaitLocksManager, KnownApplied, Ended
<1>18. CASE WaitScrubs
  BY <1>18 DEF WaitScrubs, MayScrub, NotNegotiated, NoWitness, KnownApplied, Ended
<1>19. CASE WaitForgetsWatermark
  BY <1>19 DEF WaitForgetsWatermark, KnownApplied, Ended
<1>20. CASE WaitForgetsCover
  BY <1>20 DEF WaitForgetsCover, KnownApplied, Ended
<1>21. CASE GraphShowsCover
  BY <1>21 DEF GraphShowsCover, KnownApplied, FeedIsDesired, NotNegotiated
<1>22. CASE GraphShowsWatermark
  BY <1>22 DEF GraphShowsWatermark, KnownApplied
<1>23. CASE UNCHANGED vars
  BY <1>23 DEF vars, KnownApplied
<1> QED BY <1>1, <1>2, <1>3, <1>4, <1>5, <1>6, <1>7, <1>8, <1>9, <1>10, <1>11, <1>12, <1>13,
       <1>14, <1>15, <1>16, <1>17, <1>18, <1>19, <1>20, <1>21, <1>22, <1>23 DEF Next,
       ApplyProceeds, SettingsProceed, WaitProceeds

\* A Watermark that was witnessed goes into the witness of the Cover in the same step.
LEMMA WatermarkKept ==
  ASSUME WatermarkKnown, TypeOK, [Next]_vars
  PROVE  WatermarkKnown'
<1> USE CoverAssumption DEF locks, callers, state, graph, history
<1>1. ASSUME NEW a \in Applier, ApplyAsked(a) PROVE WatermarkKnown'
  BY <1>1 DEF ApplyAsked, WatermarkKnown
<1>2. ASSUME NEW a \in Applier, ApplyLocksManager(a) PROVE WatermarkKnown'
  BY <1>2 DEF ApplyLocksManager, WatermarkKnown
<1>3. ASSUME NEW a \in Applier, ApplyAnsweredAtOnce(a) PROVE WatermarkKnown'
  BY <1>3 DEF ApplyAnsweredAtOnce, Answered, WatermarkKnown
<1>4. ASSUME NEW a \in Applier, ApplyBegins(a) PROVE WatermarkKnown'
  BY <1>4 DEF ApplyBegins, Running, WatermarkKnown
<1>5. ASSUME NEW a \in Applier, ApplyRejected(a) PROVE WatermarkKnown'
  BY <1>5 DEF ApplyRejected, Answered, WatermarkKnown
<1>6. ASSUME NEW a \in Applier, ApplyDelivers(a) PROVE WatermarkKnown'
  BY <1>6 DEF ApplyDelivers, WatermarkKnown
<1>7. ASSUME NEW a \in Applier, ApplyWitnessed(a) PROVE WatermarkKnown'
  BY <1>7 DEF ApplyWitnessed, CoverWitnessed, WatermarkKnown
<1>8. ASSUME NEW a \in Applier, ApplyAmbiguous(a) PROVE WatermarkKnown'
  BY <1>8 DEF ApplyAmbiguous, KeptGood, NoWitness, WatermarkKnown
<1>9. ASSUME NEW s \in Setter, SettingsChecked(s) PROVE WatermarkKnown'
  BY <1>9 DEF SettingsChecked, WatermarkKnown
<1>10. ASSUME NEW s \in Setter, SettingsCommanded(s) PROVE WatermarkKnown'
  BY <1>10 DEF SettingsCommanded, WatermarkKnown
<1>11. ASSUME NEW s \in Setter, SettingsDelivers(s) PROVE WatermarkKnown'
  BY <1>11 DEF SettingsDelivers, WatermarkKnown, TypeOK, Frame
<1>12. ASSUME NEW s \in Setter, SettingsFoundClosed(s) PROVE WatermarkKnown'
  BY <1>12 DEF SettingsFoundClosed, WitnessUnknown, NoWitness, WatermarkKnown
<1>13. ASSUME NEW s \in Setter, SettingsWitnessed(s) PROVE WatermarkKnown'
  BY <1>13 DEF SettingsWitnessed, WatermarkKnown, TypeOK, Frame
<1>14. ASSUME NEW s \in Setter, SettingsAmbiguous(s) PROVE WatermarkKnown'
  BY <1>14 DEF SettingsAmbiguous, WitnessUnknown, NoWitness, WatermarkKnown
<1>15. ASSUME NEW s \in Setter, SettingsPublished(s) PROVE WatermarkKnown'
  BY <1>15 DEF SettingsPublished, WatermarkKnown
<1>16. CASE ChildExits
  BY <1>16 DEF ChildExits, WatermarkKnown
<1>17. CASE WaitLocksManager
  BY <1>17 DEF WaitLocksManager, WatermarkKnown
<1>18. CASE WaitScrubs
  BY <1>18 DEF WaitScrubs, MayScrub, NotNegotiated, NoWitness, WatermarkKnown
<1>19. CASE WaitForgetsWatermark
  BY <1>19 DEF WaitForgetsWatermark, WatermarkKnown
<1>20. CASE WaitForgetsCover
  BY <1>20 DEF WaitForgetsCover, WatermarkKnown
<1>21. CASE GraphShowsCover
  BY <1>21 DEF GraphShowsCover, WatermarkKnown
<1>22. CASE GraphShowsWatermark
  BY <1>22 DEF GraphShowsWatermark, WatermarkKnown
<1>23. CASE UNCHANGED vars
  BY <1>23 DEF vars, WatermarkKnown
<1> QED BY <1>1, <1>2, <1>3, <1>4, <1>5, <1>6, <1>7, <1>8, <1>9, <1>10, <1>11, <1>12, <1>13,
       <1>14, <1>15, <1>16, <1>17, <1>18, <1>19, <1>20, <1>21, <1>22, <1>23 DEF Next,
       ApplyProceeds, SettingsProceed, WaitProceeds

\* A delivery is of a revision above all that were desired, and only those were written.
LEMMA NeverResentKept ==
  ASSUME NeverResent, TypeOK, FeedIsDesired, ApplierHolds, [Next]_vars
  PROVE  NeverResent'
<1> USE CoverAssumption DEF locks, callers, state, graph, history
<1>1. ASSUME NEW a \in Applier, ApplyAsked(a) PROVE NeverResent'
  BY <1>1 DEF ApplyAsked, NeverResent
<1>2. ASSUME NEW a \in Applier, ApplyLocksManager(a) PROVE NeverResent'
  BY <1>2 DEF ApplyLocksManager, NeverResent
<1>3. ASSUME NEW a \in Applier, ApplyAnsweredAtOnce(a) PROVE NeverResent'
  BY <1>3 DEF ApplyAnsweredAtOnce, Answered, NeverResent
<1>4. ASSUME NEW a \in Applier, ApplyBegins(a) PROVE NeverResent'
  BY <1>4 DEF ApplyBegins, Running, NeverResent
<1>5. ASSUME NEW a \in Applier, ApplyRejected(a) PROVE NeverResent'
  BY <1>5 DEF ApplyRejected, Answered, NeverResent
<1>6. ASSUME NEW a \in Applier, ApplyDelivers(a) PROVE NeverResent'
  <2>1. request[a].revision \in Revision /\ request[a].revision > cover.desired /\ cover.negotiated
    BY <1>6 DEF ApplyDelivers, ApplierHolds, Request
  <2>2. cover.desired \in Nat /\ request[a].revision \in Nat
    BY <2>1 DEF TypeOK, CoverState, Revision
  <2>3. writes[request[a].revision] = 0
    BY <2>1, <2>2 DEF FeedIsDesired, TypeOK
  <2> QED BY <1>6, <2>1, <2>3 DEF ApplyDelivers, NeverResent
<1>7. ASSUME NEW a \in Applier, ApplyWitnessed(a) PROVE NeverResent'
  BY <1>7 DEF ApplyWitnessed, CoverWitnessed, NeverResent
<1>8. ASSUME NEW a \in Applier, ApplyAmbiguous(a) PROVE NeverResent'
  BY <1>8 DEF ApplyAmbiguous, KeptGood, NeverResent
<1>9. ASSUME NEW s \in Setter, SettingsChecked(s) PROVE NeverResent'
  BY <1>9 DEF SettingsChecked, NeverResent
<1>10. ASSUME NEW s \in Setter, SettingsCommanded(s) PROVE NeverResent'
  BY <1>10 DEF SettingsCommanded, NeverResent
<1>11. ASSUME NEW s \in Setter, SettingsDelivers(s) PROVE NeverResent'
  BY <1>11 DEF SettingsDelivers, NeverResent
<1>12. ASSUME NEW s \in Setter, SettingsFoundClosed(s) PROVE NeverResent'
  BY <1>12 DEF SettingsFoundClosed, WitnessUnknown, NeverResent
<1>13. ASSUME NEW s \in Setter, SettingsWitnessed(s) PROVE NeverResent'
  BY <1>13 DEF SettingsWitnessed, NeverResent
<1>14. ASSUME NEW s \in Setter, SettingsAmbiguous(s) PROVE NeverResent'
  BY <1>14 DEF SettingsAmbiguous, WitnessUnknown, NeverResent
<1>15. ASSUME NEW s \in Setter, SettingsPublished(s) PROVE NeverResent'
  BY <1>15 DEF SettingsPublished, NeverResent
<1>16. CASE ChildExits
  BY <1>16 DEF ChildExits, NeverResent
<1>17. CASE WaitLocksManager
  BY <1>17 DEF WaitLocksManager, NeverResent
<1>18. CASE WaitScrubs
  BY <1>18 DEF WaitScrubs, MayScrub, NeverResent
<1>19. CASE WaitForgetsWatermark
  BY <1>19 DEF WaitForgetsWatermark, NeverResent
<1>20. CASE WaitForgetsCover
  BY <1>20 DEF WaitForgetsCover, NeverResent
<1>21. CASE GraphShowsCover
  BY <1>21 DEF GraphShowsCover, NeverResent
<1>22. CASE GraphShowsWatermark
  BY <1>22 DEF GraphShowsWatermark, NeverResent
<1>23. CASE UNCHANGED vars
  BY <1>23 DEF vars, NeverResent
<1> QED BY <1>1, <1>2, <1>3, <1>4, <1>5, <1>6, <1>7, <1>8, <1>9, <1>10, <1>11, <1>12, <1>13,
       <1>14, <1>15, <1>16, <1>17, <1>18, <1>19, <1>20, <1>21, <1>22, <1>23 DEF Next,
       ApplyProceeds, SettingsProceed, WaitProceeds

\* Nobody holds coverMu with a Cover to publish once the state was scrubbed.
LEMMA EndedKept ==
  ASSUME EndedStaysTerminal, TypeOK, LocksHeld, ApplierHolds, FeedIsDesired, [Next]_vars
  PROVE  EndedStaysTerminal'
<1> USE CoverAssumption DEF locks, callers, state, graph, history
<1>1. ASSUME NEW a \in Applier, ApplyAsked(a) PROVE EndedStaysTerminal'
  BY <1>1 DEF ApplyAsked, EndedStaysTerminal
<1>2. ASSUME NEW a \in Applier, ApplyLocksManager(a) PROVE EndedStaysTerminal'
  BY <1>2 DEF ApplyLocksManager, EndedStaysTerminal
<1>3. ASSUME NEW a \in Applier, ApplyAnsweredAtOnce(a) PROVE EndedStaysTerminal'
  BY <1>3 DEF ApplyAnsweredAtOnce, Answered, EndedStaysTerminal
<1>4. ASSUME NEW a \in Applier, ApplyBegins(a) PROVE EndedStaysTerminal'
  BY <1>4 DEF ApplyBegins, Running, EndedStaysTerminal
<1>5. ASSUME NEW a \in Applier, ApplyRejected(a) PROVE EndedStaysTerminal'
  BY <1>5 DEF ApplyRejected, Answered, EndedStaysTerminal
<1>6. ASSUME NEW a \in Applier, ApplyDelivers(a) PROVE EndedStaysTerminal'
  BY <1>6 DEF ApplyDelivers, EndedStaysTerminal, ApplierHolds, NotNegotiated
<1>7. ASSUME NEW a \in Applier, ApplyWitnessed(a) PROVE EndedStaysTerminal'
  BY <1>7 DEF ApplyWitnessed, CoverWitnessed, EndedStaysTerminal, ApplierHolds, NotNegotiated
<1>8. ASSUME NEW a \in Applier, ApplyAmbiguous(a) PROVE EndedStaysTerminal'
  BY <1>8 DEF ApplyAmbiguous, KeptGood, EndedStaysTerminal, ApplierHolds, NotNegotiated
<1>9. ASSUME NEW s \in Setter, SettingsChecked(s) PROVE EndedStaysTerminal'
  BY <1>9 DEF SettingsChecked, EndedStaysTerminal
<1>10. ASSUME NEW s \in Setter, SettingsCommanded(s) PROVE EndedStaysTerminal'
  BY <1>10 DEF SettingsCommanded, EndedStaysTerminal
<1>11. ASSUME NEW s \in Setter, SettingsDelivers(s) PROVE EndedStaysTerminal'
  BY <1>11 DEF SettingsDelivers, EndedStaysTerminal
<1>12. ASSUME NEW s \in Setter, SettingsFoundClosed(s) PROVE EndedStaysTerminal'
  BY <1>12, WitnessUnknownSays DEF SettingsFoundClosed, EndedStaysTerminal, TypeOK, NotNegotiated
<1>13. ASSUME NEW s \in Setter, SettingsWitnessed(s) PROVE EndedStaysTerminal'
  BY <1>13, WitnessBoundSays DEF SettingsWitnessed, EndedStaysTerminal, TypeOK
<1>14. ASSUME NEW s \in Setter, SettingsAmbiguous(s) PROVE EndedStaysTerminal'
  BY <1>14, WitnessUnknownSays DEF SettingsAmbiguous, EndedStaysTerminal, TypeOK, NotNegotiated
<1>15. ASSUME NEW s \in Setter, SettingsPublished(s) PROVE EndedStaysTerminal'
  BY <1>15 DEF SettingsPublished, EndedStaysTerminal
<1>16. CASE ChildExits
  BY <1>16 DEF ChildExits, EndedStaysTerminal
<1>17. CASE WaitLocksManager
  BY <1>17 DEF WaitLocksManager, EndedStaysTerminal
<1>18. CASE WaitScrubs
  BY <1>18 DEF WaitScrubs, MayScrub, EndedStaysTerminal
<1>19. CASE WaitForgetsWatermark
  BY <1>19 DEF WaitForgetsWatermark, EndedStaysTerminal
<1>20. CASE WaitForgetsCover
  BY <1>20 DEF WaitForgetsCover, EndedStaysTerminal
<1>21. CASE GraphShowsCover
  BY <1>21 DEF GraphShowsCover, EndedStaysTerminal
<1>22. CASE GraphShowsWatermark
  BY <1>22 DEF GraphShowsWatermark, EndedStaysTerminal
<1>23. CASE UNCHANGED vars
  BY <1>23 DEF vars, EndedStaysTerminal
<1> QED BY <1>1, <1>2, <1>3, <1>4, <1>5, <1>6, <1>7, <1>8, <1>9, <1>10, <1>11, <1>12, <1>13,
       <1>14, <1>15, <1>16, <1>17, <1>18, <1>19, <1>20, <1>21, <1>22, <1>23 DEF Next,
       ApplyProceeds, SettingsProceed, WaitProceeds

LEMMA CoverStep == CoverInv /\ [Next]_vars => CoverInv'
<1> SUFFICES ASSUME CoverInv, [Next]_vars PROVE CoverInv'
  OBVIOUS
<1>1. TypeOK' /\ LocksHeld' /\ ApplierHolds'
  BY TypesKept, LocksKept, ApplierHoldsKept DEF CoverInv
<1>2. FeedIsDesired' /\ NeverResent' /\ EndedStaysTerminal'
  BY FeedKept, NeverResentKept, EndedKept DEF CoverInv
<1>3. KnownApplied' /\ WatermarkKnown'
  BY KnownAppliedKept, WatermarkKept DEF CoverInv
<1> QED BY <1>1, <1>2, <1>3 DEF CoverInv

\* Every step of an apply, of a settings update, of wait and of the graph keeps the parts above
\* (cover_apply.go, runtime_settings.go, process_lifecycle.go).
THEOREM CoverInvariant == Spec => []CoverInv
<1>1. Init => CoverInv
  BY CoverInit
<1>2. CoverInv /\ [Next]_vars => CoverInv'
  BY CoverStep
<1> QED BY <1>1, <1>2, PTL DEF Spec

LEMMA CoverPublished == CoverInv => AppliedIsShown /\ WitnessIsCurrent /\ LastGoodIsNewest
<1> SUFFICES ASSUME CoverInv PROVE AppliedIsShown /\ WitnessIsCurrent /\ LastGoodIsNewest
  OBVIOUS
<1>1. ASSUME coverLock = None PROVE \A a \in Applier : at[a] # "witnessing"
  BY <1>1, CoverAssumption DEF CoverInv, LocksHeld
<1>2. AppliedIsShown
  BY <1>1 DEF CoverInv, KnownApplied, AppliedIsShown
<1>3. WitnessIsCurrent
  BY DEF CoverInv, WatermarkKnown, WitnessIsCurrent
<1>4. LastGoodIsNewest
  <2>1. waiter \in Ended => ~cover.negotiated
    BY DEF CoverInv, EndedStaysTerminal, Ended, NotNegotiated
  <2> QED BY <2>1 DEF CoverInv, KnownApplied, LastGoodIsNewest, Ended
<1> QED BY <1>2, <1>3, <1>4

\* Whatever a caller can read while nobody changes the layers, a revision called applied is the
\* desired one, the witnessed one and the one the graph shows (markCoverApplied).
THEOREM AppliedShown == Spec => []AppliedIsShown
  BY CoverInvariant, CoverPublished, PTL

\* A published witness pairs the Cover with the newest Watermark that was witnessed, however
\* applies and settings updates are interleaved (UpdateRuntimeSettings under coverMu).
THEOREM WitnessCurrent == Spec => []WitnessIsCurrent
  BY CoverInvariant, CoverPublished, PTL

\* The last good revision is the newest one ever known to be applied, and the terminal state
\* keeps it (markWatermarkWitnessUnknownLocked, scrubTrackedProcessJob).
THEOREM LastGoodNewest == Spec => []LastGoodIsNewest
  BY CoverInvariant, CoverPublished, PTL

\* No revision is handed to the feed twice, with a replay cache of any size (ApplyVideoCover).
THEOREM DeliveredOnce == Spec => []NeverResent
<1>1. CoverInv => NeverResent
  BY DEF CoverInv
<1> QED BY <1>1, CoverInvariant, PTL

\* No late witness or settings update brings back the Cover of a stream that has ended (wait).
THEOREM EndIsFinal == Spec => []EndedStaysTerminal
<1>1. CoverInv => EndedStaysTerminal
  BY DEF CoverInv
<1> QED BY <1>1, CoverInvariant, PTL

-----------------------------------------------------------------------------
(* The feeds.  CoverApply takes a frame as delivered when UpdateAndWait has answered; what that
   answer is worth is proved here of ImageFeed, for one feed. *)

CONSTANTS MaxConn, MaxVersion

VARIABLES
  version, delivered, updated, current, listening, conn, server, serving, writing, closer, watched

Feed == INSTANCE ImageFeed

\* What counts as delivered was written, and a call waits for a version that exists.
FeedDelivery ==
  /\ delivered \in written \cup {0}
  /\ server \in {"write", "mark"} => writing > 0
  /\ server = "mark" => writing \in written
  /\ \A u \in Caller : caller[u] \in {"check", "wait", "ok"} => mine[u] > 0
  /\ ExactDelivery

\* The channels are closed one after the other, the last one by Close.
FeedChannels ==
  /\ ~panicked
  /\ \A n \in Nat : n \in closedOnce <=> n < channel \/ (n = channel /\ feedClosed)
  /\ channel <= delivered

\* A caller waits on a channel that is closed, or on the current one and for good reason.
FeedWaiters ==
  \A u \in Caller : caller[u] = "wait" =>
    watched[u] \in closedOnce \/ (watched[u] = channel /\ delivered < mine[u] /\ ~feedClosed)

FeedInv == Feed!TypeOK /\ FeedDelivery /\ FeedChannels /\ FeedWaiters

\* The safety half of NoLostWakeup: a caller that waits for a version that is delivered, or on
\* a feed that is closed, waits on a channel that is closed.
WaitersCanWake ==
  \A u \in Caller :
    caller[u] = "wait" /\ (delivered >= mine[u] \/ feedClosed) => watched[u] \in closedOnce

LEMMA FeedInit == Feed!FeedAssumption /\ Feed!Init => FeedInv
<1> SUFFICES ASSUME Feed!FeedAssumption, Feed!Init PROVE FeedInv
  OBVIOUS
<1> USE DEF Feed!FeedAssumption, Feed!Init
<1>1. Feed!TypeOK
  <2>1. version \in 1..MaxVersion /\ delivered \in 0..version /\ channel \in 0..MaxVersion
    OBVIOUS
  <2>2. /\ conn \in [Feed!Conn -> {"new", "queued", "reset", "open", "gone"}]
        /\ caller \in [Caller -> {"idle", "check", "wait", "ok", "failed"}]
        /\ mine \in [Caller -> 0..version] /\ watched \in [Caller -> 0..MaxVersion]
    BY <2>1
  <2>3. {panicked, updated, feedClosed, listening} \subseteq BOOLEAN
    OBVIOUS
  <2> QED BY <2>1, <2>2, <2>3 DEF Feed!TypeOK
<1>2. FeedDelivery
  BY DEF FeedDelivery, ExactDelivery
<1>3. FeedChannels
  BY DEF FeedChannels
<1>4. FeedWaiters
  BY DEF FeedWaiters
<1> QED BY <1>1, <1>2, <1>3, <1>4 DEF FeedInv

\* Every step keeps the types: a channel is replaced when a newer version is delivered, so there
\* are no more of them than versions.
LEMMA FeedTypesKept ==
  ASSUME Feed!FeedAssumption, Feed!TypeOK, FeedDelivery, FeedChannels, [Feed!Next]_Feed!vars
  PROVE  Feed!TypeOK'
<1> USE Feed!FeedAssumption DEF Feed!source, Feed!network, Feed!serverVars, Feed!callerVars
<1>1. ASSUME NEW c \in Feed!Conn, Feed!Connects(c) PROVE Feed!TypeOK'
  BY <1>1 DEF Feed!Connects, Feed!TypeOK
<1>2. ASSUME NEW c \in Feed!Conn, Feed!Disconnects(c) PROVE Feed!TypeOK'
  BY <1>2 DEF Feed!Disconnects, Feed!TypeOK
<1>3. ASSUME NEW u \in Caller, Feed!Update(u) PROVE Feed!TypeOK'
  BY <1>3 DEF Feed!Update, Feed!TypeOK
<1>4. ASSUME NEW u \in Caller, Feed!WaitInitialDelivery(u) PROVE Feed!TypeOK'
  BY <1>4 DEF Feed!WaitInitialDelivery, Feed!TypeOK
<1>5. ASSUME NEW u \in Caller, Feed!WaiterLooks(u) PROVE Feed!TypeOK'
  BY <1>5 DEF Feed!WaiterLooks, Feed!TypeOK
<1>6. ASSUME NEW u \in Caller, Feed!WaiterWakes(u) PROVE Feed!TypeOK'
  BY <1>6 DEF Feed!WaiterWakes, Feed!TypeOK
<1>7. ASSUME NEW u \in Caller, Feed!WaiterTimesOut(u) PROVE Feed!TypeOK'
  BY <1>7 DEF Feed!WaiterTimesOut, Feed!TypeOK
<1>8. ASSUME NEW u \in Caller, Feed!CallReturns(u) PROVE Feed!TypeOK'
  BY <1>8 DEF Feed!CallReturns, Feed!TypeOK
<1>9. ASSUME NEW c \in Feed!Conn, Feed!ServeAccepts(c) PROVE Feed!TypeOK'
  BY <1>9 DEF Feed!ServeAccepts, Feed!TypeOK
<1>10. CASE Feed!ServeEnds
  BY <1>10 DEF Feed!ServeEnds, Feed!TypeOK
<1>11. CASE Feed!ServeRegisters
  BY <1>11 DEF Feed!ServeRegisters, Feed!TypeOK
<1>12. CASE Feed!ReadsFrame
  BY <1>12 DEF Feed!ReadsFrame, Feed!TypeOK
<1>13. CASE Feed!WritesFrame
  <2>1. writing \in 1..version
    BY <1>13 DEF Feed!WritesFrame, Feed!TypeOK, FeedDelivery
  <2> QED BY <1>13, <2>1 DEF Feed!WritesFrame, Feed!TypeOK
<1>14. CASE Feed!WriteFails
  BY <1>14 DEF Feed!WriteFails, Feed!TypeOK
<1>15. CASE Feed!MarksDelivered
  <2> DEFINE Counted == delivered' \in 0..version /\ channel' \in 0..MaxVersion
                       /\ closedOnce' \subseteq 0..MaxVersion
  <2>1. ASSUME Feed!MarksNew PROVE Counted
    <3>1. delivered' = writing /\ closedOnce' = closedOnce \cup {channel} /\ channel' = channel + 1
      BY <1>15, <2>1 DEF Feed!MarksDelivered
    <3>2. /\ writing \in 0..version /\ channel \in Nat /\ channel < writing
          /\ version \in 1..MaxVersion
      BY <2>1 DEF Feed!MarksNew, Feed!TypeOK, FeedChannels
    <3> QED BY <3>1, <3>2 DEF Feed!TypeOK
  <2>2. ASSUME ~Feed!MarksNew PROVE Counted
    BY <1>15, <2>2 DEF Feed!MarksDelivered, Feed!TypeOK
  <2>3. Counted
    BY <2>1, <2>2
  <2>4. {panicked', updated', feedClosed', listening'} \subseteq BOOLEAN
    BY <1>15 DEF Feed!MarksDelivered, Feed!TypeOK
  <2> QED BY <1>15, <2>3, <2>4 DEF Feed!MarksDelivered, Feed!TypeOK
<1>16. CASE Feed!SelectWakes
  BY <1>16 DEF Feed!SelectWakes, Feed!TypeOK, FeedDelivery, FeedChannels, Feed!Conn, Feed!None
<1>17. CASE Feed!ServeLeaves
  <2>1. conn' \in [Feed!Conn -> {"new", "queued", "reset", "open", "gone"}]
    BY <1>17 DEF Feed!ServeLeaves, Feed!TypeOK
  <2>2. current' \in Feed!Conn \cup {Feed!None} /\ serving' \in Feed!Conn \cup {Feed!None}
    BY <1>17 DEF Feed!ServeLeaves, Feed!TypeOK
  <2>3. {panicked', updated', feedClosed', listening'} \subseteq BOOLEAN
    BY <1>17 DEF Feed!ServeLeaves, Feed!TypeOK
  <2>4. /\ server' = "accept" /\ writing' = 0
        /\ UNCHANGED <<version, delivered, channel, closedOnce, closer, caller, mine, watched,
                       written>>
    BY <1>17 DEF Feed!ServeLeaves
  <2> QED BY <2>1, <2>2, <2>3, <2>4 DEF Feed!TypeOK
<1>18. CASE Feed!CloseBegins
  BY <1>18 DEF Feed!CloseBegins, Feed!TypeOK
<1>19. CASE Feed!CloseDropsConn
  BY <1>19 DEF Feed!CloseDropsConn, Feed!TypeOK
<1>20. CASE Feed!CloseListener
  BY <1>20 DEF Feed!CloseListener, Feed!TypeOK, FeedDelivery, FeedChannels, Feed!Conn, Feed!None
<1>21. CASE Feed!CloseReturns
  BY <1>21 DEF Feed!CloseReturns, Feed!TypeOK
<1>22. CASE UNCHANGED Feed!vars
  BY <1>22 DEF Feed!vars, Feed!TypeOK
<1> QED BY <1>1, <1>2, <1>3, <1>4, <1>5, <1>6, <1>7, <1>8, <1>9, <1>10, <1>11, <1>12, <1>13,
     <1>14, <1>15, <1>16, <1>17, <1>18, <1>19, <1>20, <1>21, <1>22 DEF Feed!Next, Feed!Serve,
     Feed!Closing, Feed!Waiting

\* markDelivered follows a complete write, and a caller looks at what it has recorded.
LEMMA FeedDeliveryKept ==
  ASSUME Feed!FeedAssumption, FeedDelivery, Feed!TypeOK, [Feed!Next]_Feed!vars
  PROVE  FeedDelivery'
<1> USE Feed!FeedAssumption DEF Feed!source, Feed!network, Feed!serverVars, Feed!callerVars
<1>1. ASSUME NEW c \in Feed!Conn, Feed!Connects(c) PROVE FeedDelivery'
  BY <1>1 DEF Feed!Connects, FeedDelivery, ExactDelivery
<1>2. ASSUME NEW c \in Feed!Conn, Feed!Disconnects(c) PROVE FeedDelivery'
  BY <1>2 DEF Feed!Disconnects, FeedDelivery, ExactDelivery
<1>3. ASSUME NEW u \in Caller, Feed!Update(u) PROVE FeedDelivery'
  BY <1>3 DEF Feed!Update, FeedDelivery, Feed!TypeOK, ExactDelivery
<1>4. ASSUME NEW u \in Caller, Feed!WaitInitialDelivery(u) PROVE FeedDelivery'
  BY <1>4 DEF Feed!WaitInitialDelivery, FeedDelivery, Feed!TypeOK, ExactDelivery
<1>5. ASSUME NEW u \in Caller, Feed!WaiterLooks(u) PROVE FeedDelivery'
  BY <1>5 DEF Feed!WaiterLooks, FeedDelivery, Feed!TypeOK, ExactDelivery
<1>6. ASSUME NEW u \in Caller, Feed!WaiterWakes(u) PROVE FeedDelivery'
  BY <1>6 DEF Feed!WaiterWakes, FeedDelivery, ExactDelivery
<1>7. ASSUME NEW u \in Caller, Feed!WaiterTimesOut(u) PROVE FeedDelivery'
  BY <1>7 DEF Feed!WaiterTimesOut, FeedDelivery, ExactDelivery
<1>8. ASSUME NEW u \in Caller, Feed!CallReturns(u) PROVE FeedDelivery'
  BY <1>8 DEF Feed!CallReturns, FeedDelivery, Feed!TypeOK, ExactDelivery
<1>9. ASSUME NEW c \in Feed!Conn, Feed!ServeAccepts(c) PROVE FeedDelivery'
  BY <1>9 DEF Feed!ServeAccepts, FeedDelivery, ExactDelivery
<1>10. CASE Feed!ServeEnds
  BY <1>10 DEF Feed!ServeEnds, FeedDelivery, ExactDelivery
<1>11. CASE Feed!ServeRegisters
  BY <1>11 DEF Feed!ServeRegisters, FeedDelivery, ExactDelivery
<1>12. CASE Feed!ReadsFrame
  BY <1>12 DEF Feed!ReadsFrame, FeedDelivery, Feed!TypeOK, ExactDelivery
<1>13. CASE Feed!WritesFrame
  BY <1>13 DEF Feed!WritesFrame, FeedDelivery, ExactDelivery
<1>14. CASE Feed!WriteFails
  BY <1>14 DEF Feed!WriteFails, FeedDelivery, ExactDelivery
<1>15. CASE Feed!MarksDelivered
  BY <1>15 DEF Feed!MarksDelivered, FeedDelivery, ExactDelivery
<1>16. CASE Feed!SelectWakes
  BY <1>16 DEF Feed!SelectWakes, FeedDelivery, ExactDelivery
<1>17. CASE Feed!ServeLeaves
  BY <1>17 DEF Feed!ServeLeaves, FeedDelivery, ExactDelivery
<1>18. CASE Feed!CloseBegins
  BY <1>18 DEF Feed!CloseBegins, FeedDelivery, ExactDelivery
<1>19. CASE Feed!CloseDropsConn
  BY <1>19 DEF Feed!CloseDropsConn, FeedDelivery, ExactDelivery
<1>20. CASE Feed!CloseListener
  BY <1>20 DEF Feed!CloseListener, FeedDelivery, ExactDelivery
<1>21. CASE Feed!CloseReturns
  BY <1>21 DEF Feed!CloseReturns, FeedDelivery, ExactDelivery
<1>22. CASE UNCHANGED Feed!vars
  BY <1>22 DEF Feed!vars, FeedDelivery, ExactDelivery
<1> QED BY <1>1, <1>2, <1>3, <1>4, <1>5, <1>6, <1>7, <1>8, <1>9, <1>10, <1>11, <1>12, <1>13,
     <1>14, <1>15, <1>16, <1>17, <1>18, <1>19, <1>20, <1>21, <1>22 DEF Feed!Next, Feed!Serve,
     Feed!Closing, Feed!Waiting

\* A channel is replaced when it is closed, except by Close, after which markDelivered does
\* nothing.
LEMMA FeedChannelsKept ==
  ASSUME Feed!FeedAssumption, FeedChannels, Feed!TypeOK, [Feed!Next]_Feed!vars
  PROVE  FeedChannels'
<1> USE Feed!FeedAssumption DEF Feed!source, Feed!network, Feed!serverVars, Feed!callerVars
<1>1. ASSUME NEW c \in Feed!Conn, Feed!Connects(c) PROVE FeedChannels'
  BY <1>1 DEF Feed!Connects, FeedChannels
<1>2. ASSUME NEW c \in Feed!Conn, Feed!Disconnects(c) PROVE FeedChannels'
  BY <1>2 DEF Feed!Disconnects, FeedChannels
<1>3. ASSUME NEW u \in Caller, Feed!Update(u) PROVE FeedChannels'
  BY <1>3 DEF Feed!Update, FeedChannels
<1>4. ASSUME NEW u \in Caller, Feed!WaitInitialDelivery(u) PROVE FeedChannels'
  BY <1>4 DEF Feed!WaitInitialDelivery, FeedChannels
<1>5. ASSUME NEW u \in Caller, Feed!WaiterLooks(u) PROVE FeedChannels'
  BY <1>5 DEF Feed!WaiterLooks, FeedChannels
<1>6. ASSUME NEW u \in Caller, Feed!WaiterWakes(u) PROVE FeedChannels'
  BY <1>6 DEF Feed!WaiterWakes, FeedChannels
<1>7. ASSUME NEW u \in Caller, Feed!WaiterTimesOut(u) PROVE FeedChannels'
  BY <1>7 DEF Feed!WaiterTimesOut, FeedChannels
<1>8. ASSUME NEW u \in Caller, Feed!CallReturns(u) PROVE FeedChannels'
  BY <1>8 DEF Feed!CallReturns, FeedChannels
<1>9. ASSUME NEW c \in Feed!Conn, Feed!ServeAccepts(c) PROVE FeedChannels'
  BY <1>9 DEF Feed!ServeAccepts, FeedChannels
<1>10. CASE Feed!ServeEnds
  BY <1>10 DEF Feed!ServeEnds, FeedChannels
<1>11. CASE Feed!ServeRegisters
  BY <1>11 DEF Feed!ServeRegisters, FeedChannels
<1>12. CASE Feed!ReadsFrame
  BY <1>12 DEF Feed!ReadsFrame, FeedChannels
<1>13. CASE Feed!WritesFrame
  BY <1>13 DEF Feed!WritesFrame, FeedChannels
<1>14. CASE Feed!WriteFails
  BY <1>14 DEF Feed!WriteFails, FeedChannels
<1>15. CASE Feed!MarksDelivered
  BY <1>15 DEF Feed!MarksDelivered, Feed!MarksNew, FeedChannels, Feed!TypeOK
<1>16. CASE Feed!SelectWakes
  BY <1>16 DEF Feed!SelectWakes, FeedChannels
<1>17. CASE Feed!ServeLeaves
  BY <1>17 DEF Feed!ServeLeaves, FeedChannels
<1>18. CASE Feed!CloseBegins
  BY <1>18 DEF Feed!CloseBegins, FeedChannels, Feed!TypeOK
<1>19. CASE Feed!CloseDropsConn
  BY <1>19 DEF Feed!CloseDropsConn, FeedChannels
<1>20. CASE Feed!CloseListener
  BY <1>20 DEF Feed!CloseListener, FeedChannels
<1>21. CASE Feed!CloseReturns
  BY <1>21 DEF Feed!CloseReturns, FeedChannels
<1>22. CASE UNCHANGED Feed!vars
  BY <1>22 DEF Feed!vars, FeedChannels
<1> QED BY <1>1, <1>2, <1>3, <1>4, <1>5, <1>6, <1>7, <1>8, <1>9, <1>10, <1>11, <1>12, <1>13,
     <1>14, <1>15, <1>16, <1>17, <1>18, <1>19, <1>20, <1>21, <1>22 DEF Feed!Next, Feed!Serve,
     Feed!Closing, Feed!Waiting

\* A caller takes the current channel under the lock under which it has looked, and what could let
\* it go on closes that channel.
LEMMA FeedWaitersKept ==
  ASSUME Feed!FeedAssumption, FeedWaiters, Feed!TypeOK, FeedDelivery, FeedChannels,
         [Feed!Next]_Feed!vars
  PROVE  FeedWaiters'
<1> USE Feed!FeedAssumption DEF Feed!source, Feed!network, Feed!serverVars, Feed!callerVars
<1>1. ASSUME NEW c \in Feed!Conn, Feed!Connects(c) PROVE FeedWaiters'
  BY <1>1 DEF Feed!Connects, FeedWaiters
<1>2. ASSUME NEW c \in Feed!Conn, Feed!Disconnects(c) PROVE FeedWaiters'
  BY <1>2 DEF Feed!Disconnects, FeedWaiters
<1>3. ASSUME NEW u \in Caller, Feed!Update(u) PROVE FeedWaiters'
  BY <1>3 DEF Feed!Update, FeedWaiters
<1>4. ASSUME NEW u \in Caller, Feed!WaitInitialDelivery(u) PROVE FeedWaiters'
  BY <1>4 DEF Feed!WaitInitialDelivery, FeedWaiters
<1>5. ASSUME NEW u \in Caller, Feed!WaiterLooks(u) PROVE FeedWaiters'
  BY <1>5 DEF Feed!WaiterLooks, FeedWaiters, Feed!TypeOK
<1>6. ASSUME NEW u \in Caller, Feed!WaiterWakes(u) PROVE FeedWaiters'
  BY <1>6 DEF Feed!WaiterWakes, FeedWaiters
<1>7. ASSUME NEW u \in Caller, Feed!WaiterTimesOut(u) PROVE FeedWaiters'
  BY <1>7 DEF Feed!WaiterTimesOut, FeedWaiters
<1>8. ASSUME NEW u \in Caller, Feed!CallReturns(u) PROVE FeedWaiters'
  BY <1>8 DEF Feed!CallReturns, FeedWaiters
<1>9. ASSUME NEW c \in Feed!Conn, Feed!ServeAccepts(c) PROVE FeedWaiters'
  BY <1>9 DEF Feed!ServeAccepts, FeedWaiters
<1>10. CASE Feed!ServeEnds
  BY <1>10 DEF Feed!ServeEnds, FeedWaiters
<1>11. CASE Feed!ServeRegisters
  BY <1>11 DEF Feed!ServeRegisters, FeedWaiters
<1>12. CASE Feed!ReadsFrame
  BY <1>12 DEF Feed!ReadsFrame, FeedWaiters
<1>13. CASE Feed!WritesFrame
  BY <1>13 DEF Feed!WritesFrame, FeedWaiters
<1>14. CASE Feed!WriteFails
  BY <1>14 DEF Feed!WriteFails, FeedWaiters
<1>15. CASE Feed!MarksDelivered
  BY <1>15 DEF Feed!MarksDelivered, FeedWaiters
<1>16. CASE Feed!SelectWakes
  BY <1>16 DEF Feed!SelectWakes, FeedWaiters
<1>17. CASE Feed!ServeLeaves
  BY <1>17 DEF Feed!ServeLeaves, FeedWaiters
<1>18. CASE Feed!CloseBegins
  BY <1>18 DEF Feed!CloseBegins, FeedWaiters
<1>19. CASE Feed!CloseDropsConn
  BY <1>19 DEF Feed!CloseDropsConn, FeedWaiters
<1>20. CASE Feed!CloseListener
  BY <1>20 DEF Feed!CloseListener, FeedWaiters
<1>21. CASE Feed!CloseReturns
  BY <1>21 DEF Feed!CloseReturns, FeedWaiters
<1>22. CASE UNCHANGED Feed!vars
  BY <1>22 DEF Feed!vars, FeedWaiters
<1> QED BY <1>1, <1>2, <1>3, <1>4, <1>5, <1>6, <1>7, <1>8, <1>9, <1>10, <1>11, <1>12, <1>13,
     <1>14, <1>15, <1>16, <1>17, <1>18, <1>19, <1>20, <1>21, <1>22 DEF Feed!Next, Feed!Serve,
     Feed!Closing, Feed!Waiting

\* Every step of the callers, of serve and writeFrames, of Close and of the consumer keeps the
\* parts above (internal/imagefeed/source.go).
THEOREM FeedInvariant == Feed!FeedAssumption => (Feed!Spec => []FeedInv)
<1> SUFFICES ASSUME Feed!FeedAssumption PROVE Feed!Spec => []FeedInv
  OBVIOUS
<1>1. Feed!Init => FeedInv
  BY FeedInit
<1>2. FeedInv /\ [Feed!Next]_Feed!vars => FeedInv'
  BY FeedTypesKept, FeedDeliveryKept, FeedChannelsKept, FeedWaitersKept DEF FeedInv
<1> QED BY <1>1, <1>2, PTL DEF Feed!Spec

\* A call of UpdateAndWait that succeeds waited for a version that a consumer got completely, or
\* for an older one than that, for any number of callers, connections and updates.
THEOREM DeliveryExact == Feed!FeedAssumption => (Feed!Spec => []ExactDelivery)
<1>1. FeedInv => ExactDelivery
  BY DEF FeedInv, FeedDelivery
<1> QED BY <1>1, FeedInvariant, PTL

\* No deliveredCh is closed twice, and the current one is closed by Close only.
THEOREM ClosedOnce == Feed!FeedAssumption => (Feed!Spec => []ChannelsClosedOnce)
<1>1. FeedInv => ChannelsClosedOnce
  BY DEF FeedInv, FeedChannels, Feed!TypeOK, ChannelsClosedOnce
<1> QED BY <1>1, FeedInvariant, PTL

\* Whoever may stop waiting finds its channel closed, so that a wakeup is never lost
\* (waitDelivered).
THEOREM WakeupsKept == Feed!FeedAssumption => (Feed!Spec => []WaitersCanWake)
<1>1. FeedInv => WaitersCanWake
  BY DEF FeedInv, FeedWaiters, Feed!TypeOK, WaitersCanWake
<1> QED BY <1>1, FeedInvariant, PTL
=============================================================================
