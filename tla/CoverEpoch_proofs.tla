--------------------------- MODULE CoverEpoch_proofs ---------------------------
(***************************************************************************)
(* Proofs about CoverEpoch, for any number of job generations and epochs.  *)
(***************************************************************************)
EXTENDS CoverEpoch, TLAPS

NotAfter(e, f) == e = f \/ Before(e, f)

\* What was handed out is not after what is durable, what is durable is not
\* after what the file system shows, and a start in progress is not for a job
\* below that of the record: so the epoch it gets is after all of them.
EpochInv ==
  /\ TypeOK
  /\ \A e \in issued : NotAfter(e, durable)
  /\ NotAfter(durable, record)
  /\ NotAfter(memory, record)
  /\ record[1] <= asked
  /\ start.phase = "begun" => record[1] <= start.job /\ start.job \in Job
  /\ start.phase # "idle" => start.job <= asked
  /\ start.phase = "renamed" => start.epoch = record /\ Before(durable, record)

LEMMA EpochFacts ==
  /\ Epochs \subseteq Nat \X Nat
  /\ NoEpoch \in Epochs
  /\ \A e \in Epochs : e[1] \in 0 .. MaxJob /\ e[2] \in Nat /\ e = <<e[1], e[2]>>
  /\ \A e, f, g \in Epochs :
       /\ NotAfter(e, e)
       /\ NotAfter(e, f) /\ NotAfter(f, g) => NotAfter(e, g)
       /\ NotAfter(e, f) /\ Before(f, g) => Before(e, g)
       /\ ~Before(e, e)
<1>1. Epochs \subseteq Nat \X Nat /\ NoEpoch \in Epochs
  BY EpochAssumption DEF Epochs, NoEpoch, Job
<1>2. \A e \in Epochs : e[1] \in 0 .. MaxJob /\ e[2] \in Nat /\ e = <<e[1], e[2]>>
  BY EpochAssumption DEF Epochs, NoEpoch, Job
<1>3. \A e \in Epochs : NotAfter(e, e) /\ ~Before(e, e)
  BY <1>2 DEF NotAfter, Before
<1>4. \A e, f, g \in Epochs : NotAfter(e, f) /\ Before(f, g) => Before(e, g)
  BY <1>2 DEF NotAfter, Before
<1> QED
  BY <1>1, <1>2, <1>3, <1>4 DEF NotAfter

\* The epoch of a start is after the record: memory never knows better.
LEMMA NextIsLater ==
  ASSUME EpochInv, start.phase = "begun", NextEpoch(start.job)[2] <= MaxGeneration
  PROVE  /\ NextEpoch(start.job) \in Epochs
         /\ Before(record, NextEpoch(start.job))
         /\ NextEpoch(start.job)[1] = start.job
<1> DEFINE j == start.job
<1>1. record \in Epochs /\ memory \in Epochs /\ j \in Job /\ j \in Nat /\ record[1] <= j
  BY EpochAssumption DEF EpochInv, TypeOK, Job
<1>2. Previous(j) = record
  BY <1>1, EpochFacts DEF Previous, EpochInv, NotAfter, Before
<1>3. NextEpoch(j) = IF record[1] = j THEN <<j, record[2] + 1>> ELSE <<j, 1>>
  BY <1>2 DEF NextEpoch
<1>4. NextEpoch(j)[1] = j /\ Before(record, NextEpoch(j))
  BY <1>1, <1>3, EpochFacts DEF Before
<1>5. NextEpoch(j)[2] \in 1 .. MaxGeneration
  BY <1>1, <1>3, EpochFacts, EpochAssumption
<1>6. NextEpoch(j) \in Epochs
  BY <1>1, <1>3, <1>5 DEF Epochs
<1> QED
  BY <1>4, <1>6

LEMMA InitEpochInv == Init => EpochInv
BY EpochAssumption, EpochFacts
DEF Init, EpochInv, TypeOK, Idle, NoEpoch, NotAfter, Epochs, Job

LEMMA NextEpochInv ==
  ASSUME LegacyInOrder, EpochInv, [Next]_vars
  PROVE  EpochInv'
<1> USE EpochAssumption DEF EpochInv, TypeOK, Idle, Job
<1>1. ASSUME NEW j \in Job, BeginManaged(j) \/ BeginLegacy(j)
      PROVE  EpochInv'
  <2>1. record[1] <= j /\ Begin(j, start'.managed)
    <3>1. CASE BeginManaged(j)
      BY <3>1, EpochFacts DEF BeginManaged, Fenced, Begin
    <3>2. CASE BeginLegacy(j)
      BY <3>2, EpochFacts DEF BeginLegacy, Begin
    <3> QED
      BY <1>1, <3>1, <3>2
  <2>2. start' \in [phase : {"begun"}, managed : BOOLEAN, job : Job, epoch : {NoEpoch}]
        /\ start'.job = j
    <3>1. PICK b \in BOOLEAN :
            start' = [phase |-> "begun", managed |-> b, job |-> j, epoch |-> NoEpoch]
      BY <1>1, Zenon DEF BeginManaged, BeginLegacy, Begin
    <3> QED
      BY <3>1
  <2>3. asked' \in 0 .. MaxJob /\ asked <= asked' /\ j <= asked'
    BY <2>1 DEF Begin
  <2>4. TypeOK'
    BY <2>1, <2>2, <2>3, EpochFacts DEF Begin
  <2> QED
    BY <2>1, <2>2, <2>3, <2>4, EpochFacts DEF Begin, NotAfter, Before
<1>2. CASE StartFails
  BY <1>2, EpochFacts DEF StartFails, NotAfter, Before
<1>3. CASE RecordRenamed
  <2> DEFINE e == NextEpoch(start.job)
  <2>1. /\ e \in Epochs /\ Before(record, e) /\ e[1] = start.job
    BY <1>3, NextIsLater DEF RecordRenamed
  <2>2. /\ record' = e /\ start' = [start EXCEPT !.phase = "renamed", !.epoch = e]
        /\ durable' = durable /\ memory' = memory /\ issued' = issued /\ asked' = asked
        /\ start.phase = "begun"
    BY <1>3 DEF RecordRenamed
  <2>3. Before(durable, e) /\ Before(memory, e)
    BY <2>1, EpochFacts
  <2>4. TypeOK'
    BY <2>1, <2>2
  <2>5. start'.phase = "renamed" /\ start'.epoch = e /\ start'.job = start.job
    BY <2>2
  <2> QED
    BY <2>1, <2>2, <2>3, <2>4, <2>5 DEF NotAfter, Before
<1>4. CASE EpochIssued
  BY <1>4, EpochFacts DEF EpochIssued, NotAfter, Before
<1>5. CASE SyncFails
  BY <1>5, EpochFacts DEF SyncFails, NotAfter, Before
<1>6. CASE Crash
  <2>1. PICK r \in {record, durable} : record' = r /\ durable' = r
    BY <1>6 DEF Crash
  <2>2. memory' = NoEpoch /\ start' = Idle /\ issued' = issued /\ asked' = asked
    BY <1>6 DEF Crash
  <2>3. \A e \in issued : NotAfter(e, r)
    BY <2>1, EpochFacts
  <2>4. r[1] <= asked /\ NotAfter(NoEpoch, r)
    BY <2>1, EpochFacts DEF NotAfter, Before, NoEpoch, Epochs
  <2>5. TypeOK'
    BY <2>1, <2>2, EpochFacts
  <2> QED
    BY <2>1, <2>2, <2>3, <2>4, <2>5 DEF NotAfter
<1>7. CASE UNCHANGED vars
  BY <1>7 DEF vars, NotAfter, Before
<1> QED
  BY <1>1, <1>2, <1>3, <1>4, <1>5, <1>6, <1>7 DEF Next

\* Across failed starts, failed syncs, crashes and restarts the record, what is
\* durable and what was handed out stay in order, as long as legacy starts
\* bring job generations that do not fall.
THEOREM EpochOrder == LegacyInOrder => (Spec => []EpochInv)
<1> SUFFICES ASSUME LegacyInOrder PROVE Spec => []EpochInv
  OBVIOUS
<1>1. EpochInv /\ [Next]_vars => EpochInv'
  BY NextEpochInv
<1> QED
  BY InitEpochInv, <1>1, PTL DEF Spec

\* The types of CoverEpoch are kept by every step.
THEOREM EpochTyping == LegacyInOrder => (Spec => []TypeOK)
<1> SUFFICES ASSUME LegacyInOrder PROVE Spec => []TypeOK
  OBVIOUS
<1>1. EpochInv => TypeOK
  BY DEF EpochInv
<1> QED
  BY EpochOrder, <1>1, PTL

\* Whatever crashes come between rename and sync, the disk knows every epoch
\* that nextCoverGeneration handed out.
THEOREM EpochsAreRemembered == LegacyInOrder => (Spec => []IssuedIsRemembered)
<1> SUFFICES ASSUME LegacyInOrder PROVE Spec => []IssuedIsRemembered
  OBVIOUS
<1>1. EpochInv => IssuedIsRemembered
  BY DEF EpochInv, IssuedIsRemembered, NotAfter
<1> QED
  BY EpochOrder, <1>1, PTL

\* No epoch is handed out twice or out of order: each is after all before it
\* (start_preparation.go:85).
THEOREM EpochsNeverReused == LegacyInOrder => (Spec => EpochsIncrease)
<1> DEFINE Later == issued' # issued \/ EpochIssued =>
                      \A e \in issued : Before(e, start.epoch)
<1> SUFFICES ASSUME LegacyInOrder PROVE Spec => EpochsIncrease
  OBVIOUS
<1>1. EpochInv /\ [Next]_vars => [Later]_vars
  <2> SUFFICES ASSUME EpochInv, Next, issued' # issued \/ EpochIssued
      PROVE  \A e \in issued : Before(e, start.epoch)
    OBVIOUS
  <2>1. EpochIssued
    BY DEF Next, BeginManaged, BeginLegacy, Begin, StartFails, RecordRenamed, SyncFails, Crash
  <2>2. start.epoch = record /\ Before(durable, record)
    BY <2>1 DEF EpochIssued, EpochInv
  <2> QED
    BY <2>2, EpochFacts DEF EpochInv, TypeOK
<1> QED
  BY EpochOrder, <1>1, PTL DEF Spec, EpochsIncrease
=============================================================================
