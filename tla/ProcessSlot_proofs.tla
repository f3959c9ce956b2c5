-------------------------- MODULE ProcessSlot_proofs --------------------------
(***************************************************************************)
(* Proofs about ProcessSlot, for any number of streams and attempts.       *)
(***************************************************************************)
EXTENDS ProcessSlot, TLAPS

\* The control panel commits only what it was told is prepared, and does not
\* abort what it committed.
Orderly == ~EagerCommits /\ ~LateAborts

Live == {"preparing", "prepared", "committing", "running"}
Closing == {"closing", "closingToPackage"}
Packaging == {"handoff", "packaging"}

\* The slot names an attempt for its own stream that has been reserved.
SlotNames ==
  \A s \in Stream :
    slot[s] # NoStart => StreamOf[slot[s]] = s /\ owner[slot[s]] # "idle"

Untouched(a) ==
  /\ status[a] = "none" /\ ~cleaning[a] /\ proc[a] = "none" /\ wait[a] = "none"
  /\ ~Installed(a)

\* What holds of every attempt: where each goroutine is, what it knows.
AttemptInv(a) ==
  /\ owner[a] = "idle" => Untouched(a)
  /\ owner[a] \in {"preparing", "spawned"} =>
       Installed(a) /\ status[a] = "starting" /\ wait[a] = "none"
  /\ owner[a] = "preparing" => proc[a] = "none"
  /\ owner[a] = "spawned" => proc[a] \in {"alive", "exited"}
  /\ wait[a] = "none" /\ proc[a] = "alive" => owner[a] = "spawned"
  /\ wait[a] = "waiting" =>
       Installed(a) /\ status[a] \in {"starting", "running", "stopping"}
  /\ wait[a] \notin {"none", "waiting"} => proc[a] = "exited"
  /\ wait[a] \in Closing =>
       Installed(a) /\ cleaning[a] /\ owner[a] = "done"
  /\ wait[a] \in Packaging =>
       Installed(a) /\ ~cleaning[a] /\ owner[a] = "done"
  /\ wait[a] \in Packaging \cup {"closingToPackage"} => status[a] = "packaging"
  /\ status[a] = "running" => wait[a] = "waiting"
  /\ status[a] = "stopping" => wait[a] = "waiting"

LegacyInv(a) ==
  /\ owner[a] \in {"idle", "preparing", "spawned", "done"}
  /\ owner[a] # "done" => ~cleaning[a]
  /\ wait[a] # "none" => owner[a] = "done"
  /\ wait[a] = "none" /\ owner[a] = "done" => ~Installed(a) 
  /\ wait[a] = "waiting" => status[a] # "starting"
  /\ wait[a] # "failing"
  /\ cleaning[a] => wait[a] \in Closing

\* A managed start whose slot is free again has nothing left to clean.
Released(a) ==
  /\ proc[a] \in {"none", "exited"}
  /\ cleanup[a] = "done"
  /\ PrepareDone(a)
  /\ wait[a] \notin {"waiting"} \cup Closing \cup Packaging

ManagedInv(a) ==
  /\ owner[a] = "idle" =>
       /\ phase[a] = "none" /\ abort[a] = "none"
       /\ decider[a] = "none" /\ cleanup[a] = "none"
  /\ owner[a] # "idle" => phase[a] # "none"
  /\ owner[a] \in {"preparing", "spawned"} => cleanup[a] = "none"
  /\ owner[a] \in {"preparing", "spawned", "installed"} =>
       Holds(a) /\ abort[a] \in {"none", "prepare", "gaveUp"}
  /\ owner[a] = "installed" => wait[a] \in {"waiting", "failing"}
  /\ wait[a] = "none" /\ owner[a] # "spawned" => proc[a] = "none"
  /\ phase[a] \in Live =>
       /\ Installed(a) /\ ~cleaning[a] /\ abort[a] = "none"
       /\ cleanup[a] = "none"
  /\ phase[a] = "preparing" =>
       /\ owner[a] \in {"preparing", "spawned", "failing"}
       /\ wait[a] \in {"none", "waiting"} /\ status[a] = "starting" /\ decider[a] = "none"
  /\ phase[a] = "prepared" =>
       /\ owner[a] \in {"installed", "failing", "done"}
       /\ wait[a] = "waiting" /\ status[a] = "starting" /\ decider[a] = "none"
  /\ phase[a] = "committing" =>
       /\ owner[a] = "done" /\ wait[a] = "waiting" /\ status[a] = "starting"
       /\ decider[a] \in {"witness", "abortFailed"}
  /\ phase[a] = "running" =>
       /\ owner[a] = "done" /\ wait[a] = "waiting"
       /\ status[a] \in {"running", "stopping"} /\ decider[a] = "done"
  /\ decider[a] # "none" => owner[a] = "done"
  /\ status[a] \in {"running", "stopping"} => phase[a] = "running"
  /\ abort[a] # "none" => abortPhase[a] \in Terminal
  /\ abort[a] \in {"exit", "cleanup", "done"} => PrepareDone(a)
  /\ abort[a] \in {"cleanup", "done"} =>
       wait[a] # "waiting" /\ cleanup[a] # "none"
  /\ wait[a] \in Closing \cup Packaging =>
       abort[a] = "none" /\ decider[a] = "done" /\ cleanup[a] # "none"
  /\ wait[a] \in Packaging \cup {"done"} =>
       ~cleaning[a] /\ cleanup[a] = "done" /\ PrepareDone(a)
  /\ wait[a] = "failing" =>
       cleanup[a] # "none" /\ (cleaning[a] \/ Released(a)) /\ status[a] = "failed"
  /\ owner[a] # "idle" /\ ~Holds(a) => Released(a)

Exclusive ==
  \A a, b \in Attempts :
    a # b /\ Holds(a) /\ Holds(b) => a \notin Managed /\ b \notin Managed

IInv ==
  /\ TypeOK
  /\ SlotNames
  /\ \A a \in Attempts : AttemptInv(a)
  /\ \A a \in Legacy : LegacyInv(a)
  /\ \A a \in Managed : ManagedInv(a)
  /\ Exclusive

-----------------------------------------------------------------------------
(* Types.                                                                  *)

ManagedStep(a) ==
  \/ BeginStartPreparation(a) \/ PrepareFails(a) \/ InstallPrepared(a)
  \/ AnswerPrepare(a) \/ FailStartPreparation(a)
  \/ AbortStartPreparation(a) \/ AbortSeesPrepareDone(a)
  \/ AbortSeesExit(a) \/ AbortEnds(a) \/ AbortGivesUp(a) \/ CleanupEnds(a)
  \/ CommitBegins(a) \/ CommitSucceeds(a) \/ CommitFails(a)
  \/ ExpiryClaims(a) \/ DeciderAborts(a)
  \/ WaitSeesPreparationExit(a) \/ WaitReleasesPreparation(a)

LegacyStep(a) ==
  ReserveLegacy(a) \/ LegacyStartFails(a) \/ LegacyStartKills(a) \/ InstallLegacy(a)

AnyStep(a) ==
  \/ Spawn(a) \/ KilledChildDies(a) \/ ChildEndsByItself(a)
  \/ (\E f \in BOOLEAN : WaitSeesRunExit(a, f))
  \/ WaitCloses(a) \/ PackageBegins(a) \/ PackageEnds(a)

\* Every step is a step of one attempt, or Stop of one stream.
LEMMA StepCases ==
  ASSUME Next
  PROVE  \/ \E a \in Managed : ManagedStep(a)
         \/ \E a \in Legacy : LegacyStep(a)
         \/ \E a \in Attempts : AnyStep(a)
         \/ \E s \in Stream : Stop(s)
  BY DEF Next, ManagedStep, LegacyStep, AnyStep

LEMMA InitTyped == Init => TypeOK
  BY SlotAssumption DEF Init, TypeOK, Status, Phase, Attempts

LEMMA AbortPreparationTyped ==
  ASSUME TypeOK, NEW a \in Managed, NEW ph \in Phase, AbortPreparation(a, ph)
  PROVE  /\ cleaning' \in [Attempts -> BOOLEAN]
         /\ phase' \in [Managed -> Phase]
         /\ abort' \in [Managed -> {"none", "prepare", "exit", "cleanup", "gaveUp",
                                    "done"}]
         /\ abortPhase' \in [Managed -> Phase]
<1>1. CASE /\ phase' = [phase EXCEPT ![a] = ph]
           /\ UNCHANGED <<cleaning, abort, abortPhase>>
  BY <1>1 DEF TypeOK
<1>2. CASE /\ abort' = [abort EXCEPT ![a] = "prepare"]
           /\ abortPhase' = [abortPhase EXCEPT ![a] = ph]
           /\ cleaning' = [cleaning EXCEPT ![a] = TRUE]
           /\ phase' = [phase EXCEPT ![a] = ph]
  BY <1>2 DEF TypeOK
<1>3. CASE UNCHANGED <<cleaning, abort, abortPhase, phase>>
  BY <1>3 DEF TypeOK
<1> QED
  BY <1>1, <1>2, <1>3 DEF AbortPreparation

LEMMA ManagedStepTyped ==
  ASSUME TypeOK, NEW a \in Managed, ManagedStep(a)
  PROVE  TypeOK'
<1> USE SlotAssumption DEF TypeOK, Status, Phase, Attempts
<1>1. CASE BeginStartPreparation(a)
  BY <1>1 DEF BeginStartPreparation, Reserve
<1>2. CASE PrepareFails(a)
  BY <1>2 DEF PrepareFails, tracked
<1>3. CASE InstallPrepared(a)
  BY <1>3 DEF InstallPrepared
<1>4. CASE AnswerPrepare(a)
  BY <1>4 DEF AnswerPrepare, tracked
<1>5. CASE FailStartPreparation(a)
  BY <1>5, AbortPreparationTyped DEF FailStartPreparation
<1>6. CASE AbortStartPreparation(a)
  BY <1>6, AbortPreparationTyped DEF AbortStartPreparation
<1>7. CASE AbortSeesPrepareDone(a)
  BY <1>7 DEF AbortSeesPrepareDone, CleanupStarts, tracked
<1>8. CASE AbortSeesExit(a)
  BY <1>8 DEF AbortSeesExit, CleanupStarts, tracked
<1>9. CASE AbortEnds(a)
  <2>1. CASE Installed(a)
    BY <1>9, <2>1 DEF AbortEnds
  <2>2. CASE ~Installed(a)
    BY <1>9, <2>2 DEF AbortEnds
  <2> QED
    BY <2>1, <2>2
<1>10. CASE AbortGivesUp(a)
  BY <1>10 DEF AbortGivesUp, tracked
<1>11. CASE CleanupEnds(a)
  BY <1>11 DEF CleanupEnds, tracked
<1>12. CASE CommitBegins(a)
  BY <1>12 DEF CommitBegins, tracked
<1>13. CASE CommitSucceeds(a)
  BY <1>13 DEF CommitSucceeds
<1>14. CASE CommitFails(a)
  BY <1>14 DEF CommitFails, tracked
<1>15. CASE ExpiryClaims(a)
  BY <1>15 DEF ExpiryClaims
<1>16. CASE DeciderAborts(a)
  BY <1>16, AbortPreparationTyped DEF DeciderAborts
<1>17. CASE WaitSeesPreparationExit(a)
  BY <1>17 DEF WaitSeesPreparationExit, CleanupStarts
<1>18. CASE WaitReleasesPreparation(a)
  BY <1>18 DEF WaitReleasesPreparation
<1> QED
  BY <1>1, <1>2, <1>3, <1>4, <1>5, <1>6, <1>7, <1>8, <1>9, <1>10, <1>11, <1>12,
     <1>13, <1>14, <1>15, <1>16, <1>17, <1>18 DEF ManagedStep

LEMMA LegacyStepTyped ==
  ASSUME TypeOK, NEW a \in Legacy, LegacyStep(a)
  PROVE  TypeOK'
<1> USE SlotAssumption DEF TypeOK, Status, Phase, Attempts
<1>1. CASE ReserveLegacy(a)
  BY <1>1 DEF ReserveLegacy, Reserve
<1>2. CASE LegacyStartFails(a)
  BY <1>2 DEF LegacyStartFails, DropReservation
<1>3. CASE LegacyStartKills(a)
  BY <1>3 DEF LegacyStartKills, DropReservation
<1>4. CASE InstallLegacy(a)
  BY <1>4 DEF InstallLegacy
<1> QED
  BY <1>1, <1>2, <1>3, <1>4 DEF LegacyStep

LEMMA AnyStepTyped ==
  ASSUME TypeOK, NEW a \in Attempts, AnyStep(a)
  PROVE  TypeOK'
<1> USE SlotAssumption DEF TypeOK, Status, Phase, Attempts
<1>1. CASE Spawn(a)
  BY <1>1 DEF Spawn, tracked
<1>2. CASE KilledChildDies(a)
  BY <1>2 DEF KilledChildDies, ChildDies, tracked
<1>3. CASE ChildEndsByItself(a)
  BY <1>3 DEF ChildEndsByItself, ChildDies, tracked
<1>4. ASSUME NEW f \in BOOLEAN, WaitSeesRunExit(a, f)
      PROVE  TypeOK'
  BY <1>4 DEF WaitSeesRunExit, StatusAfterExit, CleanupStarts
<1>5. CASE WaitCloses(a)
  BY <1>5 DEF WaitCloses
<1>6. CASE PackageBegins(a)
  BY <1>6 DEF PackageBegins, PackageWrites
<1>7. CASE PackageEnds(a)
  BY <1>7 DEF PackageEnds, PackageWrites
<1> QED
  BY <1>1, <1>2, <1>3, <1>4, <1>5, <1>6, <1>7 DEF AnyStep

LEMMA StopTyped ==
  ASSUME TypeOK, NEW s \in Stream, Stop(s)
  PROVE  TypeOK'
  BY SlotAssumption DEF Stop, TypeOK, Status, Attempts

LEMMA StepTyped == TypeOK /\ [Next]_vars => TypeOK'
<1> SUFFICES ASSUME TypeOK, [Next]_vars PROVE TypeOK'
  OBVIOUS
<1>1. CASE Next
  BY <1>1, StepCases, ManagedStepTyped, LegacyStepTyped, AnyStepTyped, StopTyped
<1>2. CASE UNCHANGED vars
  BY <1>2 DEF vars, TypeOK
<1> QED
  BY <1>1, <1>2

\* Every variable of the process manager keeps its type, whatever the control
\* panel sends and in whatever order the goroutines run.
THEOREM Typing == Spec => []TypeOK
<1> QED
  BY InitTyped, StepTyped, PTL DEF Spec
-----------------------------------------------------------------------------
(* The inductive invariant: initially, and how a step of one attempt        *)
(* leaves the others.                                                       *)

LEMMA InitInv == Init => IInv
<1> SUFFICES ASSUME Init PROVE IInv
  OBVIOUS
<1>1. TypeOK
  BY InitTyped
<1>2. SlotNames
  BY DEF Init, SlotNames
<1>3. \A a \in Attempts : AttemptInv(a) /\ ~Holds(a)
  BY SlotAssumption
  DEF Init, AttemptInv, Untouched, Holds, Installed, OwnsSlot, Closing,
      Packaging
<1>4. \A a \in Legacy : LegacyInv(a)
  BY DEF Init, LegacyInv, Closing, Attempts
<1>5. \A a \in Managed : ManagedInv(a)
  BY <1>3 DEF Init, ManagedInv, Live, Closing, Packaging, Attempts
<1> QED
  BY <1>1, <1>2, <1>3, <1>4, <1>5 DEF IInv, Exclusive

\* What an attempt sees of a step that is not its own.
Same(b) ==
  /\ status'[b] = status[b] /\ cleaning'[b] = cleaning[b] /\ proc'[b] = proc[b]
  /\ owner'[b] = owner[b] /\ wait'[b] = wait[b]
  /\ b \in Managed =>
       /\ phase'[b] = phase[b] /\ abort'[b] = abort[b]
       /\ abortPhase'[b] = abortPhase[b] /\ decider'[b] = decider[b]
       /\ cleanup'[b] = cleanup[b]

\* An attempt whose slot is left alone keeps its invariant.
LEMMA Frame ==
  ASSUME NEW b \in Attempts, Same(b), Installed(b)' <=> Installed(b)
  PROVE  /\ AttemptInv(b) => AttemptInv(b)'
         /\ LegacyInv(b) => LegacyInv(b)'
         /\ b \in Managed /\ ManagedInv(b) => ManagedInv(b)'
         /\ Holds(b)' <=> Holds(b)
<1>1. OwnsSlot(b)' <=> OwnsSlot(b)
  BY DEF Same, OwnsSlot
<1>2. Holds(b)' <=> Holds(b)
  BY <1>1 DEF Holds
<1>3. PrepareDone(b)' <=> PrepareDone(b)
  BY DEF Same, PrepareDone
<1>4. AttemptInv(b) => AttemptInv(b)'
  BY DEF Same, AttemptInv, Untouched
<1>5. LegacyInv(b) => LegacyInv(b)'
  BY DEF Same, LegacyInv
<1>6. ASSUME b \in Managed PROVE Released(b)' <=> Released(b)
  BY <1>3, <1>6 DEF Same, Released
<1>7. ASSUME b \in Managed PROVE ManagedInv(b) => ManagedInv(b)'
  BY <1>2, <1>3, <1>6, <1>7 DEF Same, ManagedInv
<1> QED
  BY <1>2, <1>4, <1>5, <1>7

\* A managed attempt that loses a slot it no longer owns keeps its invariant,
\* and so does a legacy one.
LEMMA FrameLost ==
  ASSUME NEW b \in Attempts, Same(b), ~Holds(b), ~Installed(b)',
         AttemptInv(b), owner[b] # "idle",
         b \in Legacy => LegacyInv(b), b \in Managed => ManagedInv(b)
  PROVE  /\ AttemptInv(b)'
         /\ b \in Legacy => LegacyInv(b)'
         /\ b \in Managed => ManagedInv(b)'
         /\ ~Holds(b)'
<1>1. ~Holds(b)'
  BY DEF Holds
<1>2. PrepareDone(b)' <=> PrepareDone(b)
  BY DEF Same, PrepareDone
<1>3. AttemptInv(b)'
  BY DEF Same, AttemptInv, Holds, OwnsSlot, Packaging
<1>4. b \in Legacy => LegacyInv(b)'
  BY DEF Same, LegacyInv
<1>5. ASSUME b \in Managed PROVE ManagedInv(b)'
  <2>1. Released(b) /\ Released(b)'
    BY <1>2, <1>5 DEF Same, ManagedInv, Released
  <2>2. phase[b] \notin Live
    BY <1>5, <2>1
    DEF ManagedInv, AttemptInv, Released, Live, Holds, OwnsSlot, PrepareDone
  <2> QED
    BY <1>1, <1>2, <1>5, <2>1, <2>2 DEF Same, ManagedInv, Live
<1> QED
  BY <1>1, <1>3, <1>4, <1>5

\* A step that concerns one attempt, and acquires nothing.
Local(a) ==
  /\ \A b \in Attempts : b # a => Same(b) /\ (Installed(b)' <=> Installed(b))
  /\ a \in Legacy => LegacyInv(a)'
  /\ a \in Managed => ManagedInv(a)'
  /\ AttemptInv(a)'
  /\ owner[a] # "idle" /\ owner'[a] # "idle"
  /\ Holds(a)' => Holds(a)

\* What every step is to the slot: one attempt acquires it while its rules
\* allow it, or one attempt may have given it back.
SlotStep ==
  \E a \in Attempts :
    /\ \A b \in Attempts : b # a =>
         (Holds(b)' <=> Holds(b)) /\ owner'[b] = owner[b]
    /\ owner'[a] # "idle"
    /\ \/ owner[a] # "idle" /\ (Holds(a)' => Holds(a))
       \/ /\ owner[a] = "idle" /\ Holds(a)'
          /\ \A b \in Attempts : Holds(b) =>
               a \notin Managed /\ b \notin Managed /\ StreamOf[b] # StreamOf[a]

LEMMA LocalStep ==
  ASSUME IInv, TypeOK', SlotNames', NEW a \in Attempts, Local(a)
  PROVE  IInv' /\ SlotStep
<1>1. ASSUME NEW b \in Attempts
      PROVE  AttemptInv(b)' /\ (Holds(b)' => Holds(b))
  BY <1>1, Frame DEF IInv, Local
<1>2. ASSUME NEW b \in Legacy PROVE LegacyInv(b)'
  BY <1>2, Frame DEF IInv, Local, Attempts
<1>3. ASSUME NEW b \in Managed PROVE ManagedInv(b)'
  BY <1>3, Frame DEF IInv, Local, Attempts
<1>4. Exclusive'
  BY <1>1 DEF IInv, Exclusive
<1>5. SlotStep
  BY Frame DEF Local, SlotStep, Same
<1> QED
  BY <1>1, <1>2, <1>3, <1>4, <1>5 DEF IInv

-----------------------------------------------------------------------------
(* Steps of a managed start.                                                *)

\* A step of a managed start that leaves Manager.processes alone.
LEMMA ManagedLocalStep ==
  ASSUME IInv, TypeOK', NEW a \in Managed,
         slot' = slot, owner[a] # "idle" /\ owner'[a] # "idle",
         \A b \in Attempts : b # a => Same(b),
         AttemptInv(a)', ManagedInv(a)', Holds(a)' => Holds(a)
  PROVE  IInv' /\ SlotStep
<1>1. a \in Attempts /\ a \notin Legacy
  BY SlotAssumption DEF Attempts
<1>2. \A b \in Attempts : Installed(b)' <=> Installed(b)
  BY DEF Installed
<1>3. SlotNames'
  BY DEF IInv, TypeOK, SlotNames, Same
<1>4. Local(a)
  BY <1>1, <1>2 DEF Local
<1> QED
  BY <1>1, <1>3, <1>4, LocalStep

LEMMA PrepareFailsInv ==
  ASSUME IInv, TypeOK', Orderly, NEW a \in Managed, PrepareFails(a)
  PROVE  IInv' /\ SlotStep
<1> USE SlotAssumption DEF Attempts
<1>1. TypeOK /\ AttemptInv(a) /\ ManagedInv(a)
  BY DEF IInv
<1>2. slot' = slot /\ owner[a] # "idle" /\ owner'[a] # "idle"
  BY <1>1 DEF PrepareFails, tracked, TypeOK, AttemptInv, ManagedInv, Untouched
<1>3. \A b \in Attempts : b # a => Same(b)
  BY <1>1 DEF PrepareFails, tracked, TypeOK, Same
<1>4. AttemptInv(a)' /\ ManagedInv(a)' /\ (Holds(a)' => Holds(a))
  BY <1>1
  DEF PrepareFails, tracked, TypeOK, AttemptInv, ManagedInv, Released, Holds,
      Installed, OwnsSlot, PrepareDone, Live, Closing, Packaging, Terminal,
      Untouched
<1> QED
  BY <1>2, <1>3, <1>4, ManagedLocalStep

LEMMA InstallPreparedInv ==
  ASSUME IInv, TypeOK', Orderly, NEW a \in Managed, InstallPrepared(a)
  PROVE  IInv' /\ SlotStep
<1> USE SlotAssumption DEF Attempts
<1>1. TypeOK /\ AttemptInv(a) /\ ManagedInv(a)
  BY DEF IInv
<1>2. slot' = slot /\ owner[a] # "idle" /\ owner'[a] # "idle"
  BY <1>1 DEF InstallPrepared, TypeOK, AttemptInv, ManagedInv, Untouched
<1>3. \A b \in Attempts : b # a => Same(b)
  BY <1>1 DEF InstallPrepared, TypeOK, Same
<1>4. AttemptInv(a)' /\ ManagedInv(a)' /\ (Holds(a)' => Holds(a))
  BY <1>1
  DEF InstallPrepared, TypeOK, AttemptInv, ManagedInv, Released, Holds,
      Installed, OwnsSlot, PrepareDone, Live, Closing, Packaging, Terminal,
      Untouched
<1> QED
  BY <1>2, <1>3, <1>4, ManagedLocalStep

LEMMA AnswerPrepareInv ==
  ASSUME IInv, TypeOK', Orderly, NEW a \in Managed, AnswerPrepare(a)
  PROVE  IInv' /\ SlotStep
<1> USE SlotAssumption DEF Attempts
<1>1. TypeOK /\ AttemptInv(a) /\ ManagedInv(a)
  BY DEF IInv
<1>2. slot' = slot /\ owner[a] # "idle" /\ owner'[a] # "idle"
  BY <1>1 DEF AnswerPrepare, tracked, TypeOK, AttemptInv, ManagedInv, Untouched
<1>3. \A b \in Attempts : b # a => Same(b)
  BY <1>1 DEF AnswerPrepare, tracked, TypeOK, Same
<1>4. AttemptInv(a)' /\ ManagedInv(a)' /\ (Holds(a)' => Holds(a))
  BY <1>1
  DEF AnswerPrepare, tracked, TypeOK, AttemptInv, ManagedInv, Released, Holds,
      Installed, OwnsSlot, PrepareDone, Live, Closing, Packaging, Terminal,
      Untouched
<1> QED
  BY <1>2, <1>3, <1>4, ManagedLocalStep

LEMMA AbortSeesPrepareDoneInv ==
  ASSUME IInv, TypeOK', Orderly, NEW a \in Managed, AbortSeesPrepareDone(a)
  PROVE  IInv' /\ SlotStep
<1> USE SlotAssumption DEF Attempts
<1>1. TypeOK /\ AttemptInv(a) /\ ManagedInv(a)
  BY DEF IInv
<1>2. slot' = slot /\ owner[a] # "idle" /\ owner'[a] # "idle"
  BY <1>1
  DEF AbortSeesPrepareDone, CleanupStarts, tracked, TypeOK, AttemptInv,
      ManagedInv, Untouched
<1>3. \A b \in Attempts : b # a => Same(b)
  BY <1>1 DEF AbortSeesPrepareDone, CleanupStarts, tracked, TypeOK, Same
<1>4. AttemptInv(a)' /\ ManagedInv(a)' /\ (Holds(a)' => Holds(a))
  BY <1>1
  DEF AbortSeesPrepareDone, CleanupStarts, tracked, TypeOK, AttemptInv,
      ManagedInv, Released, Holds, Installed, OwnsSlot, PrepareDone, Live,
      Closing, Packaging, Terminal, Untouched
<1> QED
  BY <1>2, <1>3, <1>4, ManagedLocalStep

LEMMA AbortSeesExitInv ==
  ASSUME IInv, TypeOK', Orderly, NEW a \in Managed, AbortSeesExit(a)
  PROVE  IInv' /\ SlotStep
<1> USE SlotAssumption DEF Attempts
<1>1. TypeOK /\ AttemptInv(a) /\ ManagedInv(a)
  BY DEF IInv
<1>2. slot' = slot /\ owner[a] # "idle" /\ owner'[a] # "idle"
  BY <1>1
  DEF AbortSeesExit, CleanupStarts, Exited, tracked, TypeOK, AttemptInv,
      ManagedInv, Untouched
<1>3. \A b \in Attempts : b # a => Same(b)
  BY <1>1 DEF AbortSeesExit, CleanupStarts, Exited, tracked, TypeOK, Same
<1>4. AttemptInv(a)' /\ ManagedInv(a)' /\ (Holds(a)' => Holds(a))
  BY <1>1
  DEF AbortSeesExit, CleanupStarts, Exited, tracked, TypeOK, AttemptInv,
      ManagedInv, Released, Holds, Installed, OwnsSlot, PrepareDone, Live,
      Closing, Packaging, Terminal, Untouched
<1> QED
  BY <1>2, <1>3, <1>4, ManagedLocalStep

LEMMA AbortEndsInv ==
  ASSUME IInv, TypeOK', Orderly, NEW a \in Managed, AbortEnds(a)
  PROVE  IInv' /\ SlotStep
<1> USE SlotAssumption DEF Attempts
<1>1. TypeOK /\ AttemptInv(a) /\ ManagedInv(a)
  BY DEF IInv
<1>2. slot' = slot /\ owner[a] # "idle" /\ owner'[a] # "idle"
  BY <1>1 DEF AbortEnds, TypeOK, AttemptInv, ManagedInv, Untouched
<1>3. \A b \in Attempts : b # a => Same(b)
  BY <1>1 DEF AbortEnds, TypeOK, Same
<1>4. AttemptInv(a)' /\ ManagedInv(a)' /\ (Holds(a)' => Holds(a))
  BY <1>1
  DEF AbortEnds, TypeOK, AttemptInv, ManagedInv, Released, Holds, Installed,
      OwnsSlot, PrepareDone, Live, Closing, Packaging, Terminal, Untouched
<1> QED
  BY <1>2, <1>3, <1>4, ManagedLocalStep

LEMMA AbortGivesUpInv ==
  ASSUME IInv, TypeOK', Orderly, NEW a \in Managed, AbortGivesUp(a)
  PROVE  IInv' /\ SlotStep
<1> USE SlotAssumption DEF Attempts
<1>1. TypeOK /\ AttemptInv(a) /\ ManagedInv(a)
  BY DEF IInv
<1>2. slot' = slot /\ owner[a] # "idle" /\ owner'[a] # "idle"
  BY <1>1
  DEF AbortGivesUp, Exited, tracked, TypeOK, AttemptInv, ManagedInv, Untouched
<1>3. \A b \in Attempts : b # a => Same(b)
  BY <1>1 DEF AbortGivesUp, Exited, tracked, TypeOK, Same
<1>4. AttemptInv(a)' /\ ManagedInv(a)' /\ (Holds(a)' => Holds(a))
  BY <1>1
  DEF AbortGivesUp, Exited, tracked, TypeOK, AttemptInv, ManagedInv, Released,
      Holds, Installed, OwnsSlot, PrepareDone, Live, Closing, Packaging,
      Terminal, Untouched
<1> QED
  BY <1>2, <1>3, <1>4, ManagedLocalStep

LEMMA CleanupEndsInv ==
  ASSUME IInv, TypeOK', Orderly, NEW a \in Managed, CleanupEnds(a)
  PROVE  IInv' /\ SlotStep
<1> USE SlotAssumption DEF Attempts
<1>1. TypeOK /\ AttemptInv(a) /\ ManagedInv(a)
  BY DEF IInv
<1>2. slot' = slot /\ owner[a] # "idle" /\ owner'[a] # "idle"
  BY <1>1 DEF CleanupEnds, tracked, TypeOK, AttemptInv, ManagedInv, Untouched
<1>3. \A b \in Attempts : b # a => Same(b)
  BY <1>1 DEF CleanupEnds, tracked, TypeOK, Same
<1>4. AttemptInv(a)' /\ ManagedInv(a)' /\ (Holds(a)' => Holds(a))
  BY <1>1
  DEF CleanupEnds, tracked, TypeOK, AttemptInv, ManagedInv, Released, Holds,
      Installed, OwnsSlot, PrepareDone, Live, Closing, Packaging, Terminal,
      Untouched
<1> QED
  BY <1>2, <1>3, <1>4, ManagedLocalStep

LEMMA CommitBeginsInv ==
  ASSUME IInv, TypeOK', Orderly, NEW a \in Managed, CommitBegins(a)
  PROVE  IInv' /\ SlotStep
<1> USE SlotAssumption DEF Attempts
<1>1. TypeOK /\ AttemptInv(a) /\ ManagedInv(a)
  BY DEF IInv
<1>2. slot' = slot /\ owner[a] # "idle" /\ owner'[a] # "idle"
  BY <1>1
  DEF CommitBegins, Orderly, tracked, TypeOK, AttemptInv, ManagedInv, Untouched
<1>3. \A b \in Attempts : b # a => Same(b)
  BY <1>1 DEF CommitBegins, Orderly, tracked, TypeOK, Same
<1>4. AttemptInv(a)' /\ ManagedInv(a)' /\ (Holds(a)' => Holds(a))
  BY <1>1
  DEF CommitBegins, Orderly, tracked, TypeOK, AttemptInv, ManagedInv, Released,
      Holds, Installed, OwnsSlot, PrepareDone, Live, Closing, Packaging,
      Terminal, Untouched
<1> QED
  BY <1>2, <1>3, <1>4, ManagedLocalStep

LEMMA CommitSucceedsInv ==
  ASSUME IInv, TypeOK', Orderly, NEW a \in Managed, CommitSucceeds(a)
  PROVE  IInv' /\ SlotStep
<1> USE SlotAssumption DEF Attempts
<1>1. TypeOK /\ AttemptInv(a) /\ ManagedInv(a)
  BY DEF IInv
<1>2. slot' = slot /\ owner[a] # "idle" /\ owner'[a] # "idle"
  BY <1>1
  DEF CommitSucceeds, CommitStillValid, TypeOK, AttemptInv, ManagedInv,
      Untouched
<1>3. \A b \in Attempts : b # a => Same(b)
  BY <1>1 DEF CommitSucceeds, CommitStillValid, TypeOK, Same
<1>4. AttemptInv(a)' /\ ManagedInv(a)' /\ (Holds(a)' => Holds(a))
  BY <1>1
  DEF CommitSucceeds, CommitStillValid, TypeOK, AttemptInv, ManagedInv,
      Released, Holds, Installed, OwnsSlot, PrepareDone, Live, Closing,
      Packaging, Terminal, Untouched
<1> QED
  BY <1>2, <1>3, <1>4, ManagedLocalStep

LEMMA CommitFailsInv ==
  ASSUME IInv, TypeOK', Orderly, NEW a \in Managed, CommitFails(a)
  PROVE  IInv' /\ SlotStep
<1> USE SlotAssumption DEF Attempts
<1>1. TypeOK /\ AttemptInv(a) /\ ManagedInv(a)
  BY DEF IInv
<1>2. slot' = slot /\ owner[a] # "idle" /\ owner'[a] # "idle"
  BY <1>1 DEF CommitFails, tracked, TypeOK, AttemptInv, ManagedInv, Untouched
<1>3. \A b \in Attempts : b # a => Same(b)
  BY <1>1 DEF CommitFails, tracked, TypeOK, Same
<1>4. AttemptInv(a)' /\ ManagedInv(a)' /\ (Holds(a)' => Holds(a))
  BY <1>1
  DEF CommitFails, tracked, TypeOK, AttemptInv, ManagedInv, Released, Holds,
      Installed, OwnsSlot, PrepareDone, Live, Closing, Packaging, Terminal,
      Untouched
<1> QED
  BY <1>2, <1>3, <1>4, ManagedLocalStep

LEMMA ExpiryClaimsInv ==
  ASSUME IInv, TypeOK', Orderly, NEW a \in Managed, ExpiryClaims(a)
  PROVE  IInv' /\ SlotStep
<1> USE SlotAssumption DEF Attempts
<1>1. TypeOK /\ AttemptInv(a) /\ ManagedInv(a)
  BY DEF IInv
<1>2. slot' = slot /\ owner[a] # "idle" /\ owner'[a] # "idle"
  BY <1>1 DEF ExpiryClaims, TypeOK, AttemptInv, ManagedInv, Untouched
<1>3. \A b \in Attempts : b # a => Same(b)
  BY <1>1 DEF ExpiryClaims, TypeOK, Same
<1>4. AttemptInv(a)' /\ ManagedInv(a)' /\ (Holds(a)' => Holds(a))
  BY <1>1
  DEF ExpiryClaims, TypeOK, AttemptInv, ManagedInv, Released, Holds, Installed,
      OwnsSlot, PrepareDone, Live, Closing, Packaging, Terminal, Untouched
<1> QED
  BY <1>2, <1>3, <1>4, ManagedLocalStep

LEMMA WaitSeesPreparationExitInv ==
  ASSUME IInv, TypeOK', Orderly, NEW a \in Managed, WaitSeesPreparationExit(a)
  PROVE  IInv' /\ SlotStep
<1> USE SlotAssumption DEF Attempts
<1>1. TypeOK /\ AttemptInv(a) /\ ManagedInv(a)
  BY DEF IInv
<1>2. slot' = slot /\ owner[a] # "idle" /\ owner'[a] # "idle"
  BY <1>1
  DEF WaitSeesPreparationExit, CleanupStarts, TypeOK, AttemptInv, ManagedInv,
      Untouched
<1>3. \A b \in Attempts : b # a => Same(b)
  BY <1>1 DEF WaitSeesPreparationExit, CleanupStarts, TypeOK, Same
<1>4. AttemptInv(a)' /\ ManagedInv(a)' /\ (Holds(a)' => Holds(a))
  BY <1>1
  DEF WaitSeesPreparationExit, CleanupStarts, TypeOK, AttemptInv, ManagedInv,
      Released, Holds, Installed, OwnsSlot, PrepareDone, Live, Closing,
      Packaging, Terminal, Untouched
<1> QED
  BY <1>2, <1>3, <1>4, ManagedLocalStep

LEMMA WaitReleasesPreparationInv ==
  ASSUME IInv, TypeOK', Orderly, NEW a \in Managed, WaitReleasesPreparation(a)
  PROVE  IInv' /\ SlotStep
<1> USE SlotAssumption DEF Attempts
<1>1. TypeOK /\ AttemptInv(a) /\ ManagedInv(a)
  BY DEF IInv
<1>2. slot' = slot /\ owner[a] # "idle" /\ owner'[a] # "idle"
  BY <1>1
  DEF WaitReleasesPreparation, WaitMayRelease, TypeOK, AttemptInv, ManagedInv,
      Untouched
<1>3. \A b \in Attempts : b # a => Same(b)
  BY <1>1 DEF WaitReleasesPreparation, WaitMayRelease, TypeOK, Same
<1>4. AttemptInv(a)' /\ ManagedInv(a)' /\ (Holds(a)' => Holds(a))
  BY <1>1
  DEF WaitReleasesPreparation, WaitMayRelease, TypeOK, AttemptInv, ManagedInv,
      Released, Holds, Installed, OwnsSlot, PrepareDone, Live, Closing,
      Packaging, Terminal, Untouched
<1> QED
  BY <1>2, <1>3, <1>4, ManagedLocalStep

\* What abortPreparation does to its own start.
AbortEffect(a, ph) ==
  \/ /\ Installed(a) /\ Settled(a) /\ phase'[a] = ph
     /\ cleaning'[a] = cleaning[a] /\ abort'[a] = abort[a]
     /\ abortPhase'[a] = abortPhase[a]
  \/ /\ Installed(a) /\ ~Settled(a) /\ abort[a] = "none"
     /\ phase'[a] = ph /\ cleaning'[a] = TRUE /\ abort'[a] = "prepare"
     /\ abortPhase'[a] = ph
  \/ /\ ~Installed(a) \/ (~Settled(a) /\ abort[a] # "none")
     /\ phase'[a] = phase[a] /\ cleaning'[a] = cleaning[a]
     /\ abort'[a] = abort[a] /\ abortPhase'[a] = abortPhase[a]

\* It touches no other start.
AbortTouchesNoOther(a) ==
  /\ \A b \in Attempts : b # a => cleaning'[b] = cleaning[b]
  /\ \A b \in Managed : b # a =>
       /\ phase'[b] = phase[b] /\ abort'[b] = abort[b]
       /\ abortPhase'[b] = abortPhase[b]

LEMMA AbortPreparationEffect ==
  ASSUME TypeOK, NEW a \in Managed, NEW ph \in Terminal, AbortPreparation(a, ph)
  PROVE  AbortEffect(a, ph) /\ AbortTouchesNoOther(a)
<1> USE DEF AbortEffect, AbortTouchesNoOther
<1>1. CASE /\ Installed(a) /\ Settled(a)
           /\ phase' = [phase EXCEPT ![a] = ph]
           /\ UNCHANGED <<cleaning, abort, abortPhase>>
  BY <1>1 DEF TypeOK
<1>2. CASE /\ Installed(a) /\ ~Settled(a) /\ abort[a] = "none"
           /\ abort' = [abort EXCEPT ![a] = "prepare"]
           /\ abortPhase' = [abortPhase EXCEPT ![a] = ph]
           /\ cleaning' = [cleaning EXCEPT ![a] = TRUE]
           /\ phase' = [phase EXCEPT ![a] = ph]
  BY <1>2 DEF TypeOK, Attempts
<1>3. CASE /\ ~Installed(a) \/ (~Settled(a) /\ abort[a] # "none")
           /\ UNCHANGED <<cleaning, abort, abortPhase, phase>>
  BY <1>3
<1> QED
  BY <1>1, <1>2, <1>3 DEF AbortPreparation

LEMMA FailStartPreparationInv ==
  ASSUME IInv, TypeOK', Orderly, NEW a \in Managed, FailStartPreparation(a)
  PROVE  IInv' /\ SlotStep
<1> USE SlotAssumption DEF Attempts
<1>1. TypeOK /\ AttemptInv(a) /\ ManagedInv(a)
  BY DEF IInv
<1>2. PICK ph \in Terminal : AbortPreparation(a, ph)
  BY DEF FailStartPreparation, Terminal
<1>3. AbortEffect(a, ph) /\ AbortTouchesNoOther(a)
  BY <1>1, <1>2, AbortPreparationEffect
<1>4. slot' = slot /\ owner[a] # "idle" /\ owner'[a] # "idle"
  BY <1>1 DEF FailStartPreparation, TypeOK, ManagedInv
<1>5. \A b \in Attempts : b # a => Same(b)
  BY <1>1, <1>3 DEF FailStartPreparation, AbortTouchesNoOther, TypeOK, Same
<1>6. AttemptInv(a)' /\ ManagedInv(a)' /\ (Holds(a)' => Holds(a))
  BY <1>1, <1>3
  DEF FailStartPreparation, AbortEffect, Settled, TypeOK, AttemptInv,
      ManagedInv, Released, Holds, Installed, OwnsSlot, PrepareDone, Live,
      Closing, Packaging, Terminal, Untouched
<1> QED
  BY <1>4, <1>5, <1>6, ManagedLocalStep

LEMMA AbortStartPreparationInv ==
  ASSUME IInv, TypeOK', Orderly, NEW a \in Managed, AbortStartPreparation(a)
  PROVE  IInv' /\ SlotStep
<1> USE SlotAssumption DEF Attempts
<1>1. TypeOK /\ AttemptInv(a) /\ ManagedInv(a)
  BY DEF IInv
<1>2. PICK ph \in Terminal : AbortPreparation(a, ph)
  BY DEF AbortStartPreparation, Terminal
<1>3. AbortEffect(a, ph) /\ AbortTouchesNoOther(a)
  BY <1>1, <1>2, AbortPreparationEffect
<1>4. slot' = slot /\ owner[a] # "idle" /\ owner'[a] # "idle"
  BY <1>1 DEF AbortStartPreparation, TypeOK, ManagedInv
<1>5. \A b \in Attempts : b # a => Same(b)
  BY <1>1, <1>3 DEF AbortStartPreparation, AbortTouchesNoOther, TypeOK, Same
<1>6. AttemptInv(a)' /\ ManagedInv(a)' /\ (Holds(a)' => Holds(a))
  BY <1>1, <1>3
  DEF AbortStartPreparation, Orderly, Committed, AbortEffect, Settled, TypeOK,
      AttemptInv, ManagedInv, Released, Holds, Installed, OwnsSlot, PrepareDone,
      Live, Closing, Packaging, Terminal, Untouched
<1> QED
  BY <1>4, <1>5, <1>6, ManagedLocalStep

LEMMA DeciderAbortsInv ==
  ASSUME IInv, TypeOK', Orderly, NEW a \in Managed, DeciderAborts(a)
  PROVE  IInv' /\ SlotStep
<1> USE SlotAssumption DEF Attempts
<1>1. TypeOK /\ AttemptInv(a) /\ ManagedInv(a)
  BY DEF IInv
<1>2. PICK ph \in Terminal : AbortPreparation(a, ph)
  BY DEF DeciderAborts, Terminal
<1>3. AbortEffect(a, ph) /\ AbortTouchesNoOther(a)
  BY <1>1, <1>2, AbortPreparationEffect
<1>4. slot' = slot /\ owner[a] # "idle" /\ owner'[a] # "idle"
  BY <1>1 DEF DeciderAborts, TypeOK, ManagedInv
<1>5. \A b \in Attempts : b # a => Same(b)
  BY <1>1, <1>3 DEF DeciderAborts, AbortTouchesNoOther, TypeOK, Same
<1>6. AttemptInv(a)' /\ ManagedInv(a)' /\ (Holds(a)' => Holds(a))
  BY <1>1, <1>3
  DEF DeciderAborts, AbortEffect, Settled, TypeOK, AttemptInv, ManagedInv,
      Released, Holds, Installed, OwnsSlot, PrepareDone, Live, Closing,
      Packaging, Terminal, Untouched
<1> QED
  BY <1>4, <1>5, <1>6, ManagedLocalStep

-----------------------------------------------------------------------------
(* Steps of a legacy start, and those that both kinds take.             *)

\* A step of a legacy start that acquires nothing.
LEMMA LegacyLocalStep ==
  ASSUME IInv, TypeOK', SlotNames', NEW a \in Legacy,
         \A b \in Attempts : b # a => Same(b) /\ (Installed(b)' <=> Installed(b)),
         owner[a] # "idle" /\ owner'[a] # "idle",
         AttemptInv(a)', LegacyInv(a)', Holds(a)' => Holds(a)
  PROVE  IInv' /\ SlotStep
<1>1. a \in Attempts /\ a \notin Managed
  BY SlotAssumption DEF Attempts
<1> QED
  BY <1>1, LocalStep DEF Local

LEMMA LegacyStartFailsInv ==
  ASSUME IInv, TypeOK', NEW a \in Legacy, LegacyStartFails(a)
  PROVE  IInv' /\ SlotStep
<1> USE SlotAssumption DEF Attempts
<1>1. TypeOK /\ AttemptInv(a) /\ LegacyInv(a) /\ SlotNames
  BY DEF IInv
<1>2. Installed(a) /\ slot' = [slot EXCEPT ![StreamOf[a]] = NoStart]
  BY <1>1 DEF LegacyStartFails, DropReservation, AttemptInv
<1>3. SlotNames'
  BY <1>1, <1>2 DEF LegacyStartFails, SlotNames, TypeOK
<1>4. \A b \in Attempts : b # a => Same(b) /\ (Installed(b)' <=> Installed(b))
  BY <1>1, <1>2 DEF LegacyStartFails, TypeOK, Same, Installed
<1>5. AttemptInv(a)' /\ LegacyInv(a)' /\ (Holds(a)' => Holds(a))
  BY <1>1, <1>2
  DEF LegacyStartFails, TypeOK, AttemptInv, LegacyInv, Holds, Installed,
      OwnsSlot, Closing, Packaging, Untouched
<1>6. owner[a] # "idle" /\ owner'[a] # "idle"
  BY <1>1 DEF LegacyStartFails, TypeOK
<1> QED
  BY <1>3, <1>4, <1>5, <1>6, LegacyLocalStep

LEMMA LegacyStartKillsInv ==
  ASSUME IInv, TypeOK', NEW a \in Legacy, LegacyStartKills(a)
  PROVE  IInv' /\ SlotStep
<1> USE SlotAssumption DEF Attempts
<1>1. TypeOK /\ AttemptInv(a) /\ LegacyInv(a) /\ SlotNames
  BY DEF IInv
<1>2. Installed(a) /\ slot' = [slot EXCEPT ![StreamOf[a]] = NoStart]
  BY <1>1 DEF LegacyStartKills, DropReservation, AttemptInv
<1>3. SlotNames'
  BY <1>1, <1>2 DEF LegacyStartKills, SlotNames, TypeOK
<1>4. \A b \in Attempts : b # a => Same(b) /\ (Installed(b)' <=> Installed(b))
  BY <1>1, <1>2 DEF LegacyStartKills, TypeOK, Same, Installed
<1>5. AttemptInv(a)' /\ LegacyInv(a)' /\ (Holds(a)' => Holds(a))
  BY <1>1, <1>2
  DEF LegacyStartKills, TypeOK, AttemptInv, LegacyInv, Holds, Installed,
      OwnsSlot, Closing, Packaging, Untouched
<1>6. owner[a] # "idle" /\ owner'[a] # "idle"
  BY <1>1 DEF LegacyStartKills, TypeOK
<1> QED
  BY <1>3, <1>4, <1>5, <1>6, LegacyLocalStep

LEMMA InstallLegacyInv ==
  ASSUME IInv, TypeOK', NEW a \in Legacy, InstallLegacy(a)
  PROVE  IInv' /\ SlotStep
<1> USE SlotAssumption DEF Attempts
<1>1. TypeOK /\ AttemptInv(a) /\ LegacyInv(a) /\ SlotNames
  BY DEF IInv
<1>2. slot' = slot
  BY <1>1 DEF InstallLegacy, AttemptInv, Installed, TypeOK
<1>3. SlotNames'
  BY <1>1, <1>2 DEF InstallLegacy, SlotNames, TypeOK
<1>4. \A b \in Attempts : b # a => Same(b) /\ (Installed(b)' <=> Installed(b))
  BY <1>1, <1>2 DEF InstallLegacy, TypeOK, Same, Installed
<1>5. AttemptInv(a)' /\ LegacyInv(a)' /\ (Holds(a)' => Holds(a))
  BY <1>1, <1>2
  DEF InstallLegacy, TypeOK, AttemptInv, LegacyInv, Holds, Installed, OwnsSlot,
      Closing, Packaging, Untouched
<1>6. owner[a] # "idle" /\ owner'[a] # "idle"
  BY <1>1 DEF InstallLegacy, TypeOK
<1> QED
  BY <1>3, <1>4, <1>5, <1>6, LegacyLocalStep

\* A step that managed and legacy starts both take, and that leaves
\* Manager.processes alone.
LEMMA SharedLocalStep ==
  ASSUME IInv, TypeOK', NEW a \in Attempts,
         slot' = slot, owner[a] # "idle" /\ owner'[a] # "idle",
         \A b \in Attempts : b # a => Same(b),
         AttemptInv(a)', Holds(a)' => Holds(a),
         a \in Managed => ManagedInv(a)', a \in Legacy => LegacyInv(a)'
  PROVE  IInv' /\ SlotStep
<1>1. \A b \in Attempts : Installed(b)' <=> Installed(b)
  BY DEF Installed
<1>2. SlotNames'
  BY DEF IInv, TypeOK, SlotNames, Same
<1> QED
  BY <1>1, <1>2, LocalStep DEF Local

LEMMA SpawnInv ==
  ASSUME IInv, TypeOK', NEW a \in Attempts, Spawn(a)
  PROVE  IInv' /\ SlotStep
<1> USE SlotAssumption DEF Attempts
<1>1. TypeOK /\ AttemptInv(a)
  BY DEF IInv
<1>2. (a \in Managed => ManagedInv(a)) /\ (a \in Legacy => LegacyInv(a))
  BY DEF IInv
<1>3. slot' = slot /\ owner[a] # "idle" /\ owner'[a] # "idle"
  BY <1>1 DEF Spawn, tracked, TypeOK, AttemptInv, Untouched
<1>4. \A b \in Attempts : b # a => Same(b)
  BY <1>1 DEF Spawn, tracked, TypeOK, Same
<1>5. AttemptInv(a)' /\ (Holds(a)' => Holds(a))
  BY <1>1, <1>2
  DEF Spawn, tracked, TypeOK, LegacyInv, AttemptInv, ManagedInv, Released,
      Holds, Installed, OwnsSlot, PrepareDone, Live, Closing, Packaging,
      Terminal, Untouched
<1>6. ASSUME a \in Managed PROVE ManagedInv(a)'
  BY <1>1, <1>2, <1>6
  DEF Spawn, tracked, TypeOK, AttemptInv, ManagedInv, Released, Holds,
      Installed, OwnsSlot, PrepareDone, Live, Closing, Packaging, Terminal,
      Untouched
<1>7. ASSUME a \in Legacy PROVE LegacyInv(a)'
  BY <1>1, <1>2, <1>7
  DEF Spawn, tracked, TypeOK, AttemptInv, LegacyInv, Holds, Installed, OwnsSlot,
      Closing, Packaging, Untouched
<1> QED
  BY <1>3, <1>4, <1>5, <1>6, <1>7, SharedLocalStep

LEMMA ChildDiesInv ==
  ASSUME IInv, TypeOK', NEW a \in Attempts, NEW from \in {"alive", "killed"}, ChildDies(a, from)
  PROVE  IInv' /\ SlotStep
<1> USE SlotAssumption DEF Attempts
<1>1. TypeOK /\ AttemptInv(a)
  BY DEF IInv
<1>2. (a \in Managed => ManagedInv(a)) /\ (a \in Legacy => LegacyInv(a))
  BY DEF IInv
<1>3. slot' = slot /\ owner[a] # "idle" /\ owner'[a] # "idle"
  BY <1>1 DEF ChildDies, tracked, TypeOK, AttemptInv, Untouched
<1>4. \A b \in Attempts : b # a => Same(b)
  BY <1>1 DEF ChildDies, tracked, TypeOK, Same
<1>5. AttemptInv(a)' /\ (Holds(a)' => Holds(a))
  BY <1>1, <1>2
  DEF ChildDies, tracked, TypeOK, LegacyInv, AttemptInv, ManagedInv, Released,
      Holds, Installed, OwnsSlot, PrepareDone, Live, Closing, Packaging,
      Terminal, Untouched
<1>6. ASSUME a \in Managed PROVE ManagedInv(a)'
  BY <1>1, <1>2, <1>6
  DEF ChildDies, tracked, TypeOK, AttemptInv, ManagedInv, Released, Holds,
      Installed, OwnsSlot, PrepareDone, Live, Closing, Packaging, Terminal,
      Untouched
<1>7. ASSUME a \in Legacy PROVE LegacyInv(a)'
  BY <1>1, <1>2, <1>7
  DEF ChildDies, tracked, TypeOK, AttemptInv, LegacyInv, Holds, Installed,
      OwnsSlot, Closing, Packaging, Untouched
<1> QED
  BY <1>3, <1>4, <1>5, <1>6, <1>7, SharedLocalStep

LEMMA WaitSeesRunExitInv ==
  ASSUME IInv, TypeOK', NEW a \in Attempts, NEW f \in BOOLEAN, WaitSeesRunExit(a, f)
  PROVE  IInv' /\ SlotStep
<1> USE SlotAssumption DEF Attempts
<1>1. TypeOK /\ AttemptInv(a)
  BY DEF IInv
<1>2. (a \in Managed => ManagedInv(a)) /\ (a \in Legacy => LegacyInv(a))
  BY DEF IInv
<1>3. slot' = slot /\ owner[a] # "idle" /\ owner'[a] # "idle"
  BY <1>1
  DEF WaitSeesRunExit, StatusAfterExit, CleanupStarts, TypeOK, AttemptInv,
      Untouched
<1>4. \A b \in Attempts : b # a => Same(b)
  BY <1>1 DEF WaitSeesRunExit, StatusAfterExit, CleanupStarts, TypeOK, Same
<1>5. AttemptInv(a)' /\ (Holds(a)' => Holds(a))
  BY <1>1, <1>2
  DEF WaitSeesRunExit, StatusAfterExit, CleanupStarts, TypeOK, LegacyInv,
      AttemptInv, ManagedInv, Released, Holds, Installed, OwnsSlot, PrepareDone,
      Live, Closing, Packaging, Terminal, Untouched
<1>6. ASSUME a \in Managed PROVE ManagedInv(a)'
  BY <1>1, <1>2, <1>6
  DEF WaitSeesRunExit, StatusAfterExit, CleanupStarts, TypeOK, AttemptInv,
      ManagedInv, Released, Holds, Installed, OwnsSlot, PrepareDone, Live,
      Closing, Packaging, Terminal, Untouched
<1>7. ASSUME a \in Legacy PROVE LegacyInv(a)'
  BY <1>1, <1>2, <1>7
  DEF WaitSeesRunExit, StatusAfterExit, CleanupStarts, TypeOK, AttemptInv,
      LegacyInv, Holds, Installed, OwnsSlot, Closing, Packaging, Untouched
<1> QED
  BY <1>3, <1>4, <1>5, <1>6, <1>7, SharedLocalStep

LEMMA WaitClosesInv ==
  ASSUME IInv, TypeOK', NEW a \in Attempts, WaitCloses(a)
  PROVE  IInv' /\ SlotStep
<1> USE SlotAssumption DEF Attempts
<1>1. TypeOK /\ AttemptInv(a)
  BY DEF IInv
<1>2. (a \in Managed => ManagedInv(a)) /\ (a \in Legacy => LegacyInv(a))
  BY DEF IInv
<1>3. slot' = slot /\ owner[a] # "idle" /\ owner'[a] # "idle"
  BY <1>1 DEF WaitCloses, TypeOK, AttemptInv, Untouched
<1>4. \A b \in Attempts : b # a => Same(b)
  BY <1>1 DEF WaitCloses, TypeOK, Same
<1>5. AttemptInv(a)' /\ (Holds(a)' => Holds(a))
  BY <1>1, <1>2
  DEF WaitCloses, TypeOK, LegacyInv, AttemptInv, ManagedInv, Released, Holds,
      Installed, OwnsSlot, PrepareDone, Live, Closing, Packaging, Terminal,
      Untouched
<1>6. ASSUME a \in Managed PROVE ManagedInv(a)'
  BY <1>1, <1>2, <1>6
  DEF WaitCloses, TypeOK, AttemptInv, ManagedInv, Released, Holds, Installed,
      OwnsSlot, PrepareDone, Live, Closing, Packaging, Terminal, Untouched
<1>7. ASSUME a \in Legacy PROVE LegacyInv(a)'
  BY <1>1, <1>2, <1>7
  DEF WaitCloses, TypeOK, AttemptInv, LegacyInv, Holds, Installed, OwnsSlot,
      Closing, Packaging, Untouched
<1> QED
  BY <1>3, <1>4, <1>5, <1>6, <1>7, SharedLocalStep

LEMMA PackageBeginsInv ==
  ASSUME IInv, TypeOK', NEW a \in Attempts, PackageBegins(a)
  PROVE  IInv' /\ SlotStep
<1> USE SlotAssumption DEF Attempts
<1>1. TypeOK /\ AttemptInv(a)
  BY DEF IInv
<1>2. (a \in Managed => ManagedInv(a)) /\ (a \in Legacy => LegacyInv(a))
  BY DEF IInv
<1>own. slot[StreamOf[a]] = a /\ a # NoStart
  BY <1>1 DEF PackageBegins, AttemptInv, Packaging, Installed
<1>3. slot' = slot /\ owner[a] # "idle" /\ owner'[a] # "idle"
  BY <1>1, <1>own
  DEF PackageBegins, PackageWrites, TypeOK, AttemptInv, Untouched
<1>4. \A b \in Attempts : b # a => Same(b)
  BY <1>1, <1>own DEF PackageBegins, PackageWrites, TypeOK, Same
<1>5. AttemptInv(a)' /\ (Holds(a)' => Holds(a))
  BY <1>1, <1>2, <1>own
  DEF PackageBegins, PackageWrites, TypeOK, LegacyInv, AttemptInv, ManagedInv,
      Released, Holds, Installed, OwnsSlot, PrepareDone, Live, Closing,
      Packaging, Terminal, Untouched
<1>6. ASSUME a \in Managed PROVE ManagedInv(a)'
  BY <1>1, <1>2, <1>6, <1>own
  DEF PackageBegins, PackageWrites, TypeOK, AttemptInv, ManagedInv, Released,
      Holds, Installed, OwnsSlot, PrepareDone, Live, Closing, Packaging,
      Terminal, Untouched
<1>7. ASSUME a \in Legacy PROVE LegacyInv(a)'
  BY <1>1, <1>2, <1>7, <1>own
  DEF PackageBegins, PackageWrites, TypeOK, AttemptInv, LegacyInv, Holds,
      Installed, OwnsSlot, Closing, Packaging, Untouched
<1> QED
  BY <1>3, <1>4, <1>5, <1>6, <1>7, SharedLocalStep

LEMMA PackageEndsInv ==
  ASSUME IInv, TypeOK', NEW a \in Attempts, PackageEnds(a)
  PROVE  IInv' /\ SlotStep
<1> USE SlotAssumption DEF Attempts
<1>1. TypeOK /\ AttemptInv(a)
  BY DEF IInv
<1>2. (a \in Managed => ManagedInv(a)) /\ (a \in Legacy => LegacyInv(a))
  BY DEF IInv
<1>own. slot[StreamOf[a]] = a /\ a # NoStart
  BY <1>1 DEF PackageEnds, AttemptInv, Packaging, Installed
<1>3. slot' = slot /\ owner[a] # "idle" /\ owner'[a] # "idle"
  BY <1>1, <1>own DEF PackageEnds, PackageWrites, TypeOK, AttemptInv, Untouched
<1>4. \A b \in Attempts : b # a => Same(b)
  BY <1>1, <1>own DEF PackageEnds, PackageWrites, TypeOK, Same
<1>5. AttemptInv(a)' /\ (Holds(a)' => Holds(a))
  BY <1>1, <1>2, <1>own
  DEF PackageEnds, PackageWrites, TypeOK, LegacyInv, AttemptInv, ManagedInv,
      Released, Holds, Installed, OwnsSlot, PrepareDone, Live, Closing,
      Packaging, Terminal, Untouched
<1>6. ASSUME a \in Managed PROVE ManagedInv(a)'
  BY <1>1, <1>2, <1>6, <1>own
  DEF PackageEnds, PackageWrites, TypeOK, AttemptInv, ManagedInv, Released,
      Holds, Installed, OwnsSlot, PrepareDone, Live, Closing, Packaging,
      Terminal, Untouched
<1>7. ASSUME a \in Legacy PROVE LegacyInv(a)'
  BY <1>1, <1>2, <1>7, <1>own
  DEF PackageEnds, PackageWrites, TypeOK, AttemptInv, LegacyInv, Holds,
      Installed, OwnsSlot, Closing, Packaging, Untouched
<1> QED
  BY <1>3, <1>4, <1>5, <1>6, <1>7, SharedLocalStep

\* Stop finds the attempt in Manager.processes: it is one for that stream.
LEMMA StopInv ==
  ASSUME IInv, TypeOK', NEW s \in Stream, Stop(s)
  PROVE  IInv' /\ SlotStep
<1> USE SlotAssumption DEF Attempts
<1>1. TypeOK /\ SlotNames
  BY DEF IInv
<1>a. PICK a \in Attempts : a = slot[s]
  BY <1>1 DEF Stop, TypeOK
<1>2. StreamOf[a] = s /\ owner[a] # "idle"
  BY <1>1, <1>a DEF Stop, TypeOK, SlotNames
<1>3. AttemptInv(a) /\ (a \in Managed => ManagedInv(a)) /\ (a \in Legacy => LegacyInv(a))
  BY <1>2 DEF IInv
<1>4. /\ status[a] = "running"
      /\ status' = [status EXCEPT ![a] = "stopping"]
      /\ proc' = [proc EXCEPT ![a] = IF @ = "alive" THEN "killed" ELSE @]
      /\ UNCHANGED <<slot, cleaning, phase, owner, wait, abort, abortPhase, decider,
                     cleanup>>
  BY <1>a DEF Stop
<1>5. slot' = slot /\ owner'[a] # "idle"
  BY <1>2, <1>4
<1>6. \A b \in Attempts : b # a => Same(b)
  BY <1>1, <1>2, <1>4 DEF TypeOK, Same
<1>7. AttemptInv(a)' /\ (Holds(a)' => Holds(a))
  BY <1>1, <1>2, <1>3, <1>4
  DEF TypeOK, AttemptInv, LegacyInv, ManagedInv, Released, Holds, Installed,
      OwnsSlot, PrepareDone, Live, Closing, Packaging, Terminal, Untouched
<1>8. ASSUME a \in Managed PROVE ManagedInv(a)'
  BY <1>1, <1>2, <1>3, <1>4, <1>8
  DEF TypeOK, AttemptInv, LegacyInv, ManagedInv, Released, Holds, Installed,
      OwnsSlot, PrepareDone, Live, Closing, Packaging, Terminal, Untouched
<1>9. ASSUME a \in Legacy PROVE LegacyInv(a)'
  BY <1>1, <1>2, <1>3, <1>4, <1>9
  DEF TypeOK, AttemptInv, LegacyInv, ManagedInv, Released, Holds, Installed,
      OwnsSlot, PrepareDone, Live, Closing, Packaging, Terminal, Untouched
<1> QED
  BY <1>2, <1>5, <1>6, <1>7, <1>8, <1>9, SharedLocalStep

-----------------------------------------------------------------------------
(* Reservation: the one step that acquires the slot.                       *)

\* Whoever holds the slot occupies it.
LEMMA HoldsOccupies ==
  ASSUME TypeOK, NEW b \in Attempts, Holds(b)
  PROVE  StreamOf[b] \in Stream /\ Occupied(StreamOf[b])
  BY SlotAssumption DEF TypeOK, Holds, Installed, Occupied, Attempts

\* What the two kinds of reservation have in common: nobody holds the slot of
\* the stream, and nobody the reservation excludes holds any other.
LEMMA ReserveInv ==
  ASSUME IInv, TypeOK', NEW a \in Attempts, Reserve(a),
         ~Occupied(StreamOf[a]),
         \A b \in Attempts : Holds(b) => a \notin Managed /\ b \notin Managed,
         \A b \in Managed : b # a => phase'[b] = phase[b],
         a \in Managed => phase'[a] = "preparing"
  PROVE  IInv' /\ SlotStep
<1> USE SlotAssumption DEF Attempts
<1>1. TypeOK /\ SlotNames /\ AttemptInv(a)
  BY DEF IInv
<1>2. \A b \in Attempts : b # a => Same(b)
  BY <1>1 DEF Reserve, TypeOK, Same
<1>3. SlotNames'
  BY <1>1 DEF Reserve, SlotNames, TypeOK
<1>4. ASSUME NEW b \in Attempts, b # a
      PROVE  /\ AttemptInv(b)'
             /\ b \in Legacy => LegacyInv(b)'
             /\ b \in Managed => ManagedInv(b)'
             /\ Holds(b)' => Holds(b)
  <2>1. /\ AttemptInv(b)
        /\ b \in Legacy => LegacyInv(b)
        /\ b \in Managed => ManagedInv(b)
    BY DEF IInv
  <2>2. CASE Installed(b)' <=> Installed(b)
    BY <1>2, <1>4, <2>1, <2>2, Frame
  <2>3. CASE ~(Installed(b)' <=> Installed(b))
    <3>1. slot[StreamOf[a]] = b /\ StreamOf[b] = StreamOf[a] /\ ~Installed(b)'
      BY <1>1, <1>4, <2>3 DEF Reserve, Installed, TypeOK
    <3>2. ~Holds(b)
      BY <3>1 DEF Occupied, Holds
    <3>3. owner[b] # "idle"
      BY <1>1, <3>1 DEF SlotNames, TypeOK
    <3> QED
      BY <1>2, <1>4, <2>1, <3>1, <3>2, <3>3, FrameLost
  <2> QED
    BY <2>2, <2>3
<1>5. AttemptInv(a)' /\ Holds(a)'
  BY <1>1
  DEF Reserve, TypeOK, AttemptInv, LegacyInv, ManagedInv, Released, Holds,
      Installed, OwnsSlot, PrepareDone, Live, Closing, Packaging, Terminal,
      Untouched
<1>6. ASSUME a \in Legacy PROVE LegacyInv(a)'
  BY <1>1, <1>6
  DEF IInv, Reserve, TypeOK, AttemptInv, LegacyInv, ManagedInv, Released, Holds,
      Installed, OwnsSlot, PrepareDone, Live, Closing, Packaging, Terminal,
      Untouched
<1>7. ASSUME a \in Managed PROVE ManagedInv(a)'
  <2>1. ManagedInv(a)
    BY <1>7 DEF IInv
  <2> QED
    BY <1>1, <1>7, <2>1
    DEF Reserve, TypeOK, AttemptInv, LegacyInv, ManagedInv, Released, Holds,
        Installed, OwnsSlot, PrepareDone, Live, Closing, Packaging, Terminal,
        Untouched
<1>8. Exclusive'
  BY <1>4 DEF IInv, Exclusive
<1>9. SlotStep
  <2>1. \A b \in Attempts : b # a => (Holds(b)' <=> Holds(b)) /\ owner'[b] = owner[b]
    <3> SUFFICES ASSUME NEW b \in Attempts, b # a
                 PROVE  (Holds(b)' <=> Holds(b)) /\ owner'[b] = owner[b]
      OBVIOUS
    <3>1. Holds(b) => Installed(b)'
      BY <1>1 DEF Reserve, Holds, Installed, Occupied, TypeOK
    <3>2. Holds(b) => Holds(b)'
      BY <1>2, <3>1 DEF Holds, OwnsSlot, Same
    <3> QED
      BY <1>2, <1>4, <3>2 DEF Same
  <2>2. \A b \in Attempts : Holds(b) => StreamOf[b] # StreamOf[a]
    BY <1>1, HoldsOccupies
  <2>3. owner[a] = "idle" /\ owner'[a] # "idle"
    BY <1>1 DEF Reserve, TypeOK
  <2> QED
    BY <1>5, <2>1, <2>2, <2>3 DEF SlotStep
<1> QED
  BY <1>3, <1>4, <1>5, <1>6, <1>7, <1>8, <1>9 DEF IInv

LEMMA BeginStartPreparationInv ==
  ASSUME IInv, TypeOK', NEW a \in Managed, BeginStartPreparation(a)
  PROVE  IInv' /\ SlotStep
<1>1. a \in Attempts /\ StreamOf[a] \in Stream /\ TypeOK
  BY SlotAssumption DEF Attempts, IInv
<1>2. \A t \in Stream : ~Occupied(t)
  BY DEF BeginStartPreparation, SlotFreeForManaged
<1>3. \A b \in Attempts : ~Holds(b)
  BY <1>1, <1>2, HoldsOccupies
<1>4. \A b \in Managed : b # a => phase'[b] = phase[b]
  BY <1>1 DEF BeginStartPreparation, TypeOK
<1>5. Reserve(a) /\ phase'[a] = "preparing"
  BY <1>1 DEF BeginStartPreparation, TypeOK
<1> QED
  BY <1>1, <1>2, <1>3, <1>4, <1>5, ReserveInv

LEMMA ReserveLegacyInv ==
  ASSUME IInv, TypeOK', NEW a \in Legacy, ReserveLegacy(a)
  PROVE  IInv' /\ SlotStep
<1>1. a \in Attempts /\ a \notin Managed /\ StreamOf[a] \in Stream /\ TypeOK
  BY SlotAssumption DEF Attempts, IInv
<1>2. ~Occupied(StreamOf[a])
  BY <1>1 DEF ReserveLegacy, SlotFreeForLegacy
<1>3. ASSUME NEW b \in Attempts, Holds(b) PROVE b \notin Managed
  <2>1. StreamOf[b] \in Stream /\ Occupied(StreamOf[b]) /\ slot[StreamOf[b]] = b
    BY <1>1, <1>3, HoldsOccupies DEF Holds, Installed
  <2> QED
    BY <2>1 DEF ReserveLegacy, SlotFreeForLegacy
<1>4. \A b \in Managed : phase'[b] = phase[b]
  BY DEF ReserveLegacy
<1>5. Reserve(a)
  BY DEF ReserveLegacy
<1> QED
  BY <1>1, <1>2, <1>3, <1>4, <1>5, ReserveInv

-----------------------------------------------------------------------------
(* The inductive invariant, and what it implies.                           *)

LEMMA StepInv ==
  Orderly /\ IInv /\ [Next]_vars => IInv' /\ (SlotStep \/ UNCHANGED vars)
<1> SUFFICES ASSUME Orderly, IInv, [Next]_vars
             PROVE  IInv' /\ (SlotStep \/ UNCHANGED vars)
  OBVIOUS
<1>1. TypeOK'
  BY StepTyped DEF IInv
<1>2. ASSUME NEW a \in Managed, ManagedStep(a) PROVE IInv' /\ SlotStep
  BY <1>1, <1>2, BeginStartPreparationInv, PrepareFailsInv, InstallPreparedInv,
     AnswerPrepareInv, FailStartPreparationInv, AbortStartPreparationInv,
     AbortSeesPrepareDoneInv, AbortSeesExitInv, AbortEndsInv, AbortGivesUpInv,
     CleanupEndsInv, CommitBeginsInv, CommitSucceedsInv, CommitFailsInv,
     ExpiryClaimsInv, DeciderAbortsInv, WaitSeesPreparationExitInv,
     WaitReleasesPreparationInv
  DEF ManagedStep
<1>3. ASSUME NEW a \in Legacy, LegacyStep(a) PROVE IInv' /\ SlotStep
  BY <1>1, <1>3, ReserveLegacyInv, LegacyStartFailsInv, LegacyStartKillsInv,
     InstallLegacyInv
  DEF LegacyStep
<1>4. ASSUME NEW a \in Attempts, AnyStep(a) PROVE IInv' /\ SlotStep
  BY <1>1, <1>4, SpawnInv, ChildDiesInv, WaitSeesRunExitInv, WaitClosesInv,
     PackageBeginsInv, PackageEndsInv
  DEF AnyStep, KilledChildDies, ChildEndsByItself
<1>5. ASSUME NEW s \in Stream, Stop(s) PROVE IInv' /\ SlotStep
  BY <1>1, <1>5, StopInv
<1>6. CASE Next
  BY <1>2, <1>3, <1>4, <1>5, <1>6, StepCases
<1>7. CASE UNCHANGED vars
  <2>1. \A b \in Attempts : Same(b) /\ (Installed(b)' <=> Installed(b))
    BY <1>7 DEF vars, Same, Installed
  <2>2. SlotNames'
    BY <1>7 DEF vars, IInv, SlotNames
  <2>3. IInv'
    BY <1>1, <2>1, <2>2, Frame DEF IInv, Exclusive, Attempts
  <2> QED
    BY <1>7, <2>3
<1> QED
  BY <1>6, <1>7

THEOREM Invariance == Orderly => (Spec => []IInv)
<1>1. Orderly /\ Init => IInv
  BY InitInv
<1>2. Orderly /\ IInv /\ [Next]_vars => IInv'
  BY StepInv
<1> SUFFICES ASSUME Orderly PROVE Spec => []IInv
  OBVIOUS
<1>3. Init => IInv
  BY <1>1
<1>4. IInv /\ [Next]_vars => IInv'
  BY <1>2
<1> QED
  BY <1>3, <1>4, PTL DEF Spec

LEMMA InvSlotExclusive == IInv => SlotExclusive
<1> SUFFICES ASSUME IInv, NEW s \in Stream, NEW t \in Stream, s # t,
                    Occupied(s), Occupied(t)
             PROVE  {slot[s], slot[t]} \cap Managed = {}
  BY DEF SlotExclusive
<1>1. /\ slot[s] \in Attempts /\ StreamOf[slot[s]] = s
      /\ slot[t] \in Attempts /\ StreamOf[slot[t]] = t
  BY DEF IInv, TypeOK, SlotNames, Occupied
<1>2. Holds(slot[s]) /\ Holds(slot[t]) /\ slot[s] # slot[t]
  BY <1>1 DEF Holds, Installed, Occupied
<1> QED
  BY <1>1, <1>2 DEF IInv, Exclusive

LEMMA InvLiveChildHoldsSlot == IInv => LiveChildHoldsSlot
<1> SUFFICES ASSUME IInv, NEW a \in Attempts, proc[a] = "alive" \/ wait[a] = "waiting"
             PROVE  Holds(a)
  BY DEF LiveChildHoldsSlot
<1>1. AttemptInv(a) /\ TypeOK
  BY DEF IInv
<1> QED
  BY <1>1 DEF AttemptInv, TypeOK, Holds, OwnsSlot, Closing, Packaging

LEMMA InvReleasedMeansReaped == IInv => ReleasedMeansReaped
  BY DEF IInv, ReleasedMeansReaped, ManagedInv, Released

LEMMA InvPackageTargetsOwnRun == IInv => PackageTargetsOwnRun
  BY DEF IInv, PackageTargetsOwnRun, AttemptInv, Packaging

\* While a managed start holds the slot no attempt for another stream does,
\* for any number of streams and attempts, whether or not aborts time out.
THEOREM Exclusion == Orderly => (Spec => []SlotExclusive)
  BY Invariance, InvSlotExclusive, PTL

\* A child that nobody told to end, or whose exit wait has not seen, is never
\* dispossessed of the slot.
THEOREM LiveChildren == Orderly => (Spec => []LiveChildHoldsSlot)
  BY Invariance, InvLiveChildHoldsSlot, PTL

\* A managed start gives the slot back only with its child reaped and its
\* bridges and feeds closed.
THEOREM ReleaseAfterReap == Orderly => (Spec => []ReleasedMeansReaped)
  BY Invariance, InvReleasedMeansReaped, PTL

\* packageArchive never writes to the object of another attempt.
THEOREM PackagingOwnRun == Orderly => (Spec => []PackageTargetsOwnRun)
  BY Invariance, InvPackageTargetsOwnRun, PTL

-----------------------------------------------------------------------------
(* Steps that an ended start never takes, and the slot as a lease.         *)

\* A start that ended is not brought back to life by any step: only a failed,
\* aborted or expired start follows a failed, aborted or expired one.
LEMMA StepKeepsEnded ==
  ASSUME Orderly, IInv, [Next]_vars, NEW a \in Managed, phase[a] \in Terminal
  PROVE  phase'[a] \in Terminal
<1> USE SlotAssumption DEF Attempts, Terminal
<1>1. TypeOK /\ ManagedInv(a) /\ owner[a] # "idle"
  BY DEF IInv, ManagedInv
<1>2. ASSUME NEW b \in Managed, NEW ph \in Terminal, AbortPreparation(b, ph)
      PROVE  phase'[a] \in Terminal
  <2>1. AbortEffect(b, ph) /\ AbortTouchesNoOther(b)
    BY <1>1, <1>2, AbortPreparationEffect
  <2> QED
    BY <2>1 DEF AbortEffect, AbortTouchesNoOther
<1>3. ASSUME NEW b \in Managed, ManagedStep(b) PROVE phase'[a] \in Terminal
  <2>1. CASE \/ PrepareFails(b) \/ AnswerPrepare(b) \/ AbortSeesPrepareDone(b)
             \/ AbortSeesExit(b) \/ AbortGivesUp(b) \/ CleanupEnds(b)
             \/ CommitFails(b) \/ WaitReleasesPreparation(b)
    BY <2>1
    DEF PrepareFails, AnswerPrepare, AbortSeesPrepareDone, AbortSeesExit,
        AbortGivesUp, CleanupEnds, CommitFails, WaitReleasesPreparation
  <2>2. CASE FailStartPreparation(b) \/ AbortStartPreparation(b) \/ DeciderAborts(b)
    BY <1>2, <2>2 DEF FailStartPreparation, AbortStartPreparation, DeciderAborts
  <2>3. CASE BeginStartPreparation(b)
    BY <1>1, <2>3 DEF BeginStartPreparation, Reserve, TypeOK
  <2>4. CASE InstallPrepared(b)
    BY <1>1, <2>4 DEF InstallPrepared, TypeOK
  <2>5. CASE AbortEnds(b)
    <3>1. b = a => abortPhase[a] \in Terminal
      BY <1>1, <2>5 DEF AbortEnds, ManagedInv
    <3> QED
      BY <1>1, <2>5, <3>1 DEF AbortEnds, TypeOK
  <2>6. CASE CommitBegins(b)
    BY <1>1, <2>6 DEF CommitBegins, TypeOK
  <2>7. CASE CommitSucceeds(b)
    BY <1>1, <2>7 DEF CommitSucceeds, CommitStillValid, TypeOK
  <2>8. CASE ExpiryClaims(b)
    BY <1>1, <2>8 DEF ExpiryClaims, TypeOK
  <2>9. CASE WaitSeesPreparationExit(b)
    BY <1>1, <2>9 DEF WaitSeesPreparationExit, TypeOK
  <2> QED
    BY <1>3, <2>1, <2>2, <2>3, <2>4, <2>5, <2>6, <2>7, <2>8, <2>9
    DEF ManagedStep
<1>4. ASSUME NEW b \in Legacy, LegacyStep(b) PROVE phase'[a] \in Terminal
  BY <1>4
  DEF LegacyStep, ReserveLegacy, LegacyStartFails, LegacyStartKills,
      InstallLegacy
<1>5. ASSUME NEW b \in Attempts, AnyStep(b) PROVE phase'[a] \in Terminal
  <2>1. ASSUME NEW f \in BOOLEAN, WaitSeesRunExit(b, f) PROVE phase'[a] \in Terminal
    BY <1>1, <2>1 DEF WaitSeesRunExit, TypeOK
  <2> QED
    BY <1>5, <2>1
    DEF AnyStep, Spawn, KilledChildDies, ChildEndsByItself, ChildDies,
        WaitCloses, PackageBegins, PackageEnds
<1>6. ASSUME NEW s \in Stream, Stop(s) PROVE phase'[a] \in Terminal
  BY <1>6 DEF Stop
<1>7. CASE UNCHANGED vars
  BY <1>7 DEF vars
<1> QED
  BY <1>3, <1>4, <1>5, <1>6, <1>7, StepCases

\* A commit in flight cannot resurrect a start that was aborted, expired or
\* failed while the commit was looking at the frame graph.
THEOREM EndedStaysEnded == Orderly => (Spec => EndedNeverRuns)
<1> SUFFICES ASSUME Orderly PROVE Spec => EndedNeverRuns
  OBVIOUS
<1>1. IInv /\ [Next]_vars =>
        [\A a \in Managed : phase[a] \in Terminal => phase'[a] \in Terminal]_vars
  BY StepKeepsEnded
<1>2. Spec => []IInv
  BY Invariance
<1> QED
  BY <1>1, <1>2, PTL DEF Spec, EndedNeverRuns

HoldersNow == {a \in Attempts : Holds(a)}
ReleasedNow == {a \in Attempts : owner[a] # "idle" /\ ~Holds(a)}

LEMMA SlotStepIsLeaseStep ==
  ASSUME IInv, SlotStep
  PROVE  [Lease!Next]_(Lease!leaseVars)
<1>1. PICK a \in Attempts :
        /\ \A b \in Attempts : b # a =>
             (Holds(b)' <=> Holds(b)) /\ owner'[b] = owner[b]
        /\ owner'[a] # "idle"
        /\ \/ owner[a] # "idle" /\ (Holds(a)' => Holds(a))
           \/ /\ owner[a] = "idle" /\ Holds(a)'
              /\ \A b \in Attempts : Holds(b) =>
                   a \notin Managed /\ b \notin Managed /\ StreamOf[b] # StreamOf[a]
  BY DEF SlotStep
<1>2. CASE owner[a] = "idle"
  <2>1. ~Holds(a)
    BY <1>2 DEF IInv, AttemptInv, Untouched, Holds
  <2>2. HoldersNow' = HoldersNow \cup {a} /\ ReleasedNow' = ReleasedNow
    BY <1>1, <1>2, <2>1 DEF HoldersNow, ReleasedNow
  <2>3. a \notin HoldersNow \cup ReleasedNow
    BY <1>2, <2>1 DEF HoldersNow, ReleasedNow
  <2>4. Lease!Compatible(a)
    BY <1>1, <1>2 DEF Lease!Compatible
  <2>5. Lease!Acquire(a)
    BY <2>2, <2>3, <2>4 DEF Lease!Acquire, HoldersNow, ReleasedNow
  <2> QED
    BY <2>5 DEF Lease!Next, Lease!LeaseAttempts, Attempts
<1>3. CASE owner[a] # "idle" /\ Holds(a) /\ ~Holds(a)'
  <2>1. /\ HoldersNow' = HoldersNow \ {a} /\ ReleasedNow' = ReleasedNow \cup {a}
        /\ a \in HoldersNow
    BY <1>1, <1>3 DEF HoldersNow, ReleasedNow
  <2>2. Lease!Release(a)
    BY <2>1 DEF Lease!Release, HoldersNow, ReleasedNow
  <2> QED
    BY <2>2 DEF Lease!Next, Lease!LeaseAttempts, Attempts
<1>4. CASE owner[a] # "idle" /\ (Holds(a)' <=> Holds(a))
  <2>1. HoldersNow' = HoldersNow /\ ReleasedNow' = ReleasedNow
    BY <1>1, <1>4 DEF HoldersNow, ReleasedNow
  <2> QED
    BY <2>1 DEF Lease!leaseVars, HoldersNow, ReleasedNow
<1> QED
  BY <1>1, <1>2, <1>3, <1>4

LEMMA InitIsLeaseInit == Init => Lease!Init
  BY SlotAssumption DEF Init, Lease!Init, Holds, Installed, OwnsSlot

\* The process manager implements the lease, for any number of attempts: every
\* step grants the slot to one start that may have it, or takes it back, once.
THEOREM Implementation == Orderly => (Spec => ImplementsLease)
<1> SUFFICES ASSUME Orderly PROVE Spec => Lease!Spec
  BY DEF ImplementsLease
<1>1. UNCHANGED vars => UNCHANGED Lease!leaseVars
  BY DEF vars, Lease!leaseVars, Holds, Installed, OwnsSlot
<1>2. IInv /\ [Next]_vars => [Lease!Next]_(Lease!leaseVars)
  BY <1>1, StepInv, SlotStepIsLeaseStep
<1>3. Spec => []IInv
  BY Invariance
<1> QED
  BY <1>2, <1>3, InitIsLeaseInit, PTL DEF Spec, Lease!Spec
=============================================================================
