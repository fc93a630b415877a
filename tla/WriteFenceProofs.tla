-------------------------- MODULE WriteFenceProofs --------------------------
(***************************************************************************)
(* Proofs about the fences of the write gate, for any set of goroutines,   *)
(* any menu of operations and any bounds: a late provider result is not    *)
(* stored after exclusive work has begun, the database is closed only when *)
(* no permit is out, and nothing is written once a restore keeps the gate  *)
(* or a shutdown has drained it.                                           *)
(***************************************************************************)
EXTENDS WriteCoordinatorProofs

-----------------------------------------------------------------------------
(* Late provider results.                                                  *)

\* refreshEpoch counts at least the exclusive operations: as many as began
\* since a worker captured it, it has moved on.
CountInv ==
    /\ begun <= epoch
    /\ \A p \in Procs :
          /\ captured[p].begun <= begun
          /\ begun - captured[p].begun <= epoch - captured[p].epoch

\* At the start nothing is captured and nothing has begun.
LEMMA InitCount == Init => CountInv /\ NoLateResult
BY DEF Init, CountInv, NoLateResult, NoCapture

\* Every step that begins exclusive work moves the epoch.
LEMMA CountKept ==
    ASSUME TypeOK, CountInv, [Next]_vars
    PROVE  CountInv'
<1> USE DEF TypeOK, GateTypeOK, ProcTypeOK, CountInv, NoCapture, Step, gate, procs
<1>1. ASSUME NEW p \in Procs, NEW o \in Menu, Call(p, o)  PROVE CountInv'
  BY <1>1, MenuAssumption DEF Call, Entry, Capture
<1>2. ASSUME NEW p \in Procs, PermitStep(p)  PROVE CountInv'
  <2>1. CASE AcquireGranted(p)  BY <2>1 DEF AcquireGranted, AfterGrant, GateFree,
    Refuses
  <2>2. CASE AcquireWaits(p)  BY <2>2 DEF AcquireWaits, WritersLeft, Refuses
  <2>3. CASE AcquireRefused(p)  BY <2>3 DEF AcquireRefused, Return, BackToTargets,
    Refuses
  <2>4. CASE ReleasePermit(p)
    <3>1. captured' \in {captured, [captured EXCEPT ![p] = NoCapture]}
      BY <2>4 DEF ReleasePermit, Return, BackToTargets
    <3>2. epoch' = epoch /\ begun' = begun
      BY <2>4 DEF ReleasePermit
    <3> QED  BY <3>1, <3>2
  <2> QED  BY <1>2, <2>1, <2>2, <2>3, <2>4 DEF PermitStep
<1>3. ASSUME NEW p \in Procs, ChangeMuStep(p)  PROVE CountInv'
  <2>1. CASE LockChangeMu(p)  BY <2>1 DEF LockChangeMu, LockTarget
  <2>2. CASE UnlockChangeMu(p)  BY <2>2 DEF UnlockChangeMu
  <2>3. CASE PeekDone(p)  BY <2>3 DEF PeekDone, Return
  <2> QED  BY <1>3, <2>1, <2>2, <2>3 DEF ChangeMuStep
<1>4. ASSUME NEW p \in Procs, BodyStep(p)  PROVE CountInv'
  <2>1. CASE WriteBody(p)  BY <2>1 DEF WriteBody
  <2>2. CASE PreviewRead(p)  BY <2>2 DEF PreviewRead
  <2>3. CASE PreviewToken(p)  BY <2>3 DEF PreviewToken
  <2>4. CASE RecordCheck(p)  BY <2>4 DEF RecordCheck
  <2>5. CASE RecordCommit(p)  BY <2>5 DEF RecordCommit
  <2>6. CASE ReadDone(p)  BY <2>6 DEF ReadDone
  <2>7. CASE NestedWrite(p)  BY <2>7 DEF NestedWrite
  <2>8. CASE NestedLedgerWrite(p)  BY <2>8 DEF NestedLedgerWrite
  <2>9. CASE NestedLedgerBody(p)  BY <2>9 DEF NestedLedgerBody
  <2> QED  BY <1>4, <2>1, <2>2, <2>3, <2>4, <2>5, <2>6, <2>7, <2>8, <2>9 DEF BodyStep
<1>5. ASSUME NEW p \in Procs, MarketStep(p)  PROVE CountInv'
  <2>1. CASE ProviderAnswers(p)  BY <2>1 DEF ProviderAnswers
  <2>2. CASE ProviderFails(p)  BY <2>2 DEF ProviderFails
  <2>3. CASE PersistCheck(p)  BY <2>3 DEF PersistCheck
  <2>4. CASE Persist(p)  BY <2>4 DEF Persist
  <2>5. CASE WorkerDone(p)  BY <2>5 DEF WorkerDone, Return
  <2>6. CASE NextTarget(p)  BY <2>6 DEF NextTarget, Capture
  <2>7. CASE RememberPreference(p)  BY <2>7 DEF RememberPreference
  <2>8. CASE RepriceMetals(p)  BY <2>8 DEF RepriceMetals, Capture
  <2>9. CASE CancelAll(p)  BY <2>9 DEF CancelAll
  <2>10. CASE CancelWait(p)  BY <2>10 DEF CancelWait
  <2> QED  BY <1>5, <2>1, <2>2, <2>3, <2>4, <2>5, <2>6, <2>7, <2>8, <2>9, <2>10 DEF
    MarketStep
<1>6. ASSUME NEW p \in Procs, ExclusiveStep(p)  PROVE CountInv'
  <2>1. CASE AcquireExclusiveRefused(p)  BY <2>1 DEF AcquireExclusiveRefused, Return
  <2>2. CASE AcquireExclusive(p)  BY <2>2 DEF AcquireExclusive, AfterDrain, WritersLeft,
    Refuses
  <2>3. CASE DrainWaits(p)  BY <2>3 DEF DrainWaits, WritersLeft
  <2>4. CASE DrainDone(p)  BY <2>4 DEF DrainDone, AfterDrain, WritersLeft
  <2>5. CASE ReleaseExclusive(p)  BY <2>5 DEF ReleaseExclusive, Return
  <2>6. CASE BackupSnapshot(p)  BY <2>6 DEF BackupSnapshot
  <2>7. CASE BackupSnapshotDone(p)  BY <2>7 DEF BackupSnapshotDone
  <2>8. CASE ExclusiveUnlock(p)  BY <2>8 DEF ExclusiveUnlock
  <2>9. CASE RestoreFailsEarly(p)  BY <2>9 DEF RestoreFailsEarly
  <2>10. CASE RestoreQuiesce(p)  BY <2>10 DEF RestoreQuiesce
  <2>11. CASE RestoreKeep(p)  BY <2>11 DEF RestoreKeep
  <2> QED  BY <1>6, <2>1, <2>2, <2>3, <2>4, <2>5, <2>6, <2>7, <2>8, <2>9, <2>10, <2>11
    DEF ExclusiveStep
<1>7. ASSUME NEW p \in Procs, ShutdownStep(p)  PROVE CountInv'
  <2>1. CASE Quiesce(p)  BY <2>1 DEF Quiesce, WritersLeft
  <2>2. CASE QuiesceDone(p)  BY <2>2 DEF QuiesceDone, WritersLeft
  <2>3. CASE CloseDatabase(p)  BY <2>3 DEF CloseDatabase
  <2> QED  BY <1>7, <2>1, <2>2, <2>3 DEF ShutdownStep
<1>8. CASE Restart  BY <1>8 DEF Restart, MayMutate, NoCapture
<1>9. CASE UNCHANGED vars  BY <1>9 DEF vars, gate, procs
<1> QED  BY <1>1, <1>2, <1>3, <1>4, <1>5, <1>6, <1>7, <1>8, <1>9 DEF Next

\* A result is stored under a permit taken before the only exclusive operation
\* it may not know of, and that one waits for the permit.
LEMMA LateKept ==
    ASSUME TypeOK, PermitInv, ExclusiveInv, CountInv, NoLateResult, [Next]_vars
    PROVE  NoLateResult'
<1> USE DEF TypeOK, GateTypeOK, ProcTypeOK, PermitInv, ExclusiveInv, CountInv,
  NoLateResult, Draining, Excludes, HoldsPermit, PermitLabels, HoldsExclusive,
  ExclusiveLabels, Goto, Step, gate, procs
<1>1. ASSUME NEW p \in Procs, NEW o \in Menu, Call(p, o)  PROVE NoLateResult'
  BY <1>1, MenuAssumption DEF Call, Entry, Capture
<1>2. ASSUME NEW p \in Procs, PermitStep(p)  PROVE NoLateResult'
  <2>1. CASE AcquireGranted(p)  BY <2>1 DEF AcquireGranted, AfterGrant, GateFree,
    Refuses
  <2>2. CASE AcquireWaits(p)  BY <2>2 DEF AcquireWaits, WritersLeft, Refuses
  <2>3. CASE AcquireRefused(p)  BY <2>3 DEF AcquireRefused, Return, BackToTargets,
    Refuses
  <2>4. CASE ReleasePermit(p)  BY <2>4 DEF ReleasePermit, Return, BackToTargets
  <2> QED  BY <1>2, <2>1, <2>2, <2>3, <2>4 DEF PermitStep
<1>3. ASSUME NEW p \in Procs, ChangeMuStep(p)  PROVE NoLateResult'
  <2>1. CASE LockChangeMu(p)  BY <2>1 DEF LockChangeMu, LockTarget
  <2>2. CASE UnlockChangeMu(p)  BY <2>2 DEF UnlockChangeMu
  <2>3. CASE PeekDone(p)  BY <2>3 DEF PeekDone, Return
  <2> QED  BY <1>3, <2>1, <2>2, <2>3 DEF ChangeMuStep
<1>4. ASSUME NEW p \in Procs, BodyStep(p)  PROVE NoLateResult'
  <2>1. CASE WriteBody(p)  BY <2>1 DEF WriteBody
  <2>2. CASE PreviewRead(p)  BY <2>2 DEF PreviewRead
  <2>3. CASE PreviewToken(p)  BY <2>3 DEF PreviewToken
  <2>4. CASE RecordCheck(p)  BY <2>4 DEF RecordCheck
  <2>5. CASE RecordCommit(p)  BY <2>5 DEF RecordCommit
  <2>6. CASE ReadDone(p)  BY <2>6 DEF ReadDone
  <2>7. CASE NestedWrite(p)  BY <2>7 DEF NestedWrite
  <2>8. CASE NestedLedgerWrite(p)  BY <2>8 DEF NestedLedgerWrite
  <2>9. CASE NestedLedgerBody(p)  BY <2>9 DEF NestedLedgerBody
  <2> QED  BY <1>4, <2>1, <2>2, <2>3, <2>4, <2>5, <2>6, <2>7, <2>8, <2>9 DEF BodyStep
<1>5. ASSUME NEW p \in Procs, MarketStep(p)  PROVE NoLateResult'
  <2>1. CASE ProviderAnswers(p)  BY <2>1 DEF ProviderAnswers
  <2>2. CASE ProviderFails(p)  BY <2>2 DEF ProviderFails
  <2>3. CASE PersistCheck(p)  BY <2>3 DEF PersistCheck, EpochCurrent
  <2>4. CASE Persist(p)  BY <2>4 DEF Persist
  <2>5. CASE WorkerDone(p)  BY <2>5 DEF WorkerDone, Return
  <2>6. CASE NextTarget(p)  BY <2>6 DEF NextTarget, Capture
  <2>7. CASE RememberPreference(p)  BY <2>7 DEF RememberPreference
  <2>8. CASE RepriceMetals(p)  BY <2>8 DEF RepriceMetals, Capture
  <2>9. CASE CancelAll(p)  BY <2>9 DEF CancelAll
  <2>10. CASE CancelWait(p)  BY <2>10 DEF CancelWait
  <2> QED  BY <1>5, <2>1, <2>2, <2>3, <2>4, <2>5, <2>6, <2>7, <2>8, <2>9, <2>10 DEF
    MarketStep
<1>6. ASSUME NEW p \in Procs, ExclusiveStep(p)  PROVE NoLateResult'
  <2>1. CASE AcquireExclusiveRefused(p)  BY <2>1 DEF AcquireExclusiveRefused, Return
  <2>2. CASE AcquireExclusive(p)  BY <2>2 DEF AcquireExclusive, AfterDrain, WritersLeft,
    Refuses
  <2>3. CASE DrainWaits(p)  BY <2>3 DEF DrainWaits, WritersLeft
  <2>4. CASE DrainDone(p)  BY <2>4 DEF DrainDone, AfterDrain, WritersLeft
  <2>5. CASE ReleaseExclusive(p)  BY <2>5 DEF ReleaseExclusive, Return
  <2>6. CASE BackupSnapshot(p)  BY <2>6 DEF BackupSnapshot
  <2>7. CASE BackupSnapshotDone(p)  BY <2>7 DEF BackupSnapshotDone
  <2>8. CASE ExclusiveUnlock(p)  BY <2>8 DEF ExclusiveUnlock
  <2>9. CASE RestoreFailsEarly(p)  BY <2>9 DEF RestoreFailsEarly
  <2>10. CASE RestoreQuiesce(p)  BY <2>10 DEF RestoreQuiesce
  <2>11. CASE RestoreKeep(p)  BY <2>11 DEF RestoreKeep
  <2> QED  BY <1>6, <2>1, <2>2, <2>3, <2>4, <2>5, <2>6, <2>7, <2>8, <2>9, <2>10, <2>11
    DEF ExclusiveStep
<1>7. ASSUME NEW p \in Procs, ShutdownStep(p)  PROVE NoLateResult'
  <2>1. CASE Quiesce(p)  BY <2>1 DEF Quiesce, WritersLeft
  <2>2. CASE QuiesceDone(p)  BY <2>2 DEF QuiesceDone, WritersLeft
  <2>3. CASE CloseDatabase(p)  BY <2>3 DEF CloseDatabase
  <2> QED  BY <1>7, <2>1, <2>2, <2>3 DEF ShutdownStep
<1>8. CASE Restart  BY <1>8 DEF Restart, MayMutate, NoCapture
<1>9. CASE UNCHANGED vars  BY <1>9 DEF vars, gate, procs
<1> QED  BY <1>1, <1>2, <1>3, <1>4, <1>5, <1>6, <1>7, <1>8, <1>9 DEF Next

\* "a late provider result cannot write after exclusive work has begun"
\* (persistRefreshWrite): at the write of a provider result, an exclusive
\* operation that began since the result was requested is still waiting for
\* this very writer.
THEOREM LateResultsDie == Spec => []NoLateResult
<1>1. IndInv /\ CountInv /\ NoLateResult /\ [Next]_vars => CountInv' /\ NoLateResult'
  BY CountKept, LateKept DEF IndInv
<1> QED  BY InitInv, StepInv, InitCount, <1>1, PTL DEF Spec

-----------------------------------------------------------------------------
(* Shutdown and a restore that keeps the gate.                             *)

\* Labels of a shutdown belong to a shutdown; once it has set its flag the
\* flag stays, and once it has drained the writers none is left.
ShutInv ==
    \A p \in Procs :
        /\ pc[p] \in {"quiesce", "quiescing", "close", "closed"} => op[p] = "shutdown"
        /\ pc[p] = "quiescing" => shuttingDown
        /\ op[p] = "shutdown" /\ pc[p] \in {"cancelall", "cancelwait", "close", "closed"}
             => shuttingDown /\ writers = 0

\* The session is closed by a restore that keeps the gate or by a shutdown.
ClosedInv == ~dbOpen => \E p \in Procs : pc[p] \in {"kept", "closed"}

\* At the start nobody shuts down and the session is open.
LEMMA InitFences == Init => ShutInv /\ ClosedInv
BY DEF Init, ShutInv, ClosedInv

\* Every step keeps a shutdown past its drain alone.
LEMMA ShutKept ==
    ASSUME TypeOK, PermitInv, ShutInv, [Next]_vars
    PROVE  ShutInv'
<1> USE DEF TypeOK, GateTypeOK, ProcTypeOK, PermitInv, HoldsPermit, PermitLabels,
  ShutInv, LedgerOps, ExclusiveOps, GateOps, Goto, Step, gate, procs
<1>1. ASSUME NEW p \in Procs, NEW o \in Menu, Call(p, o)  PROVE ShutInv'
  BY <1>1, MenuAssumption DEF Call, Entry, Capture
<1>2. ASSUME NEW p \in Procs, PermitStep(p)  PROVE ShutInv'
  <2>1. CASE AcquireGranted(p)  BY <2>1 DEF AcquireGranted, AfterGrant, GateFree,
    Refuses
  <2>2. CASE AcquireWaits(p)  BY <2>2 DEF AcquireWaits, WritersLeft, Refuses
  <2>3. CASE AcquireRefused(p)  BY <2>3 DEF AcquireRefused, Return, BackToTargets,
    Refuses
  <2>4. CASE ReleasePermit(p)  BY <2>4 DEF ReleasePermit, Return, BackToTargets
  <2> QED  BY <1>2, <2>1, <2>2, <2>3, <2>4 DEF PermitStep
<1>3. ASSUME NEW p \in Procs, ChangeMuStep(p)  PROVE ShutInv'
  <2>1. CASE LockChangeMu(p)  BY <2>1 DEF LockChangeMu, LockTarget
  <2>2. CASE UnlockChangeMu(p)  BY <2>2 DEF UnlockChangeMu
  <2>3. CASE PeekDone(p)  BY <2>3 DEF PeekDone, Return
  <2> QED  BY <1>3, <2>1, <2>2, <2>3 DEF ChangeMuStep
<1>4. ASSUME NEW p \in Procs, BodyStep(p)  PROVE ShutInv'
  <2>1. CASE WriteBody(p)  BY <2>1 DEF WriteBody
  <2>2. CASE PreviewRead(p)  BY <2>2 DEF PreviewRead
  <2>3. CASE PreviewToken(p)  BY <2>3 DEF PreviewToken
  <2>4. CASE RecordCheck(p)  BY <2>4 DEF RecordCheck
  <2>5. CASE RecordCommit(p)  BY <2>5 DEF RecordCommit
  <2>6. CASE ReadDone(p)  BY <2>6 DEF ReadDone
  <2>7. CASE NestedWrite(p)  BY <2>7 DEF NestedWrite
  <2>8. CASE NestedLedgerWrite(p)  BY <2>8 DEF NestedLedgerWrite
  <2>9. CASE NestedLedgerBody(p)  BY <2>9 DEF NestedLedgerBody
  <2> QED  BY <1>4, <2>1, <2>2, <2>3, <2>4, <2>5, <2>6, <2>7, <2>8, <2>9 DEF BodyStep
<1>5. ASSUME NEW p \in Procs, MarketStep(p)  PROVE ShutInv'
  <2>1. CASE ProviderAnswers(p)  BY <2>1 DEF ProviderAnswers
  <2>2. CASE ProviderFails(p)  BY <2>2 DEF ProviderFails
  <2>3. CASE PersistCheck(p)  BY <2>3 DEF PersistCheck
  <2>4. CASE Persist(p)  BY <2>4 DEF Persist
  <2>5. CASE WorkerDone(p)  BY <2>5 DEF WorkerDone, Return
  <2>6. CASE NextTarget(p)  BY <2>6 DEF NextTarget, Capture
  <2>7. CASE RememberPreference(p)  BY <2>7 DEF RememberPreference
  <2>8. CASE RepriceMetals(p)  BY <2>8 DEF RepriceMetals, Capture
  <2>9. CASE CancelAll(p)  BY <2>9 DEF CancelAll
  <2>10. CASE CancelWait(p)  BY <2>10 DEF CancelWait
  <2> QED  BY <1>5, <2>1, <2>2, <2>3, <2>4, <2>5, <2>6, <2>7, <2>8, <2>9, <2>10 DEF
    MarketStep
<1>6. ASSUME NEW p \in Procs, ExclusiveStep(p)  PROVE ShutInv'
  <2>1. CASE AcquireExclusiveRefused(p)  BY <2>1 DEF AcquireExclusiveRefused, Return
  <2>2. CASE AcquireExclusive(p)  BY <2>2 DEF AcquireExclusive, AfterDrain, WritersLeft,
    Refuses
  <2>3. CASE DrainWaits(p)  BY <2>3 DEF DrainWaits, WritersLeft
  <2>4. CASE DrainDone(p)  BY <2>4 DEF DrainDone, AfterDrain, WritersLeft
  <2>5. CASE ReleaseExclusive(p)  BY <2>5 DEF ReleaseExclusive, Return
  <2>6. CASE BackupSnapshot(p)  BY <2>6 DEF BackupSnapshot
  <2>7. CASE BackupSnapshotDone(p)  BY <2>7 DEF BackupSnapshotDone
  <2>8. CASE ExclusiveUnlock(p)  BY <2>8 DEF ExclusiveUnlock
  <2>9. CASE RestoreFailsEarly(p)  BY <2>9 DEF RestoreFailsEarly
  <2>10. CASE RestoreQuiesce(p)  BY <2>10 DEF RestoreQuiesce
  <2>11. CASE RestoreKeep(p)  BY <2>11 DEF RestoreKeep
  <2> QED  BY <1>6, <2>1, <2>2, <2>3, <2>4, <2>5, <2>6, <2>7, <2>8, <2>9, <2>10, <2>11
    DEF ExclusiveStep
<1>7. ASSUME NEW p \in Procs, ShutdownStep(p)  PROVE ShutInv'
  <2>1. CASE Quiesce(p)  BY <2>1 DEF Quiesce, WritersLeft
  <2>2. CASE QuiesceDone(p)  BY <2>2 DEF QuiesceDone, WritersLeft
  <2>3. CASE CloseDatabase(p)  BY <2>3 DEF CloseDatabase
  <2> QED  BY <1>7, <2>1, <2>2, <2>3 DEF ShutdownStep
<1>8. CASE Restart  BY <1>8 DEF Restart, MayMutate, NoCapture
<1>9. CASE UNCHANGED vars  BY <1>9 DEF vars, gate, procs
<1> QED  BY <1>1, <1>2, <1>3, <1>4, <1>5, <1>6, <1>7, <1>8, <1>9 DEF Next

\* A goroutine that closed the session stays where it is.
LEMMA ClosedKept ==
    ASSUME TypeOK, ClosedInv, [Next]_vars
    PROVE  ClosedInv'
<1> USE DEF TypeOK, GateTypeOK, ProcTypeOK, ClosedInv, Goto, Step, gate, procs
<1>1. ASSUME NEW p \in Procs, NEW o \in Menu, Call(p, o)  PROVE ClosedInv'
  BY <1>1, MenuAssumption DEF Call, Entry, Capture
<1>2. ASSUME NEW p \in Procs, PermitStep(p)  PROVE ClosedInv'
  <2>1. CASE AcquireGranted(p)  BY <2>1 DEF AcquireGranted, AfterGrant, GateFree,
    Refuses
  <2>2. CASE AcquireWaits(p)  BY <2>2 DEF AcquireWaits, WritersLeft, Refuses
  <2>3. CASE AcquireRefused(p)  BY <2>3 DEF AcquireRefused, Return, BackToTargets,
    Refuses
  <2>4. CASE ReleasePermit(p)  BY <2>4 DEF ReleasePermit, Return, BackToTargets
  <2> QED  BY <1>2, <2>1, <2>2, <2>3, <2>4 DEF PermitStep
<1>3. ASSUME NEW p \in Procs, ChangeMuStep(p)  PROVE ClosedInv'
  <2>1. CASE LockChangeMu(p)  BY <2>1 DEF LockChangeMu, LockTarget
  <2>2. CASE UnlockChangeMu(p)  BY <2>2 DEF UnlockChangeMu
  <2>3. CASE PeekDone(p)  BY <2>3 DEF PeekDone, Return
  <2> QED  BY <1>3, <2>1, <2>2, <2>3 DEF ChangeMuStep
<1>4. ASSUME NEW p \in Procs, BodyStep(p)  PROVE ClosedInv'
  <2>1. CASE WriteBody(p)  BY <2>1 DEF WriteBody
  <2>2. CASE PreviewRead(p)  BY <2>2 DEF PreviewRead
  <2>3. CASE PreviewToken(p)  BY <2>3 DEF PreviewToken
  <2>4. CASE RecordCheck(p)  BY <2>4 DEF RecordCheck
  <2>5. CASE RecordCommit(p)  BY <2>5 DEF RecordCommit
  <2>6. CASE ReadDone(p)  BY <2>6 DEF ReadDone
  <2>7. CASE NestedWrite(p)  BY <2>7 DEF NestedWrite
  <2>8. CASE NestedLedgerWrite(p)  BY <2>8 DEF NestedLedgerWrite
  <2>9. CASE NestedLedgerBody(p)  BY <2>9 DEF NestedLedgerBody
  <2> QED  BY <1>4, <2>1, <2>2, <2>3, <2>4, <2>5, <2>6, <2>7, <2>8, <2>9 DEF BodyStep
<1>5. ASSUME NEW p \in Procs, MarketStep(p)  PROVE ClosedInv'
  <2>1. CASE ProviderAnswers(p)  BY <2>1 DEF ProviderAnswers
  <2>2. CASE ProviderFails(p)  BY <2>2 DEF ProviderFails
  <2>3. CASE PersistCheck(p)  BY <2>3 DEF PersistCheck
  <2>4. CASE Persist(p)  BY <2>4 DEF Persist
  <2>5. CASE WorkerDone(p)  BY <2>5 DEF WorkerDone, Return
  <2>6. CASE NextTarget(p)  BY <2>6 DEF NextTarget, Capture
  <2>7. CASE RememberPreference(p)  BY <2>7 DEF RememberPreference
  <2>8. CASE RepriceMetals(p)  BY <2>8 DEF RepriceMetals, Capture
  <2>9. CASE CancelAll(p)  BY <2>9 DEF CancelAll
  <2>10. CASE CancelWait(p)  BY <2>10 DEF CancelWait
  <2> QED  BY <1>5, <2>1, <2>2, <2>3, <2>4, <2>5, <2>6, <2>7, <2>8, <2>9, <2>10 DEF
    MarketStep
<1>6. ASSUME NEW p \in Procs, ExclusiveStep(p)  PROVE ClosedInv'
  <2>1. CASE AcquireExclusiveRefused(p)  BY <2>1 DEF AcquireExclusiveRefused, Return
  <2>2. CASE AcquireExclusive(p)  BY <2>2 DEF AcquireExclusive, AfterDrain, WritersLeft,
    Refuses
  <2>3. CASE DrainWaits(p)  BY <2>3 DEF DrainWaits, WritersLeft
  <2>4. CASE DrainDone(p)  BY <2>4 DEF DrainDone, AfterDrain, WritersLeft
  <2>5. CASE ReleaseExclusive(p)  BY <2>5 DEF ReleaseExclusive, Return
  <2>6. CASE BackupSnapshot(p)  BY <2>6 DEF BackupSnapshot
  <2>7. CASE BackupSnapshotDone(p)  BY <2>7 DEF BackupSnapshotDone
  <2>8. CASE ExclusiveUnlock(p)  BY <2>8 DEF ExclusiveUnlock
  <2>9. CASE RestoreFailsEarly(p)  BY <2>9 DEF RestoreFailsEarly
  <2>10. CASE RestoreQuiesce(p)  BY <2>10 DEF RestoreQuiesce
  <2>11. CASE RestoreKeep(p)  BY <2>11 DEF RestoreKeep
  <2> QED  BY <1>6, <2>1, <2>2, <2>3, <2>4, <2>5, <2>6, <2>7, <2>8, <2>9, <2>10, <2>11
    DEF ExclusiveStep
<1>7. ASSUME NEW p \in Procs, ShutdownStep(p)  PROVE ClosedInv'
  <2>1. CASE Quiesce(p)  BY <2>1 DEF Quiesce, WritersLeft
  <2>2. CASE QuiesceDone(p)  BY <2>2 DEF QuiesceDone, WritersLeft
  <2>3. CASE CloseDatabase(p)  BY <2>3 DEF CloseDatabase
  <2> QED  BY <1>7, <2>1, <2>2, <2>3 DEF ShutdownStep
<1>8. CASE Restart  BY <1>8 DEF Restart, MayMutate, NoCapture
<1>9. CASE UNCHANGED vars  BY <1>9 DEF vars, gate, procs
<1> QED  BY <1>1, <1>2, <1>3, <1>4, <1>5, <1>6, <1>7, <1>8, <1>9 DEF Next

\* Behind the fence no permit is out.
LEMMA FencedIsDrained ==
    ASSUME IndInv, ShutInv, Fenced
    PROVE  \A p \in Procs : ~HoldsPermit(p)
<1>1. writers # 1
  BY DEF Fenced, ShutInv, IndInv, ExclusiveInv, Excludes, HoldsExclusive, ExclusiveLabels
<1>2. \A p \in Procs : HoldsPermit(p) => writers = 1
  BY DEF IndInv, PermitInv
<1> QED  BY <1>1, <1>2 DEF HoldsPermit

\* Database.Close, in shutdown and in ConfirmRestore: when the session is
\* closed no goroutine is inside a write permit, nor will one get in.
THEOREM ClosedWhenDrained == Spec => []ClosedMeansDrained
<1>1. IndInv /\ ShutInv /\ ClosedInv => ClosedMeansDrained
  BY FencedIsDrained DEF ClosedInv, Fenced, ClosedMeansDrained
<1>2. IndInv /\ ShutInv /\ ClosedInv /\ [Next]_vars => ShutInv' /\ ClosedInv'
  BY ShutKept, ClosedKept DEF IndInv
<1> QED  BY InitInv, StepInv, InitFences, <1>1, <1>2, PTL DEF Spec

\* Without a permit only a new process can find another database.
LEMMA FenceHolds ==
    ASSUME TypeOK, \A p \in Procs : ~HoldsPermit(p), [Next]_vars
    PROVE  nonce' = nonce => db' = db
<1> USE DEF TypeOK, GateTypeOK, ProcTypeOK, HoldsPermit, PermitLabels, gate, procs
<1>1. ASSUME NEW p \in Procs, NEW o \in Menu, Call(p, o)  PROVE nonce' = nonce => db' = db
  BY <1>1, MenuAssumption DEF Call, Entry, Capture
<1>2. ASSUME NEW p \in Procs, PermitStep(p)  PROVE nonce' = nonce => db' = db
  <2>1. CASE AcquireGranted(p)  BY <2>1 DEF AcquireGranted, AfterGrant, GateFree,
    Refuses
  <2>2. CASE AcquireWaits(p)  BY <2>2 DEF AcquireWaits, WritersLeft, Refuses
  <2>3. CASE AcquireRefused(p)  BY <2>3 DEF AcquireRefused, Return, BackToTargets,
    Refuses
  <2>4. CASE ReleasePermit(p)  BY <2>4 DEF ReleasePermit, Return, BackToTargets
  <2> QED  BY <1>2, <2>1, <2>2, <2>3, <2>4 DEF PermitStep
<1>3. ASSUME NEW p \in Procs, ChangeMuStep(p)  PROVE nonce' = nonce => db' = db
  <2>1. CASE LockChangeMu(p)  BY <2>1 DEF LockChangeMu, LockTarget
  <2>2. CASE UnlockChangeMu(p)  BY <2>2 DEF UnlockChangeMu
  <2>3. CASE PeekDone(p)  BY <2>3 DEF PeekDone, Return
  <2> QED  BY <1>3, <2>1, <2>2, <2>3 DEF ChangeMuStep
<1>4. ASSUME NEW p \in Procs, BodyStep(p)  PROVE nonce' = nonce => db' = db
  <2>1. CASE WriteBody(p)  BY <2>1 DEF WriteBody
  <2>2. CASE PreviewRead(p)  BY <2>2 DEF PreviewRead
  <2>3. CASE PreviewToken(p)  BY <2>3 DEF PreviewToken
  <2>4. CASE RecordCheck(p)  BY <2>4 DEF RecordCheck
  <2>5. CASE RecordCommit(p)  BY <2>5 DEF RecordCommit
  <2>6. CASE ReadDone(p)  BY <2>6 DEF ReadDone
  <2>7. CASE NestedWrite(p)  BY <2>7 DEF NestedWrite
  <2>8. CASE NestedLedgerWrite(p)  BY <2>8 DEF NestedLedgerWrite
  <2>9. CASE NestedLedgerBody(p)  BY <2>9 DEF NestedLedgerBody
  <2> QED  BY <1>4, <2>1, <2>2, <2>3, <2>4, <2>5, <2>6, <2>7, <2>8, <2>9 DEF BodyStep
<1>5. ASSUME NEW p \in Procs, MarketStep(p)  PROVE nonce' = nonce => db' = db
  <2>1. CASE ProviderAnswers(p)  BY <2>1 DEF ProviderAnswers
  <2>2. CASE ProviderFails(p)  BY <2>2 DEF ProviderFails
  <2>3. CASE PersistCheck(p)  BY <2>3 DEF PersistCheck
  <2>4. CASE Persist(p)  BY <2>4 DEF Persist
  <2>5. CASE WorkerDone(p)  BY <2>5 DEF WorkerDone, Return
  <2>6. CASE NextTarget(p)  BY <2>6 DEF NextTarget, Capture
  <2>7. CASE RememberPreference(p)  BY <2>7 DEF RememberPreference
  <2>8. CASE RepriceMetals(p)  BY <2>8 DEF RepriceMetals, Capture
  <2>9. CASE CancelAll(p)  BY <2>9 DEF CancelAll
  <2>10. CASE CancelWait(p)  BY <2>10 DEF CancelWait
  <2> QED  BY <1>5, <2>1, <2>2, <2>3, <2>4, <2>5, <2>6, <2>7, <2>8, <2>9, <2>10 DEF
    MarketStep
<1>6. ASSUME NEW p \in Procs, ExclusiveStep(p)  PROVE nonce' = nonce => db' = db
  <2>1. CASE AcquireExclusiveRefused(p)  BY <2>1 DEF AcquireExclusiveRefused, Return
  <2>2. CASE AcquireExclusive(p)  BY <2>2 DEF AcquireExclusive, AfterDrain, WritersLeft,
    Refuses
  <2>3. CASE DrainWaits(p)  BY <2>3 DEF DrainWaits, WritersLeft
  <2>4. CASE DrainDone(p)  BY <2>4 DEF DrainDone, AfterDrain, WritersLeft
  <2>5. CASE ReleaseExclusive(p)  BY <2>5 DEF ReleaseExclusive, Return
  <2>6. CASE BackupSnapshot(p)  BY <2>6 DEF BackupSnapshot
  <2>7. CASE BackupSnapshotDone(p)  BY <2>7 DEF BackupSnapshotDone
  <2>8. CASE ExclusiveUnlock(p)  BY <2>8 DEF ExclusiveUnlock
  <2>9. CASE RestoreFailsEarly(p)  BY <2>9 DEF RestoreFailsEarly
  <2>10. CASE RestoreQuiesce(p)  BY <2>10 DEF RestoreQuiesce
  <2>11. CASE RestoreKeep(p)  BY <2>11 DEF RestoreKeep
  <2> QED  BY <1>6, <2>1, <2>2, <2>3, <2>4, <2>5, <2>6, <2>7, <2>8, <2>9, <2>10, <2>11
    DEF ExclusiveStep
<1>7. ASSUME NEW p \in Procs, ShutdownStep(p)  PROVE nonce' = nonce => db' = db
  <2>1. CASE Quiesce(p)  BY <2>1 DEF Quiesce, WritersLeft
  <2>2. CASE QuiesceDone(p)  BY <2>2 DEF QuiesceDone, WritersLeft
  <2>3. CASE CloseDatabase(p)  BY <2>3 DEF CloseDatabase
  <2> QED  BY <1>7, <2>1, <2>2, <2>3 DEF ShutdownStep
<1>8. CASE Restart  BY <1>8 DEF Restart, MayMutate, NoCapture
<1>9. CASE UNCHANGED vars  BY <1>9 DEF vars, gate, procs
<1> QED  BY <1>1, <1>2, <1>3, <1>4, <1>5, <1>6, <1>7, <1>8, <1>9 DEF Next

\* Once a restore keeps its permit or a shutdown has drained the writers, no
\* step of this process changes the database.
THEOREM NothingWrittenAfterFence == Spec => NoWriteAfterFence
<1>1. IndInv /\ ShutInv /\ [Next]_vars => [Fenced /\ nonce' = nonce => db' = db]_vars
  BY FencedIsDrained, FenceHolds DEF IndInv
<1>2. IndInv /\ ShutInv /\ [Next]_vars => ShutInv'
  BY ShutKept DEF IndInv
<1> QED  BY InitInv, StepInv, InitFences, <1>1, <1>2, PTL DEF Spec, NoWriteAfterFence
=============================================================================
