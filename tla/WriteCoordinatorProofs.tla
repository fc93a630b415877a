------------------------ MODULE WriteCoordinatorProofs ------------------------
(***************************************************************************)
(* Proofs, for any set of goroutines, any menu of operations and any       *)
(* bounds, that the write gate keeps its types, excludes writers from each *)
(* other and from exclusive operations, and commits a guarded change only  *)
(* on the database its preview read.                                       *)
(***************************************************************************)
EXTENDS WriteCoordinator, TLAPS

\* writers counts the goroutine inside the ordinary permit.
PermitInv ==
    \A p \in Procs : HoldsPermit(p) =>
        /\ writers = 1
        /\ \A q \in Procs : HoldsPermit(q) => q = p

\* The exclusive flag belongs to one goroutine, and once that goroutine is
\* past its drain no ordinary permit is out.
Excludes(p) == HoldsExclusive(p) \/ pc[p] = "drain"
ExclusiveInv ==
    \A p \in Procs : Excludes(p) =>
        /\ exclusive
        /\ HoldsExclusive(p) => writers = 0
        /\ \A q \in Procs : Excludes(q) => q = p

IndInv == TypeOK /\ PermitInv /\ ExclusiveInv

\* The initial state has nobody inside.
LEMMA InitInv == Init => IndInv
<1>1. Init => PermitInv
  BY DEF Init, PermitInv, HoldsPermit, PermitLabels
<1>2. Init => ExclusiveInv
  BY DEF Init, ExclusiveInv, Excludes, HoldsExclusive, ExclusiveLabels
<1>3. ASSUME Init  PROVE GateTypeOK
  <2>1. plan \in [Procs -> [nonce : Nat, revision : Nat, seen : Nat]]
    BY <1>3 DEF Init, NoPlan
  <2>2. /\ writers \in {0, 1} /\ revision \in Nat /\ nonce \in Nat \ {0} /\ epoch \in Nat
        /\ db \in Nat /\ begun \in Nat
    BY <1>3 DEF Init
  <2>3. asleep \subseteq Procs /\ changeMu \in Procs \union {NoProc}
    BY <1>3 DEF Init
  <2>4. exclusive \in BOOLEAN /\ shuttingDown \in BOOLEAN /\ dbOpen \in BOOLEAN
    BY <1>3 DEF Init
  <2> QED  BY <2>1, <2>2, <2>3, <2>4 DEF GateTypeOK
<1>4. Init => ProcTypeOK
  BY DEF Init, ProcTypeOK, Ops, Labels, NoCapture
<1> QED  BY <1>1, <1>2, <1>3, <1>4 DEF IndInv, TypeOK

\* What a goroutine leaves of itself when it returns, or goes on to the next
\* target of its market data pass.
LEMMA ReturnTypes ==
    ASSUME ProcTypeOK, NEW p \in Procs, Return(p) \/ BackToTargets(p)
    PROVE  ProcTypeOK'
<1>1. CASE Return(p)
  BY <1>1 DEF Return, ProcTypeOK, Labels, Ops, NoCapture
<1>2. CASE BackToTargets(p)
  BY <1>2 DEF BackToTargets, Goto, ProcTypeOK, Labels, Ops, GateOps
<1> QED  BY <1>1, <1>2

\* What Capture leaves of the worker.
LEMMA CaptureTypes ==
    ASSUME TypeOK, NEW p \in Procs, Capture(p)
    PROVE  captured' \in [Procs -> [epoch : Nat, begun : Nat]] /\ stored' \subseteq Procs
<1>1. [epoch |-> epoch, begun |-> begun] \in [epoch : Nat, begun : Nat]
  BY DEF TypeOK, GateTypeOK
<1>2. captured \in [Procs -> [epoch : Nat, begun : Nat]] /\ stored \subseteq Procs
  BY DEF TypeOK, ProcTypeOK
<1> QED  BY <1>1, <1>2 DEF Capture

\* Every step keeps the types of the gate; a release finds the counter at one.
LEMMA GateTypeStep ==
    ASSUME TypeOK, PermitInv, [Next]_vars
    PROVE  GateTypeOK'
<1> USE DEF TypeOK, GateTypeOK, PermitInv, HoldsPermit, PermitLabels, gate, procs
<1>1. ASSUME NEW p \in Procs, NEW o \in Menu, Call(p, o)  PROVE GateTypeOK'
  BY <1>1, MenuAssumption DEF Call
<1>2. ASSUME NEW p \in Procs, PermitStep(p)  PROVE GateTypeOK'
  <2>1. CASE AcquireGranted(p)  BY <2>1 DEF AcquireGranted, GateFree, Refuses
  <2>2. CASE AcquireWaits(p)  BY <2>2 DEF AcquireWaits, WritersLeft, Refuses
  <2>3. CASE AcquireRefused(p)  BY <2>3 DEF AcquireRefused, Refuses
  <2>4. CASE ReleasePermit(p)  BY <2>4 DEF ReleasePermit, Broadcast, BumpsRevision
  <2> QED  BY <1>2, <2>1, <2>2, <2>3, <2>4 DEF PermitStep
<1>3. ASSUME NEW p \in Procs, ChangeMuStep(p)  PROVE GateTypeOK'
  <2>1. CASE LockChangeMu(p)  BY <2>1 DEF LockChangeMu
  <2>2. CASE UnlockChangeMu(p)  BY <2>2 DEF UnlockChangeMu
  <2>3. CASE PeekDone(p)  BY <2>3 DEF PeekDone
  <2> QED  BY <1>3, <2>1, <2>2, <2>3 DEF ChangeMuStep
<1>4. ASSUME NEW p \in Procs, BodyStep(p)  PROVE GateTypeOK'
  <2>1. CASE WriteBody(p)  BY <2>1 DEF WriteBody, MayMutate
  <2>2. CASE PreviewRead(p)  BY <2>2 DEF PreviewRead, NoPlan
  <2>3. CASE PreviewToken(p)  BY <2>3 DEF PreviewToken
  <2>4. CASE RecordCheck(p)  BY <2>4 DEF RecordCheck
  <2>5. CASE RecordCommit(p)  BY <2>5 DEF RecordCommit, MayMutate
  <2>6. CASE ReadDone(p)  BY <2>6 DEF ReadDone
  <2>7. CASE NestedWrite(p)  BY <2>7 DEF NestedWrite, MayMutate
  <2>8. CASE NestedLedgerWrite(p)  BY <2>8 DEF NestedLedgerWrite
  <2>9. CASE NestedLedgerBody(p)  BY <2>9 DEF NestedLedgerBody, MayMutate
  <2> QED  BY <1>4, <2>1, <2>2, <2>3, <2>4, <2>5, <2>6, <2>7, <2>8, <2>9 DEF BodyStep
<1>5. ASSUME NEW p \in Procs, MarketStep(p)  PROVE GateTypeOK'
  <2>1. CASE ProviderAnswers(p)  BY <2>1 DEF ProviderAnswers
  <2>2. CASE ProviderFails(p)  BY <2>2 DEF ProviderFails
  <2>3. CASE PersistCheck(p)  BY <2>3 DEF PersistCheck
  <2>4. CASE Persist(p)  BY <2>4 DEF Persist, MayMutate
  <2>5. CASE WorkerDone(p)  BY <2>5 DEF WorkerDone
  <2>6. CASE NextTarget(p)  BY <2>6 DEF NextTarget
  <2>7. CASE RememberPreference(p)  BY <2>7 DEF RememberPreference
  <2>8. CASE RepriceMetals(p)  BY <2>8 DEF RepriceMetals
  <2>9. CASE CancelAll(p)  BY <2>9 DEF CancelAll
  <2>10. CASE CancelWait(p)  BY <2>10 DEF CancelWait
  <2> QED  BY <1>5, <2>1, <2>2, <2>3, <2>4, <2>5, <2>6, <2>7, <2>8, <2>9, <2>10 DEF
    MarketStep
<1>6. ASSUME NEW p \in Procs, ExclusiveStep(p)  PROVE GateTypeOK'
  <2>1. CASE AcquireExclusiveRefused(p)  BY <2>1 DEF AcquireExclusiveRefused, Refuses
  <2>2. CASE AcquireExclusive(p)  BY <2>2 DEF AcquireExclusive, WritersLeft, Refuses
  <2>3. CASE DrainWaits(p)  BY <2>3 DEF DrainWaits, WritersLeft
  <2>4. CASE DrainDone(p)  BY <2>4 DEF DrainDone, WritersLeft
  <2>5. CASE ReleaseExclusive(p)
    <3>1. (/\ revision \in Nat /\ writers \in {0, 1} /\ nonce \in Nat \ {0} /\ epoch \in Nat
          /\ db \in Nat /\ begun \in Nat)'
      BY <2>5 DEF ReleaseExclusive, Broadcast
    <3>2. (/\ asleep \subseteq Procs /\ changeMu \in Procs \union {NoProc}
          /\ plan \in [Procs -> [nonce : Nat, revision : Nat, seen : Nat]])'
      BY <2>5 DEF ReleaseExclusive, Broadcast
    <3>3. (exclusive \in BOOLEAN /\ shuttingDown \in BOOLEAN /\ dbOpen \in BOOLEAN)'
      BY <2>5 DEF ReleaseExclusive, Broadcast
    <3> QED  BY <3>1, <3>2, <3>3
  <2>6. CASE BackupSnapshot(p)  BY <2>6 DEF BackupSnapshot
  <2>7. CASE BackupSnapshotDone(p)  BY <2>7 DEF BackupSnapshotDone
  <2>8. CASE ExclusiveUnlock(p)  BY <2>8 DEF ExclusiveUnlock
  <2>9. CASE RestoreFailsEarly(p)  BY <2>9 DEF RestoreFailsEarly
  <2>10. CASE RestoreQuiesce(p)  BY <2>10 DEF RestoreQuiesce
  <2>11. CASE RestoreKeep(p)  BY <2>11 DEF RestoreKeep
  <2> QED  BY <1>6, <2>1, <2>2, <2>3, <2>4, <2>5, <2>6, <2>7, <2>8, <2>9, <2>10, <2>11 DEF
    ExclusiveStep
<1>7. ASSUME NEW p \in Procs, ShutdownStep(p)  PROVE GateTypeOK'
  <2>1. CASE Quiesce(p)  BY <2>1 DEF Quiesce, WritersLeft
  <2>2. CASE QuiesceDone(p)  BY <2>2 DEF QuiesceDone, WritersLeft
  <2>3. CASE CloseDatabase(p)  BY <2>3 DEF CloseDatabase
  <2> QED  BY <1>7, <2>1, <2>2, <2>3 DEF ShutdownStep
<1>8. CASE Restart
  <2>1. (/\ revision \in Nat /\ writers \in {0, 1} /\ nonce \in Nat \ {0} /\ epoch \in Nat
        /\ db \in Nat /\ begun \in Nat)'
    BY <1>8 DEF Restart, MayMutate
  <2>2. (/\ asleep \subseteq Procs /\ changeMu \in Procs \union {NoProc}
        /\ plan \in [Procs -> [nonce : Nat, revision : Nat, seen : Nat]])'
    BY <1>8 DEF Restart, MayMutate
  <2>3. (exclusive \in BOOLEAN /\ shuttingDown \in BOOLEAN /\ dbOpen \in BOOLEAN)'
    BY <1>8 DEF Restart, MayMutate
  <2> QED  BY <2>1, <2>2, <2>3
<1>9. CASE UNCHANGED vars  BY <1>9 DEF vars, gate, procs
<1> QED  BY <1>1, <1>2, <1>3, <1>4, <1>5, <1>6, <1>7, <1>8, <1>9 DEF Next

\* Every step keeps the types of the goroutines.
LEMMA ProcTypeStep ==
    ASSUME TypeOK, [Next]_vars
    PROVE  ProcTypeOK'
<1> USE DEF TypeOK, ProcTypeOK, Labels, PermitLabels, ExclusiveLabels, Ops, GateOps,
  LedgerOps, ExclusiveOps, Goto, Step, gate, procs
<1>1. ASSUME NEW p \in Procs, NEW o \in Menu, Call(p, o)  PROVE ProcTypeOK'
  <2>1. (captured \in [Procs -> [epoch : Nat, begun : Nat]] /\ stored \subseteq Procs)'
    BY <1>1, CaptureTypes DEF Call
  <2>2. (op \in [Procs -> Ops] /\ pc \in [Procs -> Labels])'
    BY <1>1, MenuAssumption DEF Call, Entry
  <2>3. (marked \subseteq Procs /\ cancelled \subseteq Procs /\ passes \in [Procs -> Nat])'
    BY <1>1 DEF Call
  <2> QED  BY <2>1, <2>2, <2>3
<1>2. ASSUME NEW p \in Procs, PermitStep(p)  PROVE ProcTypeOK'
  <2>1. CASE AcquireGranted(p)  BY <2>1 DEF AcquireGranted, AfterGrant
  <2>2. CASE AcquireWaits(p)  BY <2>2 DEF AcquireWaits
  <2>3. CASE AcquireRefused(p)  BY <2>3, ReturnTypes DEF AcquireRefused
  <2>4. CASE ReleasePermit(p)  BY <2>4, ReturnTypes DEF ReleasePermit
  <2> QED  BY <1>2, <2>1, <2>2, <2>3, <2>4 DEF PermitStep
<1>3. ASSUME NEW p \in Procs, ChangeMuStep(p)  PROVE ProcTypeOK'
  <2>1. CASE LockChangeMu(p)  BY <2>1 DEF LockChangeMu, LockTarget
  <2>2. CASE UnlockChangeMu(p)  BY <2>2 DEF UnlockChangeMu
  <2>3. CASE PeekDone(p)  BY <2>3, ReturnTypes DEF PeekDone
  <2> QED  BY <1>3, <2>1, <2>2, <2>3 DEF ChangeMuStep
<1>4. ASSUME NEW p \in Procs, BodyStep(p)  PROVE ProcTypeOK'
  <2>1. CASE WriteBody(p)  BY <2>1 DEF WriteBody
  <2>2. CASE PreviewRead(p)  BY <2>2 DEF PreviewRead
  <2>3. CASE PreviewToken(p)  BY <2>3 DEF PreviewToken
  <2>4. CASE RecordCheck(p)  BY <2>4 DEF RecordCheck
  <2>5. CASE RecordCommit(p)  BY <2>5 DEF RecordCommit
  <2>6. CASE ReadDone(p)  BY <2>6 DEF ReadDone
  <2>7. CASE NestedWrite(p)  BY <2>7 DEF NestedWrite
  <2>8. CASE NestedLedgerWrite(p)  BY <2>8 DEF NestedLedgerWrite
  <2>9. CASE NestedLedgerBody(p)  BY <2>9 DEF NestedLedgerBody
  <2> QED  BY <1>4, <2>1, <2>2, <2>3, <2>4, <2>5, <2>6, <2>7, <2>8, <2>9 DEF BodyStep
<1>5. ASSUME NEW p \in Procs, MarketStep(p)  PROVE ProcTypeOK'
  <2>1. CASE ProviderAnswers(p)  BY <2>1 DEF ProviderAnswers
  <2>2. CASE ProviderFails(p)  BY <2>2 DEF ProviderFails
  <2>3. CASE PersistCheck(p)  BY <2>3 DEF PersistCheck
  <2>4. CASE Persist(p)  BY <2>4 DEF Persist
  <2>5. CASE WorkerDone(p)  BY <2>5, ReturnTypes DEF WorkerDone
  <2>6. CASE NextTarget(p)
    <3>1. (captured \in [Procs -> [epoch : Nat, begun : Nat]] /\ stored \subseteq Procs)'
      BY <2>6, CaptureTypes DEF NextTarget
    <3>2. (op \in [Procs -> Ops] /\ pc \in [Procs -> Labels])'
      BY <2>6 DEF NextTarget
    <3>3. (marked \subseteq Procs /\ cancelled \subseteq Procs /\ passes \in [Procs -> Nat])'
      BY <2>6 DEF NextTarget
    <3> QED  BY <3>1, <3>2, <3>3
  <2>7. CASE RememberPreference(p)  BY <2>7 DEF RememberPreference
  <2>8. CASE RepriceMetals(p)
    <3>1. (captured \in [Procs -> [epoch : Nat, begun : Nat]] /\ stored \subseteq Procs)'
      BY <2>8, CaptureTypes DEF RepriceMetals
    <3>2. (op \in [Procs -> Ops] /\ pc \in [Procs -> Labels])'
      BY <2>8 DEF RepriceMetals
    <3>3. (marked \subseteq Procs /\ cancelled \subseteq Procs /\ passes \in [Procs -> Nat])'
      BY <2>8 DEF RepriceMetals
    <3> QED  BY <3>1, <3>2, <3>3
  <2>9. CASE CancelAll(p)  BY <2>9 DEF CancelAll, Workers
  <2>10. CASE CancelWait(p)  BY <2>10 DEF CancelWait
  <2> QED  BY <1>5, <2>1, <2>2, <2>3, <2>4, <2>5, <2>6, <2>7, <2>8, <2>9, <2>10 DEF
    MarketStep
<1>6. ASSUME NEW p \in Procs, ExclusiveStep(p)  PROVE ProcTypeOK'
  <2>1. CASE AcquireExclusiveRefused(p)  BY <2>1, ReturnTypes DEF AcquireExclusiveRefused
  <2>2. CASE AcquireExclusive(p)  BY <2>2 DEF AcquireExclusive, AfterDrain
  <2>3. CASE DrainWaits(p)  BY <2>3 DEF DrainWaits
  <2>4. CASE DrainDone(p)  BY <2>4 DEF DrainDone, AfterDrain
  <2>5. CASE ReleaseExclusive(p)  BY <2>5, ReturnTypes DEF ReleaseExclusive
  <2>6. CASE BackupSnapshot(p)  BY <2>6 DEF BackupSnapshot
  <2>7. CASE BackupSnapshotDone(p)  BY <2>7 DEF BackupSnapshotDone
  <2>8. CASE ExclusiveUnlock(p)  BY <2>8 DEF ExclusiveUnlock
  <2>9. CASE RestoreFailsEarly(p)  BY <2>9 DEF RestoreFailsEarly
  <2>10. CASE RestoreQuiesce(p)  BY <2>10 DEF RestoreQuiesce, Workers
  <2>11. CASE RestoreKeep(p)  BY <2>11 DEF RestoreKeep
  <2> QED  BY <1>6, <2>1, <2>2, <2>3, <2>4, <2>5, <2>6, <2>7, <2>8, <2>9, <2>10, <2>11 DEF
    ExclusiveStep
<1>7. ASSUME NEW p \in Procs, ShutdownStep(p)  PROVE ProcTypeOK'
  <2>1. CASE Quiesce(p)  BY <2>1 DEF Quiesce
  <2>2. CASE QuiesceDone(p)  BY <2>2 DEF QuiesceDone
  <2>3. CASE CloseDatabase(p)  BY <2>3 DEF CloseDatabase
  <2> QED  BY <1>7, <2>1, <2>2, <2>3 DEF ShutdownStep
<1>8. CASE Restart  BY <1>8 DEF Restart, MayMutate, NoCapture
<1>9. CASE UNCHANGED vars  BY <1>9 DEF vars, gate, procs
<1> QED  BY <1>1, <1>2, <1>3, <1>4, <1>5, <1>6, <1>7, <1>8, <1>9 DEF Next

\* Every step keeps the ordinary permit with one owner.
LEMMA PermitKept ==
    ASSUME TypeOK, PermitInv, [Next]_vars
    PROVE  PermitInv'
<1> USE DEF TypeOK, GateTypeOK, ProcTypeOK, PermitInv, HoldsPermit, PermitLabels,
  LedgerOps, Goto, Step, gate, procs
<1>1. ASSUME NEW p \in Procs, NEW o \in Menu, Call(p, o)  PROVE PermitInv'
  BY <1>1, MenuAssumption DEF Call, Entry, Capture
<1>2. ASSUME NEW p \in Procs, PermitStep(p)  PROVE PermitInv'
  <2>1. CASE AcquireGranted(p)  BY <2>1 DEF AcquireGranted, AfterGrant, GateFree, Refuses
  <2>2. CASE AcquireWaits(p)  BY <2>2 DEF AcquireWaits, WritersLeft, Refuses
  <2>3. CASE AcquireRefused(p)  BY <2>3 DEF AcquireRefused, Return, BackToTargets, Refuses
  <2>4. CASE ReleasePermit(p)  BY <2>4 DEF ReleasePermit, Return, BackToTargets
  <2> QED  BY <1>2, <2>1, <2>2, <2>3, <2>4 DEF PermitStep
<1>3. ASSUME NEW p \in Procs, ChangeMuStep(p)  PROVE PermitInv'
  <2>1. CASE LockChangeMu(p)  BY <2>1 DEF LockChangeMu, LockTarget
  <2>2. CASE UnlockChangeMu(p)  BY <2>2 DEF UnlockChangeMu
  <2>3. CASE PeekDone(p)  BY <2>3 DEF PeekDone, Return
  <2> QED  BY <1>3, <2>1, <2>2, <2>3 DEF ChangeMuStep
<1>4. ASSUME NEW p \in Procs, BodyStep(p)  PROVE PermitInv'
  <2>1. CASE WriteBody(p)  BY <2>1 DEF WriteBody
  <2>2. CASE PreviewRead(p)  BY <2>2 DEF PreviewRead
  <2>3. CASE PreviewToken(p)  BY <2>3 DEF PreviewToken
  <2>4. CASE RecordCheck(p)  BY <2>4 DEF RecordCheck
  <2>5. CASE RecordCommit(p)  BY <2>5 DEF RecordCommit
  <2>6. CASE ReadDone(p)  BY <2>6 DEF ReadDone
  <2>7. CASE NestedWrite(p)  BY <2>7 DEF NestedWrite
  <2>8. CASE NestedLedgerWrite(p)  BY <2>8 DEF NestedLedgerWrite
  <2>9. CASE NestedLedgerBody(p)  BY <2>9 DEF NestedLedgerBody
  <2> QED  BY <1>4, <2>1, <2>2, <2>3, <2>4, <2>5, <2>6, <2>7, <2>8, <2>9 DEF BodyStep
<1>5. ASSUME NEW p \in Procs, MarketStep(p)  PROVE PermitInv'
  <2>1. CASE ProviderAnswers(p)  BY <2>1 DEF ProviderAnswers
  <2>2. CASE ProviderFails(p)  BY <2>2 DEF ProviderFails
  <2>3. CASE PersistCheck(p)  BY <2>3 DEF PersistCheck
  <2>4. CASE Persist(p)  BY <2>4 DEF Persist
  <2>5. CASE WorkerDone(p)  BY <2>5 DEF WorkerDone, Return
  <2>6. CASE NextTarget(p)  BY <2>6 DEF NextTarget, Capture
  <2>7. CASE RememberPreference(p)  BY <2>7 DEF RememberPreference
  <2>8. CASE RepriceMetals(p)  BY <2>8 DEF RepriceMetals, Capture
  <2>9. CASE CancelAll(p)  BY <2>9 DEF CancelAll
  <2>10. CASE CancelWait(p)  BY <2>10 DEF CancelWait
  <2> QED  BY <1>5, <2>1, <2>2, <2>3, <2>4, <2>5, <2>6, <2>7, <2>8, <2>9, <2>10 DEF
    MarketStep
<1>6. ASSUME NEW p \in Procs, ExclusiveStep(p)  PROVE PermitInv'
  <2>1. CASE AcquireExclusiveRefused(p)  BY <2>1 DEF AcquireExclusiveRefused, Return,
    Refuses
  <2>2. CASE AcquireExclusive(p)  BY <2>2 DEF AcquireExclusive, AfterDrain, WritersLeft,
    Refuses
  <2>3. CASE DrainWaits(p)  BY <2>3 DEF DrainWaits, WritersLeft
  <2>4. CASE DrainDone(p)  BY <2>4 DEF DrainDone, AfterDrain, WritersLeft
  <2>5. CASE ReleaseExclusive(p)  BY <2>5 DEF ReleaseExclusive, Return
  <2>6. CASE BackupSnapshot(p)  BY <2>6 DEF BackupSnapshot
  <2>7. CASE BackupSnapshotDone(p)  BY <2>7 DEF BackupSnapshotDone
  <2>8. CASE ExclusiveUnlock(p)  BY <2>8 DEF ExclusiveUnlock
  <2>9. CASE RestoreFailsEarly(p)  BY <2>9 DEF RestoreFailsEarly
  <2>10. CASE RestoreQuiesce(p)  BY <2>10 DEF RestoreQuiesce
  <2>11. CASE RestoreKeep(p)  BY <2>11 DEF RestoreKeep
  <2> QED  BY <1>6, <2>1, <2>2, <2>3, <2>4, <2>5, <2>6, <2>7, <2>8, <2>9, <2>10, <2>11 DEF
    ExclusiveStep
<1>7. ASSUME NEW p \in Procs, ShutdownStep(p)  PROVE PermitInv'
  <2>1. CASE Quiesce(p)  BY <2>1 DEF Quiesce, WritersLeft
  <2>2. CASE QuiesceDone(p)  BY <2>2 DEF QuiesceDone, WritersLeft
  <2>3. CASE CloseDatabase(p)  BY <2>3 DEF CloseDatabase
  <2> QED  BY <1>7, <2>1, <2>2, <2>3 DEF ShutdownStep
<1>8. CASE Restart  BY <1>8 DEF Restart, MayMutate, NoCapture
<1>9. CASE UNCHANGED vars  BY <1>9 DEF vars, gate, procs
<1> QED  BY <1>1, <1>2, <1>3, <1>4, <1>5, <1>6, <1>7, <1>8, <1>9 DEF Next

\* Every step keeps the exclusive permit with one owner, past every writer.
LEMMA ExclusiveKept ==
    ASSUME TypeOK, PermitInv, ExclusiveInv, [Next]_vars
    PROVE  ExclusiveInv'
<1> USE DEF TypeOK, GateTypeOK, ProcTypeOK, PermitInv, ExclusiveInv, Excludes, HoldsPermit,
  PermitLabels, HoldsExclusive, ExclusiveLabels, Goto, Step, gate, procs
<1>1. ASSUME NEW p \in Procs, NEW o \in Menu, Call(p, o)  PROVE ExclusiveInv'
  BY <1>1, MenuAssumption DEF Call, Entry, Capture
<1>2. ASSUME NEW p \in Procs, PermitStep(p)  PROVE ExclusiveInv'
  <2>1. CASE AcquireGranted(p)  BY <2>1 DEF AcquireGranted, AfterGrant, GateFree, Refuses
  <2>2. CASE AcquireWaits(p)  BY <2>2 DEF AcquireWaits, WritersLeft, Refuses
  <2>3. CASE AcquireRefused(p)  BY <2>3 DEF AcquireRefused, Return, BackToTargets, Refuses
  <2>4. CASE ReleasePermit(p)  BY <2>4 DEF ReleasePermit, Return, BackToTargets
  <2> QED  BY <1>2, <2>1, <2>2, <2>3, <2>4 DEF PermitStep
<1>3. ASSUME NEW p \in Procs, ChangeMuStep(p)  PROVE ExclusiveInv'
  <2>1. CASE LockChangeMu(p)  BY <2>1 DEF LockChangeMu, LockTarget
  <2>2. CASE UnlockChangeMu(p)  BY <2>2 DEF UnlockChangeMu
  <2>3. CASE PeekDone(p)  BY <2>3 DEF PeekDone, Return
  <2> QED  BY <1>3, <2>1, <2>2, <2>3 DEF ChangeMuStep
<1>4. ASSUME NEW p \in Procs, BodyStep(p)  PROVE ExclusiveInv'
  <2>1. CASE WriteBody(p)  BY <2>1 DEF WriteBody
  <2>2. CASE PreviewRead(p)  BY <2>2 DEF PreviewRead
  <2>3. CASE PreviewToken(p)  BY <2>3 DEF PreviewToken
  <2>4. CASE RecordCheck(p)  BY <2>4 DEF RecordCheck
  <2>5. CASE RecordCommit(p)  BY <2>5 DEF RecordCommit
  <2>6. CASE ReadDone(p)  BY <2>6 DEF ReadDone
  <2>7. CASE NestedWrite(p)  BY <2>7 DEF NestedWrite
  <2>8. CASE NestedLedgerWrite(p)  BY <2>8 DEF NestedLedgerWrite
  <2>9. CASE NestedLedgerBody(p)  BY <2>9 DEF NestedLedgerBody
  <2> QED  BY <1>4, <2>1, <2>2, <2>3, <2>4, <2>5, <2>6, <2>7, <2>8, <2>9 DEF BodyStep
<1>5. ASSUME NEW p \in Procs, MarketStep(p)  PROVE ExclusiveInv'
  <2>1. CASE ProviderAnswers(p)  BY <2>1 DEF ProviderAnswers
  <2>2. CASE ProviderFails(p)  BY <2>2 DEF ProviderFails
  <2>3. CASE PersistCheck(p)  BY <2>3 DEF PersistCheck
  <2>4. CASE Persist(p)  BY <2>4 DEF Persist
  <2>5. CASE WorkerDone(p)  BY <2>5 DEF WorkerDone, Return
  <2>6. CASE NextTarget(p)  BY <2>6 DEF NextTarget, Capture
  <2>7. CASE RememberPreference(p)  BY <2>7 DEF RememberPreference
  <2>8. CASE RepriceMetals(p)  BY <2>8 DEF RepriceMetals, Capture
  <2>9. CASE CancelAll(p)  BY <2>9 DEF CancelAll
  <2>10. CASE CancelWait(p)  BY <2>10 DEF CancelWait
  <2> QED  BY <1>5, <2>1, <2>2, <2>3, <2>4, <2>5, <2>6, <2>7, <2>8, <2>9, <2>10 DEF
    MarketStep
<1>6. ASSUME NEW p \in Procs, ExclusiveStep(p)  PROVE ExclusiveInv'
  <2>1. CASE AcquireExclusiveRefused(p)  BY <2>1 DEF AcquireExclusiveRefused, Return,
    Refuses
  <2>2. CASE AcquireExclusive(p)  BY <2>2 DEF AcquireExclusive, AfterDrain, WritersLeft,
    Refuses
  <2>3. CASE DrainWaits(p)  BY <2>3 DEF DrainWaits, WritersLeft
  <2>4. CASE DrainDone(p)  BY <2>4 DEF DrainDone, AfterDrain, WritersLeft
  <2>5. CASE ReleaseExclusive(p)  BY <2>5 DEF ReleaseExclusive, Return
  <2>6. CASE BackupSnapshot(p)  BY <2>6 DEF BackupSnapshot
  <2>7. CASE BackupSnapshotDone(p)  BY <2>7 DEF BackupSnapshotDone
  <2>8. CASE ExclusiveUnlock(p)  BY <2>8 DEF ExclusiveUnlock
  <2>9. CASE RestoreFailsEarly(p)  BY <2>9 DEF RestoreFailsEarly
  <2>10. CASE RestoreQuiesce(p)  BY <2>10 DEF RestoreQuiesce
  <2>11. CASE RestoreKeep(p)  BY <2>11 DEF RestoreKeep
  <2> QED  BY <1>6, <2>1, <2>2, <2>3, <2>4, <2>5, <2>6, <2>7, <2>8, <2>9, <2>10, <2>11 DEF
    ExclusiveStep
<1>7. ASSUME NEW p \in Procs, ShutdownStep(p)  PROVE ExclusiveInv'
  <2>1. CASE Quiesce(p)  BY <2>1 DEF Quiesce, WritersLeft
  <2>2. CASE QuiesceDone(p)  BY <2>2 DEF QuiesceDone, WritersLeft
  <2>3. CASE CloseDatabase(p)  BY <2>3 DEF CloseDatabase
  <2> QED  BY <1>7, <2>1, <2>2, <2>3 DEF ShutdownStep
<1>8. CASE Restart  BY <1>8 DEF Restart, MayMutate, NoCapture
<1>9. CASE UNCHANGED vars  BY <1>9 DEF vars, gate, procs
<1> QED  BY <1>1, <1>2, <1>3, <1>4, <1>5, <1>6, <1>7, <1>8, <1>9 DEF Next

\* The invariant is inductive.
LEMMA StepInv == IndInv /\ [Next]_vars => IndInv'
BY GateTypeStep, ProcTypeStep, PermitKept, ExclusiveKept DEF IndInv, TypeOK

\* The gate keeps its types in every behaviour.
THEOREM TypeCorrect == Spec => []TypeOK
<1>1. IndInv => TypeOK  BY DEF IndInv
<1> QED  BY InitInv, StepInv, <1>1, PTL DEF Spec

\* One goroutine at a time is inside the ordinary permit, and none while an
\* exclusive operation runs: acquireWrite, acquireExclusive and their drain
\* exclude each other for any number of goroutines.
THEOREM Exclusion == Spec => []MutualExclusion
<1>1. IndInv => MutualExclusion
  BY DEF IndInv, TypeOK, GateTypeOK, PermitInv, ExclusiveInv, Excludes, MutualExclusion
<1> QED  BY InitInv, StepInv, <1>1, PTL DEF Spec

-----------------------------------------------------------------------------
(* Preview tokens.                                                         *)

\* Points that only some operations reach.
OpInv ==
    \A p \in Procs :
        /\ pc[p] = "token" => op[p] = "preview"
        /\ pc[p] = "commit" => op[p] = "record"
        /\ pc[p] \in {"nestlock", "nestbody"} => p \in marked
        /\ pc[p] \in {"check", "persist"} => op[p] = "market"

\* No token is from the future, so a bump of the revision or a new nonce
\* makes every token stale.
IssuedInv ==
    \A c \in Procs :
        /\ plan[c].nonce <= nonce
        /\ plan[c].nonce = nonce => plan[c].revision <= revision

\* A token that is current although the database has changed is about to be
\* made stale: the goroutine that wrote still holds the permit and bumps the
\* revision when it releases it.
Leaving(p) == pc[p] \in {"unlock", "release"} /\ BumpsRevision(p)
DirtyInv ==
    \A c \in Procs :
        TokenCurrent(c) /\ plan[c].seen # db => \E p \in Procs : Leaving(p)

\* What a preview read and a commit relies on has not changed.
FreshInv ==
    \A p \in Procs : pc[p] \in {"token", "commit"} => plan[p].seen = db

TokenInv == OpInv /\ IssuedInv /\ DirtyInv /\ FreshInv

\* At the start no client holds a token.
LEMMA InitTokens == Init => TokenInv
<1> USE DEF Init, NoPlan
<1>1. Init => OpInv  BY DEF OpInv
<1>2. Init => IssuedInv  BY DEF IssuedInv
<1>3. Init => DirtyInv  BY DEF DirtyInv, TokenCurrent
<1>4. Init => FreshInv  BY DEF FreshInv
<1> QED  BY <1>1, <1>2, <1>3, <1>4 DEF TokenInv

\* Every step keeps operations on their own paths.
LEMMA OpKept ==
    ASSUME TypeOK, OpInv, [Next]_vars
    PROVE  OpInv'
<1> USE DEF TypeOK, GateTypeOK, ProcTypeOK, OpInv, LedgerOps, Goto, Step, gate, procs
<1>1. ASSUME NEW p \in Procs, NEW o \in Menu, Call(p, o)  PROVE OpInv'
  BY <1>1, MenuAssumption DEF Call, Entry, Capture
<1>2. ASSUME NEW p \in Procs, PermitStep(p)  PROVE OpInv'
  <2>1. CASE AcquireGranted(p)  BY <2>1 DEF AcquireGranted, AfterGrant
  <2>2. CASE AcquireWaits(p)  BY <2>2 DEF AcquireWaits
  <2>3. CASE AcquireRefused(p)  BY <2>3 DEF AcquireRefused, Return, BackToTargets
  <2>4. CASE ReleasePermit(p)  BY <2>4 DEF ReleasePermit, Return, BackToTargets
  <2> QED  BY <1>2, <2>1, <2>2, <2>3, <2>4 DEF PermitStep
<1>3. ASSUME NEW p \in Procs, ChangeMuStep(p)  PROVE OpInv'
  <2>1. CASE LockChangeMu(p)  BY <2>1 DEF LockChangeMu, LockTarget
  <2>2. CASE UnlockChangeMu(p)  BY <2>2 DEF UnlockChangeMu
  <2>3. CASE PeekDone(p)  BY <2>3 DEF PeekDone, Return
  <2> QED  BY <1>3, <2>1, <2>2, <2>3 DEF ChangeMuStep
<1>4. ASSUME NEW p \in Procs, BodyStep(p)  PROVE OpInv'
  <2>1. CASE WriteBody(p)  BY <2>1 DEF WriteBody
  <2>2. CASE PreviewRead(p)  BY <2>2 DEF PreviewRead
  <2>3. CASE PreviewToken(p)  BY <2>3 DEF PreviewToken
  <2>4. CASE RecordCheck(p)  BY <2>4 DEF RecordCheck
  <2>5. CASE RecordCommit(p)  BY <2>5 DEF RecordCommit
  <2>6. CASE ReadDone(p)  BY <2>6 DEF ReadDone
  <2>7. CASE NestedWrite(p)  BY <2>7 DEF NestedWrite
  <2>8. CASE NestedLedgerWrite(p)  BY <2>8 DEF NestedLedgerWrite
  <2>9. CASE NestedLedgerBody(p)  BY <2>9 DEF NestedLedgerBody
  <2> QED  BY <1>4, <2>1, <2>2, <2>3, <2>4, <2>5, <2>6, <2>7, <2>8, <2>9 DEF BodyStep
<1>5. ASSUME NEW p \in Procs, MarketStep(p)  PROVE OpInv'
  <2>1. CASE ProviderAnswers(p)  BY <2>1 DEF ProviderAnswers
  <2>2. CASE ProviderFails(p)  BY <2>2 DEF ProviderFails
  <2>3. CASE PersistCheck(p)  BY <2>3 DEF PersistCheck
  <2>4. CASE Persist(p)  BY <2>4 DEF Persist
  <2>5. CASE WorkerDone(p)  BY <2>5 DEF WorkerDone, Return
  <2>6. CASE NextTarget(p)  BY <2>6 DEF NextTarget, Capture
  <2>7. CASE RememberPreference(p)  BY <2>7 DEF RememberPreference
  <2>8. CASE RepriceMetals(p)  BY <2>8 DEF RepriceMetals, Capture
  <2>9. CASE CancelAll(p)  BY <2>9 DEF CancelAll, Workers
  <2>10. CASE CancelWait(p)  BY <2>10 DEF CancelWait
  <2> QED  BY <1>5, <2>1, <2>2, <2>3, <2>4, <2>5, <2>6, <2>7, <2>8, <2>9, <2>10 DEF
    MarketStep
<1>6. ASSUME NEW p \in Procs, ExclusiveStep(p)  PROVE OpInv'
  <2>1. CASE AcquireExclusiveRefused(p)  BY <2>1 DEF AcquireExclusiveRefused, Return
  <2>2. CASE AcquireExclusive(p)  BY <2>2 DEF AcquireExclusive, AfterDrain
  <2>3. CASE DrainWaits(p)  BY <2>3 DEF DrainWaits
  <2>4. CASE DrainDone(p)  BY <2>4 DEF DrainDone, AfterDrain
  <2>5. CASE ReleaseExclusive(p)  BY <2>5 DEF ReleaseExclusive, Return
  <2>6. CASE BackupSnapshot(p)  BY <2>6 DEF BackupSnapshot
  <2>7. CASE BackupSnapshotDone(p)  BY <2>7 DEF BackupSnapshotDone
  <2>8. CASE ExclusiveUnlock(p)  BY <2>8 DEF ExclusiveUnlock
  <2>9. CASE RestoreFailsEarly(p)  BY <2>9 DEF RestoreFailsEarly
  <2>10. CASE RestoreQuiesce(p)  BY <2>10 DEF RestoreQuiesce, Workers
  <2>11. CASE RestoreKeep(p)  BY <2>11 DEF RestoreKeep
  <2> QED  BY <1>6, <2>1, <2>2, <2>3, <2>4, <2>5, <2>6, <2>7, <2>8, <2>9, <2>10, <2>11 DEF
    ExclusiveStep
<1>7. ASSUME NEW p \in Procs, ShutdownStep(p)  PROVE OpInv'
  <2>1. CASE Quiesce(p)  BY <2>1 DEF Quiesce
  <2>2. CASE QuiesceDone(p)  BY <2>2 DEF QuiesceDone
  <2>3. CASE CloseDatabase(p)  BY <2>3 DEF CloseDatabase
  <2> QED  BY <1>7, <2>1, <2>2, <2>3 DEF ShutdownStep
<1>8. CASE Restart  BY <1>8 DEF Restart, MayMutate, NoCapture
<1>9. CASE UNCHANGED vars  BY <1>9 DEF vars, gate, procs
<1> QED  BY <1>1, <1>2, <1>3, <1>4, <1>5, <1>6, <1>7, <1>8, <1>9 DEF Next

\* Every step issues tokens of the present only.
LEMMA IssuedKept ==
    ASSUME TypeOK, IssuedInv, [Next]_vars
    PROVE  IssuedInv'
<1> USE DEF TypeOK, GateTypeOK, IssuedInv, gate, procs
<1>1. ASSUME NEW p \in Procs, NEW o \in Menu, Call(p, o)  PROVE IssuedInv'
  BY <1>1, MenuAssumption DEF Call
<1>2. ASSUME NEW p \in Procs, PermitStep(p)  PROVE IssuedInv'
  <2>1. CASE AcquireGranted(p)  BY <2>1 DEF AcquireGranted
  <2>2. CASE AcquireWaits(p)  BY <2>2 DEF AcquireWaits
  <2>3. CASE AcquireRefused(p)  BY <2>3 DEF AcquireRefused
  <2>4. CASE ReleasePermit(p)  BY <2>4 DEF ReleasePermit, BumpsRevision
  <2> QED  BY <1>2, <2>1, <2>2, <2>3, <2>4 DEF PermitStep
<1>3. ASSUME NEW p \in Procs, ChangeMuStep(p)  PROVE IssuedInv'
  <2>1. CASE LockChangeMu(p)  BY <2>1 DEF LockChangeMu
  <2>2. CASE UnlockChangeMu(p)  BY <2>2 DEF UnlockChangeMu
  <2>3. CASE PeekDone(p)  BY <2>3 DEF PeekDone
  <2> QED  BY <1>3, <2>1, <2>2, <2>3 DEF ChangeMuStep
<1>4. ASSUME NEW p \in Procs, BodyStep(p)  PROVE IssuedInv'
  <2>1. CASE WriteBody(p)  BY <2>1 DEF WriteBody
  <2>2. CASE PreviewRead(p)  BY <2>2 DEF PreviewRead, NoPlan
  <2>3. CASE PreviewToken(p)  BY <2>3 DEF PreviewToken
  <2>4. CASE RecordCheck(p)  BY <2>4 DEF RecordCheck
  <2>5. CASE RecordCommit(p)  BY <2>5 DEF RecordCommit
  <2>6. CASE ReadDone(p)  BY <2>6 DEF ReadDone
  <2>7. CASE NestedWrite(p)  BY <2>7 DEF NestedWrite
  <2>8. CASE NestedLedgerWrite(p)  BY <2>8 DEF NestedLedgerWrite
  <2>9. CASE NestedLedgerBody(p)  BY <2>9 DEF NestedLedgerBody
  <2> QED  BY <1>4, <2>1, <2>2, <2>3, <2>4, <2>5, <2>6, <2>7, <2>8, <2>9 DEF BodyStep
<1>5. ASSUME NEW p \in Procs, MarketStep(p)  PROVE IssuedInv'
  <2>1. CASE ProviderAnswers(p)  BY <2>1 DEF ProviderAnswers
  <2>2. CASE ProviderFails(p)  BY <2>2 DEF ProviderFails
  <2>3. CASE PersistCheck(p)  BY <2>3 DEF PersistCheck
  <2>4. CASE Persist(p)  BY <2>4 DEF Persist
  <2>5. CASE WorkerDone(p)  BY <2>5 DEF WorkerDone
  <2>6. CASE NextTarget(p)  BY <2>6 DEF NextTarget
  <2>7. CASE RememberPreference(p)  BY <2>7 DEF RememberPreference
  <2>8. CASE RepriceMetals(p)  BY <2>8 DEF RepriceMetals
  <2>9. CASE CancelAll(p)  BY <2>9 DEF CancelAll
  <2>10. CASE CancelWait(p)  BY <2>10 DEF CancelWait
  <2> QED  BY <1>5, <2>1, <2>2, <2>3, <2>4, <2>5, <2>6, <2>7, <2>8, <2>9, <2>10 DEF
    MarketStep
<1>6. ASSUME NEW p \in Procs, ExclusiveStep(p)  PROVE IssuedInv'
  <2>1. CASE AcquireExclusiveRefused(p)  BY <2>1 DEF AcquireExclusiveRefused
  <2>2. CASE AcquireExclusive(p)  BY <2>2 DEF AcquireExclusive
  <2>3. CASE DrainWaits(p)  BY <2>3 DEF DrainWaits
  <2>4. CASE DrainDone(p)  BY <2>4 DEF DrainDone
  <2>5. CASE ReleaseExclusive(p)  BY <2>5 DEF ReleaseExclusive
  <2>6. CASE BackupSnapshot(p)  BY <2>6 DEF BackupSnapshot
  <2>7. CASE BackupSnapshotDone(p)  BY <2>7 DEF BackupSnapshotDone
  <2>8. CASE ExclusiveUnlock(p)  BY <2>8 DEF ExclusiveUnlock
  <2>9. CASE RestoreFailsEarly(p)  BY <2>9 DEF RestoreFailsEarly
  <2>10. CASE RestoreQuiesce(p)  BY <2>10 DEF RestoreQuiesce
  <2>11. CASE RestoreKeep(p)  BY <2>11 DEF RestoreKeep
  <2> QED  BY <1>6, <2>1, <2>2, <2>3, <2>4, <2>5, <2>6, <2>7, <2>8, <2>9, <2>10, <2>11 DEF
    ExclusiveStep
<1>7. ASSUME NEW p \in Procs, ShutdownStep(p)  PROVE IssuedInv'
  <2>1. CASE Quiesce(p)  BY <2>1 DEF Quiesce
  <2>2. CASE QuiesceDone(p)  BY <2>2 DEF QuiesceDone
  <2>3. CASE CloseDatabase(p)  BY <2>3 DEF CloseDatabase
  <2> QED  BY <1>7, <2>1, <2>2, <2>3 DEF ShutdownStep
<1>8. CASE Restart  BY <1>8 DEF Restart, MayMutate, NoCapture
<1>9. CASE UNCHANGED vars  BY <1>9 DEF vars, gate, procs
<1> QED  BY <1>1, <1>2, <1>3, <1>4, <1>5, <1>6, <1>7, <1>8, <1>9 DEF Next

\* Every step that writes leaves its goroutine on the way to a bump.
LEMMA DirtyKept ==
    ASSUME TypeOK, PermitInv, OpInv, IssuedInv, DirtyInv, FreshInv, [Next]_vars
    PROVE  DirtyInv'
<1> USE DEF TypeOK, GateTypeOK, ProcTypeOK, PermitInv, OpInv, IssuedInv, DirtyInv, Leaving,
  FreshInv, BumpsRevision, TokenCurrent, HoldsPermit, PermitLabels, LedgerOps, Goto, Step,
  gate, procs
<1>1. ASSUME NEW p \in Procs, NEW o \in Menu, Call(p, o)  PROVE DirtyInv'
  BY <1>1, MenuAssumption DEF Call, Entry, Capture
<1>2. ASSUME NEW p \in Procs, PermitStep(p)  PROVE DirtyInv'
  <2>1. CASE AcquireGranted(p)  BY <2>1 DEF AcquireGranted, AfterGrant, GateFree, Refuses
  <2>2. CASE AcquireWaits(p)  BY <2>2 DEF AcquireWaits, WritersLeft, Refuses
  <2>3. CASE AcquireRefused(p)  BY <2>3 DEF AcquireRefused, Return, BackToTargets, Refuses
  <2>4. CASE ReleasePermit(p)  BY <2>4 DEF ReleasePermit, Return, BackToTargets
  <2> QED  BY <1>2, <2>1, <2>2, <2>3, <2>4 DEF PermitStep
<1>3. ASSUME NEW p \in Procs, ChangeMuStep(p)  PROVE DirtyInv'
  <2>1. CASE LockChangeMu(p)  BY <2>1 DEF LockChangeMu, LockTarget
  <2>2. CASE UnlockChangeMu(p)  BY <2>2 DEF UnlockChangeMu
  <2>3. CASE PeekDone(p)  BY <2>3 DEF PeekDone, Return
  <2> QED  BY <1>3, <2>1, <2>2, <2>3 DEF ChangeMuStep
<1>4. ASSUME NEW p \in Procs, BodyStep(p)  PROVE DirtyInv'
  <2>1. CASE WriteBody(p)  BY <2>1 DEF WriteBody, MayMutate
  <2>2. CASE PreviewRead(p)  BY <2>2 DEF PreviewRead, NoPlan
  <2>3. CASE PreviewToken(p)  BY <2>3 DEF PreviewToken
  <2>4. CASE RecordCheck(p)  BY <2>4 DEF RecordCheck
  <2>5. CASE RecordCommit(p)  BY <2>5 DEF RecordCommit, MayMutate
  <2>6. CASE ReadDone(p)  BY <2>6 DEF ReadDone
  <2>7. CASE NestedWrite(p)  BY <2>7 DEF NestedWrite, MayMutate
  <2>8. CASE NestedLedgerWrite(p)  BY <2>8 DEF NestedLedgerWrite
  <2>9. CASE NestedLedgerBody(p)  BY <2>9 DEF NestedLedgerBody, MayMutate
  <2> QED  BY <1>4, <2>1, <2>2, <2>3, <2>4, <2>5, <2>6, <2>7, <2>8, <2>9 DEF BodyStep
<1>5. ASSUME NEW p \in Procs, MarketStep(p)  PROVE DirtyInv'
  <2>1. CASE ProviderAnswers(p)  BY <2>1 DEF ProviderAnswers
  <2>2. CASE ProviderFails(p)  BY <2>2 DEF ProviderFails
  <2>3. CASE PersistCheck(p)  BY <2>3 DEF PersistCheck
  <2>4. CASE Persist(p)  BY <2>4 DEF Persist, MayMutate
  <2>5. CASE WorkerDone(p)  BY <2>5 DEF WorkerDone, Return
  <2>6. CASE NextTarget(p)  BY <2>6 DEF NextTarget, Capture
  <2>7. CASE RememberPreference(p)  BY <2>7 DEF RememberPreference
  <2>8. CASE RepriceMetals(p)  BY <2>8 DEF RepriceMetals, Capture
  <2>9. CASE CancelAll(p)  BY <2>9 DEF CancelAll
  <2>10. CASE CancelWait(p)  BY <2>10 DEF CancelWait
  <2> QED  BY <1>5, <2>1, <2>2, <2>3, <2>4, <2>5, <2>6, <2>7, <2>8, <2>9, <2>10 DEF
    MarketStep
<1>6. ASSUME NEW p \in Procs, ExclusiveStep(p)  PROVE DirtyInv'
  <2>1. CASE AcquireExclusiveRefused(p)  BY <2>1 DEF AcquireExclusiveRefused, Return,
    Refuses
  <2>2. CASE AcquireExclusive(p)  BY <2>2 DEF AcquireExclusive, AfterDrain, WritersLeft,
    Refuses
  <2>3. CASE DrainWaits(p)  BY <2>3 DEF DrainWaits, WritersLeft
  <2>4. CASE DrainDone(p)  BY <2>4 DEF DrainDone, AfterDrain, WritersLeft
  <2>5. CASE ReleaseExclusive(p)  BY <2>5 DEF ReleaseExclusive, Return
  <2>6. CASE BackupSnapshot(p)  BY <2>6 DEF BackupSnapshot
  <2>7. CASE BackupSnapshotDone(p)  BY <2>7 DEF BackupSnapshotDone
  <2>8. CASE ExclusiveUnlock(p)  BY <2>8 DEF ExclusiveUnlock
  <2>9. CASE RestoreFailsEarly(p)  BY <2>9 DEF RestoreFailsEarly
  <2>10. CASE RestoreQuiesce(p)  BY <2>10 DEF RestoreQuiesce
  <2>11. CASE RestoreKeep(p)  BY <2>11 DEF RestoreKeep
  <2> QED  BY <1>6, <2>1, <2>2, <2>3, <2>4, <2>5, <2>6, <2>7, <2>8, <2>9, <2>10, <2>11 DEF
    ExclusiveStep
<1>7. ASSUME NEW p \in Procs, ShutdownStep(p)  PROVE DirtyInv'
  <2>1. CASE Quiesce(p)  BY <2>1 DEF Quiesce, WritersLeft
  <2>2. CASE QuiesceDone(p)  BY <2>2 DEF QuiesceDone, WritersLeft
  <2>3. CASE CloseDatabase(p)  BY <2>3 DEF CloseDatabase
  <2> QED  BY <1>7, <2>1, <2>2, <2>3 DEF ShutdownStep
<1>8. CASE Restart  BY <1>8 DEF Restart, MayMutate, NoCapture
<1>9. CASE UNCHANGED vars  BY <1>9 DEF vars, gate, procs
<1> QED  BY <1>1, <1>2, <1>3, <1>4, <1>5, <1>6, <1>7, <1>8, <1>9 DEF Next

\* No step writes between a check of the token and the commit it allows.
LEMMA FreshKept ==
    ASSUME TypeOK, PermitInv, OpInv, DirtyInv, FreshInv, [Next]_vars
    PROVE  FreshInv'
<1> USE DEF TypeOK, GateTypeOK, ProcTypeOK, PermitInv, OpInv, DirtyInv, Leaving, FreshInv,
  TokenCurrent, HoldsPermit, PermitLabels, LedgerOps, Goto, Step, gate, procs
<1>1. ASSUME NEW p \in Procs, NEW o \in Menu, Call(p, o)  PROVE FreshInv'
  BY <1>1, MenuAssumption DEF Call, Entry, Capture
<1>2. ASSUME NEW p \in Procs, PermitStep(p)  PROVE FreshInv'
  <2>1. CASE AcquireGranted(p)  BY <2>1 DEF AcquireGranted, AfterGrant, GateFree, Refuses
  <2>2. CASE AcquireWaits(p)  BY <2>2 DEF AcquireWaits, WritersLeft, Refuses
  <2>3. CASE AcquireRefused(p)  BY <2>3 DEF AcquireRefused, Return, BackToTargets, Refuses
  <2>4. CASE ReleasePermit(p)  BY <2>4 DEF ReleasePermit, Return, BackToTargets
  <2> QED  BY <1>2, <2>1, <2>2, <2>3, <2>4 DEF PermitStep
<1>3. ASSUME NEW p \in Procs, ChangeMuStep(p)  PROVE FreshInv'
  <2>1. CASE LockChangeMu(p)  BY <2>1 DEF LockChangeMu, LockTarget
  <2>2. CASE UnlockChangeMu(p)  BY <2>2 DEF UnlockChangeMu
  <2>3. CASE PeekDone(p)  BY <2>3 DEF PeekDone, Return
  <2> QED  BY <1>3, <2>1, <2>2, <2>3 DEF ChangeMuStep
<1>4. ASSUME NEW p \in Procs, BodyStep(p)  PROVE FreshInv'
  <2>1. CASE WriteBody(p)  BY <2>1 DEF WriteBody, MayMutate
  <2>2. CASE PreviewRead(p)  BY <2>2 DEF PreviewRead, NoPlan
  <2>3. CASE PreviewToken(p)  BY <2>3 DEF PreviewToken
  <2>4. CASE RecordCheck(p)  BY <2>4 DEF RecordCheck
  <2>5. CASE RecordCommit(p)  BY <2>5 DEF RecordCommit, MayMutate
  <2>6. CASE ReadDone(p)  BY <2>6 DEF ReadDone
  <2>7. CASE NestedWrite(p)  BY <2>7 DEF NestedWrite, MayMutate
  <2>8. CASE NestedLedgerWrite(p)  BY <2>8 DEF NestedLedgerWrite
  <2>9. CASE NestedLedgerBody(p)  BY <2>9 DEF NestedLedgerBody, MayMutate
  <2> QED  BY <1>4, <2>1, <2>2, <2>3, <2>4, <2>5, <2>6, <2>7, <2>8, <2>9 DEF BodyStep
<1>5. ASSUME NEW p \in Procs, MarketStep(p)  PROVE FreshInv'
  <2>1. CASE ProviderAnswers(p)  BY <2>1 DEF ProviderAnswers
  <2>2. CASE ProviderFails(p)  BY <2>2 DEF ProviderFails
  <2>3. CASE PersistCheck(p)  BY <2>3 DEF PersistCheck
  <2>4. CASE Persist(p)  BY <2>4 DEF Persist, MayMutate
  <2>5. CASE WorkerDone(p)  BY <2>5 DEF WorkerDone, Return
  <2>6. CASE NextTarget(p)  BY <2>6 DEF NextTarget, Capture
  <2>7. CASE RememberPreference(p)  BY <2>7 DEF RememberPreference
  <2>8. CASE RepriceMetals(p)  BY <2>8 DEF RepriceMetals, Capture
  <2>9. CASE CancelAll(p)  BY <2>9 DEF CancelAll
  <2>10. CASE CancelWait(p)  BY <2>10 DEF CancelWait
  <2> QED  BY <1>5, <2>1, <2>2, <2>3, <2>4, <2>5, <2>6, <2>7, <2>8, <2>9, <2>10 DEF
    MarketStep
<1>6. ASSUME NEW p \in Procs, ExclusiveStep(p)  PROVE FreshInv'
  <2>1. CASE AcquireExclusiveRefused(p)  BY <2>1 DEF AcquireExclusiveRefused, Return,
    Refuses
  <2>2. CASE AcquireExclusive(p)  BY <2>2 DEF AcquireExclusive, AfterDrain, WritersLeft,
    Refuses
  <2>3. CASE DrainWaits(p)  BY <2>3 DEF DrainWaits, WritersLeft
  <2>4. CASE DrainDone(p)  BY <2>4 DEF DrainDone, AfterDrain, WritersLeft
  <2>5. CASE ReleaseExclusive(p)  BY <2>5 DEF ReleaseExclusive, Return
  <2>6. CASE BackupSnapshot(p)  BY <2>6 DEF BackupSnapshot
  <2>7. CASE BackupSnapshotDone(p)  BY <2>7 DEF BackupSnapshotDone
  <2>8. CASE ExclusiveUnlock(p)  BY <2>8 DEF ExclusiveUnlock
  <2>9. CASE RestoreFailsEarly(p)  BY <2>9 DEF RestoreFailsEarly
  <2>10. CASE RestoreQuiesce(p)  BY <2>10 DEF RestoreQuiesce
  <2>11. CASE RestoreKeep(p)  BY <2>11 DEF RestoreKeep
  <2> QED  BY <1>6, <2>1, <2>2, <2>3, <2>4, <2>5, <2>6, <2>7, <2>8, <2>9, <2>10, <2>11 DEF
    ExclusiveStep
<1>7. ASSUME NEW p \in Procs, ShutdownStep(p)  PROVE FreshInv'
  <2>1. CASE Quiesce(p)  BY <2>1 DEF Quiesce, WritersLeft
  <2>2. CASE QuiesceDone(p)  BY <2>2 DEF QuiesceDone, WritersLeft
  <2>3. CASE CloseDatabase(p)  BY <2>3 DEF CloseDatabase
  <2> QED  BY <1>7, <2>1, <2>2, <2>3 DEF ShutdownStep
<1>8. CASE Restart  BY <1>8 DEF Restart, MayMutate, NoCapture
<1>9. CASE UNCHANGED vars  BY <1>9 DEF vars, gate, procs
<1> QED  BY <1>1, <1>2, <1>3, <1>4, <1>5, <1>6, <1>7, <1>8, <1>9 DEF Next

\* The tokens are right in every behaviour.
LEMMA TokensKept == IndInv /\ TokenInv /\ [Next]_vars => TokenInv'
BY OpKept, IssuedKept, DirtyKept, FreshKept DEF IndInv, TokenInv

\* A guarded change commits on the database its preview read: no writer,
\* backup, second submission or restart gets between the two unnoticed.
THEOREM GuardedCommits == Spec => []GuardedCommit
<1>1. TokenInv => GuardedCommit
  BY DEF TokenInv, FreshInv, GuardedCommit
<1> QED  BY InitInv, StepInv, InitTokens, TokensKept, <1>1, PTL DEF Spec

\* While no permit is out, a token that is still current certifies the
\* database as it is.
THEOREM TokensCertify == Spec => []CurrentTokenCertifies
<1>1. IndInv /\ TokenInv => CurrentTokenCertifies
  BY DEF IndInv, PermitInv, HoldsPermit, PermitLabels, TokenInv, DirtyInv, Leaving,
         CurrentTokenCertifies
<1> QED  BY InitInv, StepInv, InitTokens, TokensKept, <1>1, PTL DEF Spec
=============================================================================
