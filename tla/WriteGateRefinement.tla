------------------------- MODULE WriteGateRefinement -------------------------
(***************************************************************************)
(* The proof that the write gate implements LedgerGate, for any set of     *)
(* goroutines, any menu of operations and any bounds: every step enters,   *)
(* reads, writes, compares and sets, leaves, hands a plan on, ends the     *)
(* process, or changes nothing that the abstract gate knows of.            *)
(***************************************************************************)
EXTENDS WriteCoordinatorProofs

-----------------------------------------------------------------------------
(* What a goroutine inside is there for.                                   *)

InsideLabels == PermitLabels \union ExclusiveLabels

\* The ordinary permit is held for an ordinary operation, the exclusive one
\* for an exclusive operation.
RoleInv ==
    \A p \in Procs :
        /\ pc[p] \in PermitLabels \union {"acquire"} => op[p] \in GateOps
        /\ pc[p] \in ExclusiveLabels \union {"drain", "exclude"} => op[p] \in ExclusiveOps
        /\ pc[p] \in {"fetch", "next"} => op[p] = "market"
        /\ pc[p] \in {"cancelall", "cancelwait"} => op[p] \in ExclusiveOps \union {"shutdown"}
        /\ pc[p] \in {"quiesce", "quiescing"} => op[p] = "shutdown"
        /\ pc[p] \in {"nestlock", "nestbody"} => op[p] \in {"read", "write"}

\* At the start nobody runs an operation.
LEMMA InitRoles == Init => RoleInv
BY DEF Init, RoleInv, PermitLabels, ExclusiveLabels

\* Every step keeps an operation on the labels of its kind.
LEMMA RolesKept ==
    ASSUME TypeOK, RoleInv, [Next]_vars
    PROVE  RoleInv'
<1> USE DEF TypeOK, GateTypeOK, ProcTypeOK, RoleInv, PermitLabels, ExclusiveLabels,
  Labels, GateOps, LedgerOps, ExclusiveOps, Ops, Goto, Step, gate, procs
<1>1. ASSUME NEW p \in Procs, NEW o \in Menu, Call(p, o)  PROVE RoleInv'
  BY <1>1, MenuAssumption DEF Call, Entry, Capture
<1>2. ASSUME NEW p \in Procs, PermitStep(p)  PROVE RoleInv'
  <2>1. CASE AcquireGranted(p)  BY <2>1 DEF AcquireGranted, AfterGrant, GateFree,
    Refuses
  <2>2. CASE AcquireWaits(p)  BY <2>2 DEF AcquireWaits, WritersLeft, Refuses
  <2>3. CASE AcquireRefused(p)  BY <2>3 DEF AcquireRefused, Return, BackToTargets,
    Refuses
  <2>4. CASE ReleasePermit(p)  BY <2>4 DEF ReleasePermit, Return, BackToTargets
  <2> QED  BY <1>2, <2>1, <2>2, <2>3, <2>4 DEF PermitStep
<1>3. ASSUME NEW p \in Procs, ChangeMuStep(p)  PROVE RoleInv'
  <2>1. CASE LockChangeMu(p)  BY <2>1 DEF LockChangeMu, LockTarget
  <2>2. CASE UnlockChangeMu(p)  BY <2>2 DEF UnlockChangeMu
  <2>3. CASE PeekDone(p)  BY <2>3 DEF PeekDone, Return
  <2> QED  BY <1>3, <2>1, <2>2, <2>3 DEF ChangeMuStep
<1>4. ASSUME NEW p \in Procs, BodyStep(p)  PROVE RoleInv'
  <2>1. CASE WriteBody(p)  BY <2>1 DEF WriteBody
  <2>2. CASE PreviewRead(p)  BY <2>2 DEF PreviewRead
  <2>3. CASE PreviewToken(p)  BY <2>3 DEF PreviewToken
  <2>4. CASE RecordCheck(p)  BY <2>4 DEF RecordCheck
  <2>5. CASE RecordCommit(p)  BY <2>5 DEF RecordCommit
  <2>6. CASE ReadDone(p)  BY <2>6 DEF ReadDone
  <2>7. CASE NestedWrite(p)  BY <2>7 DEF NestedWrite
  <2>8. CASE NestedLedgerWrite(p)  BY <2>8 DEF NestedLedgerWrite
  <2>9. CASE NestedLedgerBody(p)  BY <2>9 DEF NestedLedgerBody
  <2> QED  BY <1>4, <2>1, <2>2, <2>3, <2>4, <2>5, <2>6, <2>7, <2>8, <2>9 DEF BodyStep
<1>5. ASSUME NEW p \in Procs, MarketStep(p)  PROVE RoleInv'
  <2>1. CASE ProviderAnswers(p)  BY <2>1 DEF ProviderAnswers
  <2>2. CASE ProviderFails(p)  BY <2>2 DEF ProviderFails
  <2>3. CASE PersistCheck(p)  BY <2>3 DEF PersistCheck
  <2>4. CASE Persist(p)  BY <2>4 DEF Persist
  <2>5. CASE WorkerDone(p)  BY <2>5 DEF WorkerDone, Return
  <2>6. CASE NextTarget(p)  BY <2>6 DEF NextTarget, Capture
  <2>7. CASE RememberPreference(p)  BY <2>7 DEF RememberPreference
  <2>8. CASE RepriceMetals(p)  BY <2>8 DEF RepriceMetals, Capture
  <2>9. CASE CancelAll(p)  BY <2>9 DEF CancelAll
  <2>10. CASE CancelWait(p)  BY <2>10 DEF CancelWait
  <2> QED  BY <1>5, <2>1, <2>2, <2>3, <2>4, <2>5, <2>6, <2>7, <2>8, <2>9, <2>10 DEF
    MarketStep
<1>6. ASSUME NEW p \in Procs, ExclusiveStep(p)  PROVE RoleInv'
  <2>1. CASE AcquireExclusiveRefused(p)  BY <2>1 DEF AcquireExclusiveRefused, Return
  <2>2. CASE AcquireExclusive(p)  BY <2>2 DEF AcquireExclusive, AfterDrain, WritersLeft,
    Refuses
  <2>3. CASE DrainWaits(p)  BY <2>3 DEF DrainWaits, WritersLeft
  <2>4. CASE DrainDone(p)  BY <2>4 DEF DrainDone, AfterDrain, WritersLeft
  <2>5. CASE ReleaseExclusive(p)  BY <2>5 DEF ReleaseExclusive, Return
  <2>6. CASE BackupSnapshot(p)  BY <2>6 DEF BackupSnapshot
  <2>7. CASE BackupSnapshotDone(p)  BY <2>7 DEF BackupSnapshotDone
  <2>8. CASE ExclusiveUnlock(p)  BY <2>8 DEF ExclusiveUnlock
  <2>9. CASE RestoreFailsEarly(p)  BY <2>9 DEF RestoreFailsEarly
  <2>10. CASE RestoreQuiesce(p)  BY <2>10 DEF RestoreQuiesce
  <2>11. CASE RestoreKeep(p)  BY <2>11 DEF RestoreKeep
  <2> QED  BY <1>6, <2>1, <2>2, <2>3, <2>4, <2>5, <2>6, <2>7, <2>8, <2>9, <2>10, <2>11
    DEF ExclusiveStep
<1>7. ASSUME NEW p \in Procs, ShutdownStep(p)  PROVE RoleInv'
  <2>1. CASE Quiesce(p)  BY <2>1 DEF Quiesce, WritersLeft
  <2>2. CASE QuiesceDone(p)  BY <2>2 DEF QuiesceDone, WritersLeft
  <2>3. CASE CloseDatabase(p)  BY <2>3 DEF CloseDatabase
  <2> QED  BY <1>7, <2>1, <2>2, <2>3 DEF ShutdownStep
<1>8. CASE Restart  BY <1>8 DEF Restart, MayMutate, NoCapture
<1>9. CASE UNCHANGED vars  BY <1>9 DEF vars, gate, procs
<1> QED  BY <1>1, <1>2, <1>3, <1>4, <1>5, <1>6, <1>7, <1>8, <1>9 DEF Next

-----------------------------------------------------------------------------
(* The abstract owner.                                                     *)

\* The versions the clients saw.
View == [p \in Procs |-> plan[p].seen]

\* A step of the abstract gate, or of nothing it knows.
Moves == Gate!Next \/ UNCHANGED <<Owner, View, db>>

\* Whoever is inside is the owner, in the role of its operation.
LEMMA OwnerIs ==
    ASSUME IndInv, NEW p \in Procs, pc[p] \in InsideLabels
    PROVE  Owner = [who |-> p, role |-> Role(p)]
<1>1. \A q \in Procs : HoldsPermit(q) \/ HoldsExclusive(q) => q = p
  <2>1. MutualExclusion
    BY DEF IndInv, TypeOK, GateTypeOK, PermitInv, ExclusiveInv, Excludes, MutualExclusion
  <2> QED  BY <2>1 DEF MutualExclusion, InsideLabels, HoldsPermit, HoldsExclusive
<1>2. Inside = {p}
  BY <1>1 DEF Inside, HoldsPermit, HoldsExclusive, InsideLabels
<1> QED  BY <1>2 DEF Owner

\* Nobody inside, no owner.
LEMMA OwnerIsNot ==
    ASSUME \A p \in Procs : pc[p] \notin InsideLabels
    PROVE  Owner = Gate!Idle
<1>1. Inside = {}
  BY DEF Inside, HoldsPermit, HoldsExclusive, InsideLabels
<1> QED  BY <1>1 DEF Owner, Gate!Idle

\* A goroutine that goes on inside, or stays outside, leaves the owner alone.
LEMMA OwnerStays ==
    ASSUME TypeOK, NEW p \in Procs, NEW l, NEW o,
           pc' = [pc EXCEPT ![p] = l], op' = [op EXCEPT ![p] = o],
           pc[p] \in InsideLabels <=> l \in InsideLabels,
           pc[p] \in InsideLabels => o = op[p]
    PROVE  Owner' = Owner
<1>1. pc \in [Procs -> Labels] /\ op \in [Procs -> Ops]
  BY DEF TypeOK, ProcTypeOK
<1>2. \A q \in Procs : pc'[q] \in InsideLabels <=> pc[q] \in InsideLabels
  BY <1>1
<1>3. Inside' = Inside
  BY <1>2 DEF Inside, HoldsPermit, HoldsExclusive, InsideLabels
<1>4. \A q \in Inside : op'[q] = op[q]
  BY <1>1 DEF Inside, HoldsPermit, HoldsExclusive, InsideLabels
<1>5. \A q \in Inside : Role(q)' = Role(q)
  BY <1>4 DEF Role
<1>6. CASE Inside = {}
  BY <1>3, <1>6 DEF Owner
<1>7. CASE Inside # {}
  <2>1. PICK q \in Inside : q = CHOOSE r \in Inside : TRUE
    BY <1>7
  <2>2. Owner = [who |-> q, role |-> Role(q)]
    BY <1>7, <2>1 DEF Owner
  <2>3. Owner' = [who |-> q, role |-> Role(q)']
    BY <1>3, <1>7, <2>1 DEF Owner
  <2>4. Role(q)' = Role(q)
    BY <1>5, <2>1
  <2> QED  BY <2>2, <2>3, <2>4
<1> QED  BY <1>6, <1>7

\* A step of a goroutine that changes neither its operation nor, for the
\* abstract gate, where it is.
LEMMA StepStays ==
    ASSUME TypeOK, NEW p \in Procs, NEW l, Step(p, l), plan' = plan,
           pc[p] \in InsideLabels <=> l \in InsideLabels
    PROVE  Owner' = Owner /\ View' = View
<1>1. pc' = [pc EXCEPT ![p] = l] /\ op' = [op EXCEPT ![p] = op[p]]
  BY DEF Step, Goto, TypeOK, ProcTypeOK
<1>2. Owner' = Owner
  BY <1>1, OwnerStays
<1> QED  BY <1>2 DEF View

\* The same for a goroutine outside that returns or turns to its next target.
LEMMA OutsideStays ==
    ASSUME TypeOK, NEW p \in Procs, pc[p] \notin InsideLabels, plan' = plan,
           Return(p) \/ BackToTargets(p)
    PROVE  Owner' = Owner /\ View' = View
<1>1. "idle" \notin InsideLabels /\ "next" \notin InsideLabels
  BY DEF InsideLabels, PermitLabels, ExclusiveLabels
<1>2. CASE Return(p)
  <2>1. pc' = [pc EXCEPT ![p] = "idle"] /\ op' = [op EXCEPT ![p] = "none"]
    BY <1>2 DEF Return
  <2>2. Owner' = Owner
    BY <1>1, <2>1, OwnerStays
  <2> QED  BY <2>2 DEF View
<1>3. CASE BackToTargets(p)
  <2>1. pc' = [pc EXCEPT ![p] = "next"] /\ op' = [op EXCEPT ![p] = "market"]
    BY <1>3 DEF BackToTargets, Goto
  <2>2. Owner' = Owner
    BY <1>1, <2>1, OwnerStays
  <2> QED  BY <2>2 DEF View
<1> QED  BY <1>2, <1>3

\* Enter: the gate was free, and the goroutine is inside now.
LEMMA Enters ==
    ASSUME IndInv, IndInv', RoleInv', NEW p \in Procs, NEW l,
           pc' = [pc EXCEPT ![p] = l], l \in InsideLabels, pc[p] \notin InsideLabels,
           \A q \in Procs : pc[q] \in InsideLabels => q = p,
           plan' = plan, db' = db
    PROVE  Gate!Next
<1>1. pc \in [Procs -> Labels] /\ pc'[p] = l
  BY DEF IndInv, TypeOK, ProcTypeOK
<1>2. Owner = Gate!Idle
  BY OwnerIsNot
<1>3. Owner' = [who |-> p, role |-> Role(p)']
  <2>1. \A q \in Procs : pc'[q] \in InsideLabels <=> q = p
    BY <1>1
  <2>2. Inside' = {p}
    BY <2>1 DEF Inside, HoldsPermit, HoldsExclusive, InsideLabels
  <2> QED  BY <2>2 DEF Owner
<1>4. Role(p)' \in Gate!Roles
  BY DEF Role, Gate!Roles
<1>5. Gate!Enter(p, Role(p)')
  BY <1>2, <1>3 DEF Gate!Enter, View
<1> QED  BY <1>4, <1>5 DEF Gate!Next

\* Leave: the owner is gone, and may have shown its client the database.
LEMMA Leaves ==
    ASSUME IndInv, IndInv', NEW p \in Procs, pc[p] \in InsideLabels,
           Return(p) \/ BackToTargets(p), db' = db,
           View' \in {View, [View EXCEPT ![p] = db]}
    PROVE  Gate!Next
<1>1. pc \in [Procs -> Labels] /\ pc' \in {[pc EXCEPT ![p] = "idle"], [pc EXCEPT ![p] = "next"]}
  BY DEF IndInv, TypeOK, ProcTypeOK, Return, BackToTargets, Goto
<1>2. pc'[p] \notin InsideLabels
  BY <1>1 DEF InsideLabels, PermitLabels, ExclusiveLabels
<1>3. Owner = [who |-> p, role |-> Role(p)]
  BY OwnerIs
<1>4. \A q \in Procs : q # p => pc'[q] \notin InsideLabels
  <2>1. MutualExclusion
    BY DEF IndInv, TypeOK, GateTypeOK, PermitInv, ExclusiveInv, Excludes, MutualExclusion
  <2> QED  BY <1>1, <2>1 DEF MutualExclusion, InsideLabels, HoldsPermit, HoldsExclusive
<1>5. \A q \in Procs : pc'[q] \notin InsideLabels
  BY <1>2, <1>4
<1>6. Owner' = Gate!Idle
  <2>1. Inside' = {}
    BY <1>5 DEF Inside, HoldsPermit, HoldsExclusive, InsideLabels
  <2> QED  BY <2>1 DEF Owner, Gate!Idle
<1>7. Role(p) \in Gate!Roles
  BY DEF Role, Gate!Roles
<1>8. Gate!Leave(p)
  BY <1>3, <1>6, <1>7 DEF Gate!Leave, Gate!Inside, View
<1> QED  BY <1>8 DEF Gate!Next

\* Write: a writer inside, which stays inside.
LEMMA Writes ==
    ASSUME IndInv, NEW p \in Procs, pc[p] \in InsideLabels, Role(p) = "writer",
           Owner' = Owner, View' = View, MayMutate
    PROVE  Moves
<1>1. Owner = [who |-> p, role |-> "writer"]
  BY OwnerIs
<1>2. CASE db' = db
  BY <1>2 DEF Moves
<1>3. CASE db' = db + 1
  <2>1. Gate!Write(p)
    BY <1>1, <1>3 DEF Gate!Write, Gate!Inside, View
  <2> QED  BY <2>1 DEF Gate!Next, Moves
<1> QED  BY <1>2, <1>3 DEF MayMutate

\* Every step of the gate is a step of the abstract gate, or of nothing it knows.
LEMMA RefinesStep ==
    ASSUME IndInv, IndInv', TokenInv, RoleInv, RoleInv', [Next]_vars
    PROVE  Moves
<1>0. /\ TypeOK /\ pc \in [Procs -> Labels] /\ op \in [Procs -> Ops] /\ db \in Nat
      /\ plan \in [Procs -> [nonce : Nat, revision : Nat, seen : Nat]]
  BY DEF IndInv, TypeOK, GateTypeOK, ProcTypeOK
<1> USE <1>0 DEF Moves, Goto, gate, procs
<1>1. ASSUME NEW p \in Procs, NEW o \in Menu, Call(p, o)  PROVE Moves
  <2>1. pc' = [pc EXCEPT ![p] = Entry(o)] /\ op' = [op EXCEPT ![p] = o]
    BY <1>1 DEF Call
  <2>2. Entry(o) \notin InsideLabels
    BY DEF Entry, InsideLabels, PermitLabels, ExclusiveLabels
  <2>a. pc[p] \notin InsideLabels
    BY <1>1 DEF Call, InsideLabels, PermitLabels, ExclusiveLabels
  <2>3. Owner' = Owner /\ db' = db
    BY <1>1, <2>1, <2>2, <2>a, OwnerStays DEF Call
  <2>4. CASE o = "record"
    <3>1. PICK r \in Procs : plan' = [plan EXCEPT ![p] = plan[r]]
      BY <1>1, <2>4 DEF Call
    <3>2. View' = [View EXCEPT ![p] = View[r]]
      BY <3>1 DEF View
    <3>3. Gate!Adopt(p, r)
      BY <2>3, <3>2 DEF Gate!Adopt, View
    <3> QED  BY <3>3 DEF Gate!Next
  <2>5. CASE o # "record"
    BY <1>1, <2>3, <2>5 DEF Call, View
  <2> QED  BY <2>4, <2>5
<1>2. ASSUME NEW p \in Procs, PermitStep(p)  PROVE Moves
  <2>1. CASE AcquireGranted(p)
    <3>1. pc' = [pc EXCEPT ![p] = AfterGrant(op[p])] /\ AfterGrant(op[p]) \in InsideLabels
      BY <2>1 DEF AcquireGranted, AfterGrant, Step, InsideLabels, PermitLabels, ExclusiveLabels
    <3>2. \A q \in Procs : pc[q] \in InsideLabels => q = p
      BY <2>1 DEF AcquireGranted, GateFree, Refuses, IndInv, GateTypeOK, PermitInv, ExclusiveInv, Excludes,
        HoldsPermit, HoldsExclusive, InsideLabels
    <3>3. pc[p] \notin InsideLabels
      BY <2>1 DEF AcquireGranted, InsideLabels, PermitLabels, ExclusiveLabels
    <3> QED  BY <2>1, <3>1, <3>2, <3>3, Enters DEF AcquireGranted
  <2>2. CASE AcquireWaits(p)
    BY <2>2 DEF AcquireWaits, Owner, Inside, Role, HoldsPermit, HoldsExclusive, View
  <2>3. CASE AcquireRefused(p)
    <3>1. pc[p] \notin InsideLabels
      BY <2>3 DEF AcquireRefused, InsideLabels, PermitLabels, ExclusiveLabels
    <3> QED  BY <2>3, <3>1, OutsideStays DEF AcquireRefused
  <2>4. CASE ReleasePermit(p)
    <3>1. View' \in {View, [View EXCEPT ![p] = db]}
      BY <2>4 DEF ReleasePermit, View
    <3>2. pc[p] \in InsideLabels
      BY <2>4 DEF ReleasePermit, InsideLabels, PermitLabels
    <3> QED  BY <2>4, <3>1, <3>2, Leaves DEF ReleasePermit
  <2> QED  BY <1>2, <2>1, <2>2, <2>3, <2>4 DEF PermitStep
<1>3. ASSUME NEW p \in Procs, ChangeMuStep(p)  PROVE Moves
  <2>1. CASE LockChangeMu(p)
    <3>1. pc[p] \in InsideLabels <=> LockTarget[pc[p]] \in InsideLabels
      BY <2>1 DEF LockChangeMu, LockTarget, InsideLabels, PermitLabels,
        ExclusiveLabels
    <3> QED  BY <2>1, <3>1, StepStays DEF LockChangeMu
  <2>2. CASE UnlockChangeMu(p)
    <3>1. pc[p] \in InsideLabels <=> "release" \in InsideLabels
      BY <2>2 DEF UnlockChangeMu, InsideLabels, PermitLabels,
        ExclusiveLabels
    <3> QED  BY <2>2, <3>1, StepStays DEF UnlockChangeMu
  <2>3. CASE PeekDone(p)
    <3>1. pc[p] \notin InsideLabels
      BY <2>3 DEF PeekDone, InsideLabels, PermitLabels, ExclusiveLabels
    <3> QED  BY <2>3, <3>1, OutsideStays DEF PeekDone
  <2> QED  BY <1>3, <2>1, <2>2, <2>3 DEF ChangeMuStep
<1>4. ASSUME NEW p \in Procs, BodyStep(p)  PROVE Moves
  <2>1. CASE WriteBody(p)
    <3>1. pc' = [pc EXCEPT ![p] = (IF op[p] = "prefer" THEN "unlock" ELSE "release")] /\ op' = [op EXCEPT ![p] = op[p]]
      BY <2>1 DEF WriteBody, Step
    <3>2. pc[p] \in InsideLabels /\ (IF op[p] = "prefer" THEN "unlock" ELSE "release") \in InsideLabels
      BY <2>1 DEF WriteBody, InsideLabels, PermitLabels
    <3>3. Owner' = Owner /\ View' = View
      BY <2>1, <3>1, <3>2, OwnerStays DEF WriteBody, View
    <3>4. op[p] \in {"write", "prefer", "read", "market"}
      BY <2>1 DEF WriteBody, RoleInv, TokenInv, OpInv
    <3>5. Role(p) = "writer"
      BY <3>4 DEF Role, ExclusiveOps
    <3>6. MayMutate
      BY <2>1 DEF WriteBody, MayMutate
    <3> QED  BY <3>2, <3>3, <3>5, <3>6, Writes
  <2>2. CASE PreviewRead(p)
    <3>1. pc' = [pc EXCEPT ![p] = "token"] /\ op' = [op EXCEPT ![p] = op[p]]
      BY <2>2 DEF PreviewRead, Step
    <3>a. pc[p] \in InsideLabels /\ "token" \in InsideLabels
      BY <2>2 DEF PreviewRead, InsideLabels, PermitLabels
    <3>2. Owner' = Owner
      BY <3>1, <3>a, OwnerStays
    <3>3. View' = [View EXCEPT ![p] = db]
      BY <2>2 DEF PreviewRead, View, NoPlan
    <3>4. Owner = [who |-> p, role |-> "reader"]
      BY <2>2, <3>a, OwnerIs DEF PreviewRead, Role, ExclusiveOps
    <3>5. Gate!Look(p)
      BY <2>2, <3>2, <3>3, <3>4 DEF PreviewRead, Gate!Look, Gate!Inside, View
    <3> QED  BY <3>5 DEF Gate!Next
  <2>3. CASE PreviewToken(p)
    <3>1. pc' = [pc EXCEPT ![p] = "release"] /\ op' = [op EXCEPT ![p] = op[p]]
      BY <2>3 DEF PreviewToken, Step
    <3>2. Owner' = Owner
      <4>1. pc[p] \in InsideLabels /\ "release" \in InsideLabels
        BY <2>3 DEF PreviewToken, InsideLabels, PermitLabels
      <4> QED  BY <3>1, <4>1, OwnerStays
    <3>3. View' = View
      BY <2>3 DEF PreviewToken, View
    <3> QED  BY <2>3, <3>2, <3>3 DEF PreviewToken
  <2>4. CASE RecordCheck(p)
    <3>1. pc[p] \in InsideLabels <=> (IF TokenCurrent(p) THEN "commit" ELSE "unlock") \in InsideLabels
      BY <2>4 DEF RecordCheck, InsideLabels, PermitLabels,
        ExclusiveLabels
    <3> QED  BY <2>4, <3>1, StepStays DEF RecordCheck
  <2>5. CASE RecordCommit(p)
    <3>a. pc[p] \in InsideLabels /\ "unlock" \in InsideLabels
      BY <2>5 DEF RecordCommit, InsideLabels, PermitLabels
    <3>1. Owner' = Owner /\ View' = View
      BY <2>5, <3>a, StepStays DEF RecordCommit
    <3>b. op[p] = "record"
      BY <2>5 DEF RecordCommit, TokenInv, OpInv
    <3>2. Owner = [who |-> p, role |-> "guarded"]
      BY <3>a, <3>b, OwnerIs DEF Role, ExclusiveOps
    <3>3. View[p] = db
      BY <2>5 DEF RecordCommit, TokenInv, FreshInv, View
    <3>4. CASE db' = db
      BY <3>1, <3>4
    <3>5. CASE db' = db + 1
      <4>1. Gate!CommitGuarded(p)
        BY <3>1, <3>2, <3>3, <3>5 DEF Gate!CommitGuarded, Gate!Inside, View
      <4> QED  BY <4>1 DEF Gate!Next
    <3> QED  BY <2>5, <3>4, <3>5 DEF RecordCommit, MayMutate
  <2>6. CASE ReadDone(p)
    <3>1. pc[p] \in InsideLabels <=> "release" \in InsideLabels
      BY <2>6 DEF ReadDone, InsideLabels, PermitLabels,
        ExclusiveLabels
    <3> QED  BY <2>6, <3>1, StepStays DEF ReadDone
  <2>7. CASE NestedWrite(p)
    <3>1. pc' = [pc EXCEPT ![p] = "release"] /\ op' = [op EXCEPT ![p] = op[p]]
      BY <2>7 DEF NestedWrite, Step
    <3>2. pc[p] \in InsideLabels /\ "release" \in InsideLabels
      BY <2>7 DEF NestedWrite, InsideLabels, PermitLabels
    <3>3. Owner' = Owner /\ View' = View
      BY <2>7, <3>1, <3>2, OwnerStays DEF NestedWrite, View
    <3>4. op[p] \in {"write", "prefer", "read", "market"}
      BY <2>7 DEF NestedWrite, RoleInv, TokenInv, OpInv
    <3>5. Role(p) = "writer"
      BY <3>4 DEF Role, ExclusiveOps
    <3>6. MayMutate
      BY <2>7 DEF NestedWrite, MayMutate
    <3> QED  BY <3>2, <3>3, <3>5, <3>6, Writes
  <2>8. CASE NestedLedgerWrite(p)
    <3>1. pc' = [pc EXCEPT ![p] = "nestlock"] /\ op' = [op EXCEPT ![p] = op[p]]
      BY <2>8 DEF NestedLedgerWrite
    <3>2. pc[p] \in InsideLabels /\ "nestlock" \in InsideLabels
      BY <2>8 DEF NestedLedgerWrite, InsideLabels, PermitLabels, ExclusiveLabels
    <3>3. Owner' = Owner
      BY <3>1, <3>2, OwnerStays
    <3> QED  BY <2>8, <3>3 DEF NestedLedgerWrite, View
  <2>9. CASE NestedLedgerBody(p)
    <3>1. pc' = [pc EXCEPT ![p] = "release"] /\ op' = [op EXCEPT ![p] = op[p]]
      BY <2>9 DEF NestedLedgerBody, Step
    <3>2. pc[p] \in InsideLabels /\ "release" \in InsideLabels
      BY <2>9 DEF NestedLedgerBody, InsideLabels, PermitLabels
    <3>3. Owner' = Owner /\ View' = View
      BY <2>9, <3>1, <3>2, OwnerStays DEF NestedLedgerBody, View
    <3>4. op[p] \in {"write", "prefer", "read", "market"}
      BY <2>9 DEF NestedLedgerBody, RoleInv, TokenInv, OpInv
    <3>5. Role(p) = "writer"
      BY <3>4 DEF Role, ExclusiveOps
    <3>6. MayMutate
      BY <2>9 DEF NestedLedgerBody, MayMutate
    <3> QED  BY <3>2, <3>3, <3>5, <3>6, Writes
  <2> QED  BY <1>4, <2>1, <2>2, <2>3, <2>4, <2>5, <2>6, <2>7, <2>8, <2>9 DEF BodyStep
<1>5. ASSUME NEW p \in Procs, MarketStep(p)  PROVE Moves
  <2>1. CASE ProviderAnswers(p)
    <3>1. pc[p] \in InsideLabels <=> "acquire" \in InsideLabels
      BY <2>1 DEF ProviderAnswers, InsideLabels, PermitLabels,
        ExclusiveLabels
    <3> QED  BY <2>1, <3>1, StepStays DEF ProviderAnswers
  <2>2. CASE ProviderFails(p)
    <3>1. pc[p] \in InsideLabels <=> "next" \in InsideLabels
      BY <2>2 DEF ProviderFails, InsideLabels, PermitLabels,
        ExclusiveLabels
    <3> QED  BY <2>2, <3>1, StepStays DEF ProviderFails
  <2>3. CASE PersistCheck(p)
    <3>1. pc[p] \in InsideLabels <=> (IF EpochCurrent(p) THEN "persist" ELSE "release") \in InsideLabels
      BY <2>3 DEF PersistCheck, InsideLabels, PermitLabels,
        ExclusiveLabels
    <3> QED  BY <2>3, <3>1, StepStays DEF PersistCheck
  <2>4. CASE Persist(p)
    <3>1. pc' = [pc EXCEPT ![p] = "release"] /\ op' = [op EXCEPT ![p] = op[p]]
      BY <2>4 DEF Persist, Step
    <3>2. pc[p] \in InsideLabels /\ "release" \in InsideLabels
      BY <2>4 DEF Persist, InsideLabels, PermitLabels
    <3>3. Owner' = Owner /\ View' = View
      BY <2>4, <3>1, <3>2, OwnerStays DEF Persist, View
    <3>4. op[p] \in {"write", "prefer", "read", "market"}
      BY <2>4 DEF Persist, RoleInv, TokenInv, OpInv
    <3>5. Role(p) = "writer"
      BY <3>4 DEF Role, ExclusiveOps
    <3>6. MayMutate
      BY <2>4 DEF Persist, MayMutate
    <3> QED  BY <3>2, <3>3, <3>5, <3>6, Writes
  <2>5. CASE WorkerDone(p)
    <3>1. pc[p] \notin InsideLabels
      BY <2>5 DEF WorkerDone, InsideLabels, PermitLabels, ExclusiveLabels
    <3> QED  BY <2>5, <3>1, OutsideStays DEF WorkerDone
  <2>6. CASE NextTarget(p)
    <3>1. pc' = [pc EXCEPT ![p] = "fetch"] /\ op' = [op EXCEPT ![p] = op[p]]
      BY <2>6 DEF NextTarget
    <3>2. pc[p] \notin InsideLabels /\ "fetch" \notin InsideLabels
      BY <2>6 DEF NextTarget, InsideLabels, PermitLabels, ExclusiveLabels
    <3>3. Owner' = Owner
      BY <3>1, <3>2, OwnerStays
    <3> QED  BY <2>6, <3>3 DEF NextTarget, View
  <2>7. CASE RememberPreference(p)
    <3>1. pc' = [pc EXCEPT ![p] = "acquire"] /\ op' = [op EXCEPT ![p] = "prefer"]
      BY <2>7 DEF RememberPreference
    <3>2. pc[p] \notin InsideLabels /\ "acquire" \notin InsideLabels
      BY <2>7 DEF RememberPreference, InsideLabels, PermitLabels, ExclusiveLabels
    <3>3. Owner' = Owner
      BY <3>1, <3>2, OwnerStays
    <3> QED  BY <2>7, <3>3 DEF RememberPreference, View
  <2>8. CASE RepriceMetals(p)
    <3>1. pc' = [pc EXCEPT ![p] = "acquire"] /\ op' = [op EXCEPT ![p] = op[p]]
      BY <2>8 DEF RepriceMetals
    <3>2. pc[p] \notin InsideLabels /\ "acquire" \notin InsideLabels
      BY <2>8 DEF RepriceMetals, InsideLabels, PermitLabels, ExclusiveLabels
    <3>3. Owner' = Owner
      BY <3>1, <3>2, OwnerStays
    <3> QED  BY <2>8, <3>3 DEF RepriceMetals, View
  <2>9. CASE CancelAll(p)
    <3>1. pc' = [pc EXCEPT ![p] = "cancelwait"] /\ op' = [op EXCEPT ![p] = op[p]]
      BY <2>9 DEF CancelAll
    <3>2. pc[p] \notin InsideLabels /\ "cancelwait" \notin InsideLabels
      BY <2>9 DEF CancelAll, InsideLabels, PermitLabels, ExclusiveLabels
    <3>3. Owner' = Owner
      BY <3>1, <3>2, OwnerStays
    <3> QED  BY <2>9, <3>3 DEF CancelAll, View
  <2>10. CASE CancelWait(p)
    <3>1. pc[p] \in InsideLabels <=> (IF op[p] = "shutdown" THEN "close" ELSE "exclude") \in InsideLabels
      BY <2>10 DEF CancelWait, InsideLabels, PermitLabels,
        ExclusiveLabels
    <3> QED  BY <2>10, <3>1, StepStays DEF CancelWait
  <2> QED  BY <1>5, <2>1, <2>2, <2>3, <2>4, <2>5, <2>6, <2>7, <2>8, <2>9, <2>10 DEF
    MarketStep
<1>6. ASSUME NEW p \in Procs, ExclusiveStep(p)  PROVE Moves
  <2>1. CASE AcquireExclusiveRefused(p)
    <3>1. pc[p] \notin InsideLabels
      BY <2>1 DEF AcquireExclusiveRefused, InsideLabels, PermitLabels, ExclusiveLabels
    <3> QED  BY <2>1, <3>1, OutsideStays DEF AcquireExclusiveRefused
  <2>2. CASE AcquireExclusive(p)
    <3>1. CASE WritersLeft
      <4>1. Step(p, "drain")
        BY <2>2, <3>1 DEF AcquireExclusive
      <4>2. pc[p] \notin InsideLabels /\ "drain" \notin InsideLabels
        BY <2>2 DEF AcquireExclusive, InsideLabels, PermitLabels, ExclusiveLabels
      <4> QED  BY <2>2, <4>1, <4>2, StepStays DEF AcquireExclusive
    <3>2. CASE ~WritersLeft
      <4>1. pc' = [pc EXCEPT ![p] = AfterDrain(op[p])] /\ AfterDrain(op[p]) \in InsideLabels
        BY <2>2, <3>2 DEF AcquireExclusive, AfterDrain, Step, InsideLabels, ExclusiveLabels
      <4>2. \A q \in Procs : pc[q] \in InsideLabels => q = p
        BY <2>2, <3>2 DEF AcquireExclusive, WritersLeft, Refuses, IndInv, GateTypeOK,
          PermitInv, ExclusiveInv, Excludes, HoldsPermit, HoldsExclusive, InsideLabels
      <4>3. pc[p] \notin InsideLabels
        BY <2>2 DEF AcquireExclusive, InsideLabels, PermitLabels, ExclusiveLabels
      <4> QED  BY <2>2, <4>1, <4>2, <4>3, Enters DEF AcquireExclusive
    <3> QED  BY <3>1, <3>2
  <2>3. CASE DrainWaits(p)
    BY <2>3 DEF DrainWaits, Owner, Inside, Role, HoldsPermit, HoldsExclusive, View
  <2>4. CASE DrainDone(p)
    <3>1. pc' = [pc EXCEPT ![p] = AfterDrain(op[p])] /\ AfterDrain(op[p]) \in InsideLabels
      BY <2>4 DEF DrainDone, AfterDrain, Step, InsideLabels, PermitLabels, ExclusiveLabels
    <3>2. \A q \in Procs : pc[q] \in InsideLabels => q = p
      BY <2>4 DEF DrainDone, WritersLeft, IndInv, GateTypeOK, PermitInv, ExclusiveInv, Excludes,
        HoldsPermit, HoldsExclusive, InsideLabels
    <3>3. pc[p] \notin InsideLabels
      BY <2>4 DEF DrainDone, InsideLabels, PermitLabels, ExclusiveLabels
    <3> QED  BY <2>4, <3>1, <3>2, <3>3, Enters DEF DrainDone
  <2>5. CASE ReleaseExclusive(p)
    <3>1. View' = View
      BY <2>5 DEF ReleaseExclusive, View
    <3>2. pc[p] \in InsideLabels
      BY <2>5 DEF ReleaseExclusive, InsideLabels, ExclusiveLabels
    <3> QED  BY <2>5, <3>1, <3>2, Leaves DEF ReleaseExclusive
  <2>6. CASE BackupSnapshot(p)
    <3>1. pc[p] \in InsideLabels <=> "snapshot" \in InsideLabels
      BY <2>6 DEF BackupSnapshot, InsideLabels, PermitLabels,
        ExclusiveLabels
    <3> QED  BY <2>6, <3>1, StepStays DEF BackupSnapshot
  <2>7. CASE BackupSnapshotDone(p)
    <3>1. pc[p] \in InsideLabels <=> "exunlock" \in InsideLabels
      BY <2>7 DEF BackupSnapshotDone, InsideLabels, PermitLabels,
        ExclusiveLabels
    <3> QED  BY <2>7, <3>1, StepStays DEF BackupSnapshotDone
  <2>8. CASE ExclusiveUnlock(p)
    <3>1. pc[p] \in InsideLabels <=> "package" \in InsideLabels
      BY <2>8 DEF ExclusiveUnlock, InsideLabels, PermitLabels,
        ExclusiveLabels
    <3> QED  BY <2>8, <3>1, StepStays DEF ExclusiveUnlock
  <2>9. CASE RestoreFailsEarly(p)
    <3>1. pc[p] \in InsideLabels <=> "exunlock" \in InsideLabels
      BY <2>9 DEF RestoreFailsEarly, InsideLabels, PermitLabels,
        ExclusiveLabels
    <3> QED  BY <2>9, <3>1, StepStays DEF RestoreFailsEarly
  <2>10. CASE RestoreQuiesce(p)
    <3>1. pc' = [pc EXCEPT ![p] = "join"] /\ op' = [op EXCEPT ![p] = op[p]]
      BY <2>10 DEF RestoreQuiesce
    <3>2. pc[p] \in InsideLabels /\ "join" \in InsideLabels
      BY <2>10 DEF RestoreQuiesce, InsideLabels, PermitLabels, ExclusiveLabels
    <3>3. Owner' = Owner
      BY <3>1, <3>2, OwnerStays
    <3> QED  BY <2>10, <3>3 DEF RestoreQuiesce, View
  <2>11. CASE RestoreKeep(p)
    <3>1. pc[p] \in InsideLabels <=> "kept" \in InsideLabels
      BY <2>11 DEF RestoreKeep, InsideLabels, PermitLabels,
        ExclusiveLabels
    <3> QED  BY <2>11, <3>1, StepStays DEF RestoreKeep
  <2> QED  BY <1>6, <2>1, <2>2, <2>3, <2>4, <2>5, <2>6, <2>7, <2>8, <2>9, <2>10, <2>11
    DEF ExclusiveStep
<1>7. ASSUME NEW p \in Procs, ShutdownStep(p)  PROVE Moves
  <2>1. CASE Quiesce(p)
    <3>1. pc[p] \in InsideLabels <=> (IF WritersLeft THEN "quiescing" ELSE "cancelall") \in InsideLabels
      BY <2>1 DEF Quiesce, InsideLabels, PermitLabels,
        ExclusiveLabels
    <3> QED  BY <2>1, <3>1, StepStays DEF Quiesce
  <2>2. CASE QuiesceDone(p)
    <3>1. pc[p] \in InsideLabels <=> "cancelall" \in InsideLabels
      BY <2>2 DEF QuiesceDone, InsideLabels, PermitLabels,
        ExclusiveLabels
    <3> QED  BY <2>2, <3>1, StepStays DEF QuiesceDone
  <2>3. CASE CloseDatabase(p)
    <3>1. pc[p] \in InsideLabels <=> "closed" \in InsideLabels
      BY <2>3 DEF CloseDatabase, InsideLabels, PermitLabels,
        ExclusiveLabels
    <3> QED  BY <2>3, <3>1, StepStays DEF CloseDatabase
  <2> QED  BY <1>7, <2>1, <2>2, <2>3 DEF ShutdownStep
<1>8. CASE Restart
  <2>1. \A q \in Procs : pc'[q] \notin InsideLabels
    BY <1>8 DEF Restart, InsideLabels, PermitLabels, ExclusiveLabels
  <2>2. Owner' = Gate!Idle
    <3>1. Inside' = {}
      BY <2>1 DEF Inside, HoldsPermit, HoldsExclusive, InsideLabels
    <3> QED  BY <3>1 DEF Owner, Gate!Idle
  <2>3. View' = View
    BY <1>8 DEF Restart, View
  <2>4. CASE db' = db
    <3>1. Gate!Reset
      BY <2>2, <2>3, <2>4 DEF Gate!Reset, View
    <3> QED  BY <3>1 DEF Gate!Next
  <2>5. CASE db' # db
    <3>1. PICK p \in Procs : pc[p] \in {"join", "kept"} /\ db' = db + 1
      BY <1>8, <2>5 DEF Restart, MayMutate
    <3>2. Owner = [who |-> p, role |-> "exclusive"]
      <4>1. pc[p] \in InsideLabels /\ op[p] \in ExclusiveOps
        BY <3>1 DEF RoleInv, InsideLabels, ExclusiveLabels
      <4> QED  BY <4>1, OwnerIs DEF Role, ExclusiveOps
    <3>3. Gate!Reset
      BY <2>2, <2>3, <3>1, <3>2 DEF Gate!Reset, Gate!Inside, View
    <3> QED  BY <3>3 DEF Gate!Next
  <2> QED  BY <2>4, <2>5
<1>9. CASE UNCHANGED vars
  BY <1>9 DEF vars, Owner, Inside, Role, HoldsPermit, HoldsExclusive, View
<1> QED  BY <1>1, <1>2, <1>3, <1>4, <1>5, <1>6, <1>7, <1>8, <1>9 DEF Next

\* acquireWrite, acquireExclusive, the tokens and the restart implement the
\* abstract gate: the database changes only inside, and under a guarded
\* permit only as a compare-and-set against what the client saw.
THEOREM GateImplementsLedgerGate == Spec => ImplementsLedgerGate
<1>1. Init => Gate!Init
  <2>1. ASSUME Init  PROVE Owner = Gate!Idle
    BY <2>1, OwnerIsNot DEF Init, InsideLabels, PermitLabels, ExclusiveLabels
  <2>2. ASSUME Init  PROVE View = [c \in Procs |-> 0] /\ db = 0
    BY <2>2 DEF Init, View, NoPlan
  <2> QED  BY <2>1, <2>2 DEF Gate!Init, View
<1>2. /\ IndInv /\ TokenInv /\ RoleInv /\ IndInv' /\ RoleInv'
      /\ [Next]_vars
      => [Gate!Next]_(Gate!gateVars)
  BY RefinesStep DEF Moves, View, Gate!gateVars
<1>3. IndInv /\ RoleInv /\ [Next]_vars => RoleInv'
  BY RolesKept DEF IndInv
<1> QED
  BY InitInv, StepInv, InitTokens, TokensKept, InitRoles, <1>1, <1>2, <1>3, PTL
  DEF Spec, ImplementsLedgerGate, Gate!Spec
=============================================================================
