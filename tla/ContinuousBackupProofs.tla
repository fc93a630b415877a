------------------------ MODULE ContinuousBackupProofs ------------------------
(***************************************************************************)
(* Proofs about ContinuousBackup, for any number of streams, transactions  *)
(* and lost objects and any menu of operations.                            *)
(***************************************************************************)
EXTENDS ContinuousBackup, FiniteSetTheorems, WellFoundedInduction, TLAPS

-----------------------------------------------------------------------------
(* The inductive invariant *)

(* The operation, the worker and the handles: who may be where. *)
PathInv ==
    /\ op.kind = "idle" <=> op.pc = "idle"
    /\ op.pc = "join" => op.kind \in {"configure", "pause", "backupNow", "close"}
    /\ op.pc = "sync" => op.kind \in {"backupNow", "close"}
    /\ op.kind = "backupNow" => op.pc \in {"join", "sync"}
    /\ op.pc \in {"drain", "final", "close", "seal"} => op.kind \in {"configure", "pause", "close"}
    /\ op.pc = "save" => op.kind \in {"configure", "pause"}
    /\ op.pc \in {"start", "undo"} => op.kind = "configure"
    /\ op.pc \in {"scan", "recheck", "delete"} => op.kind \in {"preview", "execute", "background"}

HandleInv ==
    /\ open => enabled /\ identity \in Streams /\ State(identity) = "open"
    /\ worker => open
    /\ sync # "none" => open /\ (worker \/ op.pc = "sync")
    /\ op.pc = "sync" => open /\ ~worker
    /\ op.kind = "backupNow" => open
    /\ op.pc \in {"drain", "final", "close"} => open /\ ~worker /\ sync = "none"
    /\ op.pc \in {"seal", "save", "start", "startOld", "undo", "closed"} => ~open
    /\ op.pc \in {"start", "startOld"} => enabled
    /\ /\ op.kind \in {"configure", "pause"}
       /\ op.pc \in {"join", "drain", "final", "close", "seal", "save"}
       => op.old = enabled

(* A restore's pause. *)
FenceInv ==
    /\ fenced => ~enabled
    /\ op.kind = "pause" => ~op.want
    /\ op.kind = "configure" /\ op.old => ~fenced

(* What is captured and uploaded of the stream under way. *)
StreamInv ==
    /\ dirty => local < MaxTx
    /\ \A s \in missed : State(s) # "none"
    /\ open => identity \notin missed
    /\ open /\ initialized => Identity \in remote[identity]
    /\ sync = "init" => Identity \in remote[identity]
    /\ sync \in {"capture", "upload"} => initialized
    /\ op.pc \in {"join", "sync", "drain", "final"} => ~op.confirmed
    /\ op.pc = "final" => initialized /\ ~dirty
    /\ op.pc = "close" /\ op.confirmed => ~dirty /\ Upto(local) \subseteq remote[identity]
    /\ op.pc = "seal" =>
          /\ identity \in Streams /\ State(identity) = "open"
          /\ op.confirmed => identity \notin missed /\ Upto(local) \subseteq remote[identity]

(* A cleanup under way: the plan, and two streams that will survive it. *)
Survives(x, rows, objects) ==
    rows[x].state = "sealed" /\ Upto(rows[x].finalTx) \subseteq objects[x]
PlanFine(rows, objects) ==
    /\ \A s \in op.todo : rows[s].state \in {"sealed", "deleting"}
    /\ op.todo # {} =>
          \E x, y \in Streams :
              /\ x # y /\ x \notin op.todo /\ y \notin op.todo
              /\ Survives(x, rows, objects) /\ Survives(y, rows, objects)
              /\ \A s \in op.todo : s < x /\ s < y

CleanupInv ==
    /\ op.pc # "delete" => op.target = 0
    /\ op.target # 0 => op.target \in op.todo /\ State(op.target) = "deleting"
    /\ op.pc = "recheck" => PlanFine(op.print.records, op.print.objects)
    /\ op.pc = "delete" => PlanFine(ledger, remote)
    /\ op.kind = "execute" /\ op.pc \in {"recheck", "delete"} => op.todo \subseteq op.shown.eligible

(* A stream being deleted has two newer sealed ones. *)
DeletingInv ==
    \A s \in Streams : State(s) = "deleting" =>
        \E x, y \in Streams : /\ x # y /\ s < x /\ s < y
                              /\ State(x) = "sealed" /\ State(y) = "sealed"

DayInv == runs = 0 \/ (runs = 1 /\ attempted)

(* The types of the process, in three parts. *)
OpTypeOK == op \in OpRecords
PreviewTypeOK == preview \in Previews
ReplicaTypeOK ==
    /\ open \in BOOLEAN /\ identity \in 0 .. MaxStreams /\ initialized \in BOOLEAN
    /\ local \in 0 .. MaxTx /\ dirty \in BOOLEAN /\ lastSync \in BOOLEAN /\ worker \in BOOLEAN
    /\ sync \in {"none", "identity", "init", "capture", "upload"}
    /\ pins \subseteq Streams /\ closed \in BOOLEAN /\ paused \in BOOLEAN

(* All of it. *)
CInv ==
    /\ DiskTypeOK /\ ProcessTypeOK /\ GhostTypeOK
    /\ PathInv /\ HandleInv /\ FenceInv /\ StreamInv
    /\ SealedIsComplete /\ IdentityBrackets /\ DeletedMeansGone
    /\ CleanupInv /\ DeletingInv /\ PinnedKept /\ DayInv

-----------------------------------------------------------------------------
(* Operators *)

(* A set of naturals that is not empty has a least element. *)
LEMMA MinIsIn ==
    ASSUME NEW S \in SUBSET Nat, S # {}
    PROVE  Min(S) \in S
<1>1. PICK R : R = OpToRel(<, Nat)
  OBVIOUS
<1>2. IsWellFoundedOn(R, Nat)
  BY <1>1, NatLessThanWellFounded
<1>3. \A x, y \in Nat : x < y <=> <<x, y>> \in R
  BY <1>1 DEF OpToRel
<1>4. PICK x \in S : \A y \in S : ~ (<<y, x>> \in R)
  BY <1>2, WFMin
<1>5. \A y \in S : x <= y
  <2> TAKE y \in S
  <2>1. x \in Nat /\ y \in Nat
    OBVIOUS
  <2>2. ~ (y < x)
    BY <1>3, <1>4, <2>1
  <2> QED  BY <2>1, <2>2
<1> QED  BY <1>5 DEF Min

(* Two members make a cardinality of two, and the other way round. *)
LEMMA TwoMembers ==
    ASSUME NEW S, IsFiniteSet(S)
    PROVE  Cardinality(S) >= 2 <=> \E x, y \in S : x # y
<1>1. ASSUME NEW x \in S, NEW y \in S, x # y
      PROVE  Cardinality(S) >= 2
  <2>1. Cardinality(S \ {x}) = Cardinality(S) - 1 /\ IsFiniteSet(S \ {x})
    BY FS_RemoveElement
  <2>2. Cardinality((S \ {x}) \ {y}) = Cardinality(S \ {x}) - 1 /\ IsFiniteSet((S \ {x}) \ {y})
    BY <1>1, <2>1, FS_RemoveElement
  <2>3. Cardinality((S \ {x}) \ {y}) \in Nat /\ Cardinality(S) \in Nat
    BY <2>2, FS_CardinalityType
  <2> QED  BY <2>1, <2>2, <2>3
<1>2. ASSUME Cardinality(S) >= 2
      PROVE  \E x, y \in S : x # y
  <2>1. S # {}
    BY <1>2, FS_EmptySet
  <2>2. PICK x : x \in S
    BY <2>1
  <2>3. Cardinality(S \ {x}) = Cardinality(S) - 1 /\ IsFiniteSet(S \ {x})
    BY <2>2, FS_RemoveElement
  <2>4. Cardinality(S) \in Nat
    BY FS_CardinalityType
  <2>5. S \ {x} # {}
    BY <1>2, <2>3, <2>4, FS_EmptySet
  <2> QED  BY <2>2, <2>5
<1> QED  BY <1>1, <1>2

(* The streams are finitely many. *)
LEMMA StreamsFinite == \A S \in SUBSET Streams : IsFiniteSet(S)
<1>1. IsFiniteSet(Streams)
  BY BackupBounds, FS_Interval DEF Streams
<1> QED  BY <1>1, FS_Subset

(* The values without a preview, a print or an operation have their types. *)
LEMMA EmptyTypes ==
    /\ NoRow \in Rows /\ NoPrint \in Prints /\ NoPreview \in Previews /\ Idle \in OpRecords
<1>1. NoRow \in Rows
  BY BackupBounds DEF NoRow, Rows
<1>2. NoPrint \in Prints
  BY <1>1 DEF NoPrint, Prints
<1>3. NoPreview \in Previews
  BY <1>2 DEF NoPreview, Previews
<1>4. Idle \in OpRecords
  BY <1>2, <1>3, BackupBounds DEF Idle, OpRecords, Kinds, Labels
<1> QED  BY <1>1, <1>2, <1>3, <1>4

(* What the scan sees has its type. *)
LEMMA SnapshotType ==
    ASSUME DiskTypeOK
    PROVE  Snapshot \in Prints
BY DEF Snapshot, Prints, DiskTypeOK

(* The identity and the first transactions are objects. *)
LEMMA UptoType ==
    ASSUME NEW n \in 0 .. MaxTx
    PROVE  Upto(n) \subseteq Objects /\ Identity \in Upto(n)
BY BackupBounds DEF Upto, Objects, Identity

(* The next object to upload is one of the missing ones. *)
LEMMA MissingMin ==
    ASSUME ProcessTypeOK, Missing # {}
    PROVE  Min(Missing) \in Missing /\ Min(Missing) \in 1 .. local /\ Min(Missing) \in Objects
<1>1. local \in 0 .. MaxTx
  BY DEF ProcessTypeOK
<1>2. Missing \in SUBSET Nat
  BY <1>1, BackupBounds DEF Missing
<1>3. Min(Missing) \in Missing
  BY <1>2, MinIsIn
<1>4. Min(Missing) \in 1 .. local
  BY <1>3 DEF Missing
<1>5. 1 .. local \subseteq Objects
  BY <1>1, BackupBounds DEF Objects
<1> QED  BY <1>3, <1>4, <1>5

(* The next stream is one that has no row. *)
LEMMA UnusedMin ==
    ASSUME Unused # {}
    PROVE  Min(Unused) \in Streams /\ State(Min(Unused)) = "none"
<1>1. Unused \in SUBSET Nat
  BY BackupBounds DEF Unused, Streams
<1>2. Min(Unused) \in Unused
  BY <1>1, MinIsIn
<1> QED  BY <1>2 DEF Unused

(* startLocked adds the row of a stream that had none. *)
LEMMA StartsOne ==
    ASSUME StreamStarts
    PROVE  \E s \in Streams :
              /\ State(s) = "none" /\ identity' = s
              /\ ledger' = [ledger EXCEPT ![s] = [NoRow EXCEPT !.state = "open"]]
BY UnusedMin DEF StreamStarts, AddRow

(* A failed start adds one row at most. *)
LEMMA StartsOneAtMost ==
    ASSUME StartFails
    PROVE  \/ ledger' = ledger /\ identity' = identity
           \/ \E s \in Streams :
                /\ State(s) = "none" /\ identity' = s
                /\ ledger' = [ledger EXCEPT ![s] = [NoRow EXCEPT !.state = "open"]]
BY UnusedMin DEF StartFails, AddRow

(* What the caller of a sync does when it returns. *)
LEMMA SyncResult ==
    ASSUME NEW ok \in BOOLEAN, SyncReturns(ok)
    PROVE  /\ sync' = "none"
           /\ \/ op.pc # "sync" /\ op' = op /\ worker' = worker
              \/ op.pc = "sync" /\ op' = Idle /\ worker' = TRUE
              \/ /\ op.pc = "sync" /\ op.kind # "backupNow" /\ worker' = worker
                 /\ op' = [op EXCEPT !.pc = "drain"]
<1>1. CASE op.pc # "sync"
  BY <1>1 DEF SyncReturns
<1>2. CASE op.pc = "sync" /\ op.kind = "backupNow"
  BY <1>2 DEF SyncReturns, End
<1>3. CASE op.pc = "sync" /\ op.kind # "backupNow"
  BY <1>3 DEF SyncReturns, Goto
<1> QED  BY <1>1, <1>2, <1>3

(* A scan ends the preview, or hands its plan to the recheck. *)
LEMMA ScanResult ==
    ASSUME NEW verified \in SUBSET Streams, ScanSucceeds(verified)
    PROVE  /\ op.pc = "scan"
           /\ \/ op' = Idle
              \/ /\ op' = [op EXCEPT !.pc = "recheck", !.todo = Plan(verified, op.days),
                                     !.print = Snapshot]
                 /\ op.kind = "background" \/ Plan(verified, op.days) = op.shown.eligible
           /\ \/ preview' = preview
              \/ preview' = [days |-> op.days, eligible |-> Plan(verified, op.days),
                             print |-> Snapshot]
           /\ UNCHANGED <<disk, replica, syncing, dirty, pins, closed, paused, ghosts>>
BY Zenon DEF ScanSucceeds, End

(* The same, field by field. *)
LEMMA ScanFields ==
    ASSUME NEW verified \in SUBSET Streams, ScanSucceeds(verified), op \in OpRecords
    PROVE  /\ op.pc = "scan"
           /\ \/ op' = Idle /\ op'.kind = "idle" /\ op'.pc = "idle"
              \/ /\ op'.pc = "recheck" /\ op'.kind = op.kind /\ op'.want = op.want
                 /\ op'.old = op.old /\ op'.confirmed = op.confirmed /\ op'.days = op.days
                 /\ op'.shown = op.shown /\ op'.target = op.target
                 /\ op'.todo = Plan(verified, op.days) /\ op'.print = Snapshot
                 /\ op.kind = "background" \/ Plan(verified, op.days) = op.shown.eligible
           /\ UNCHANGED <<disk, replica, syncing, dirty, pins, closed, paused, ghosts>>
<1>1. CASE op' = Idle
  BY <1>1, ScanResult DEF Idle
<1>2. CASE /\ op' = [op EXCEPT !.pc = "recheck", !.todo = Plan(verified, op.days),
                               !.print = Snapshot]
           /\ op.kind = "background" \/ Plan(verified, op.days) = op.shown.eligible
  <2>1. /\ op'.pc = "recheck" /\ op'.kind = op.kind /\ op'.want = op.want
        /\ op'.old = op.old /\ op'.confirmed = op.confirmed /\ op'.days = op.days
        /\ op'.shown = op.shown /\ op'.target = op.target
        /\ op'.todo = Plan(verified, op.days) /\ op'.print = Snapshot
    BY <1>2 DEF OpRecords
  <2> QED  BY <1>2, <2>1, ScanResult
<1> QED  BY <1>1, <1>2, ScanResult

-----------------------------------------------------------------------------
(* The initial states *)

(* It holds when the manager is created. *)
LEMMA InitHolds == Init => CInv
<1> SUFFICES ASSUME Init  PROVE CInv
  OBVIOUS
<1> USE DEF Init
<1>0. Idle.kind = "idle" /\ Idle.pc = "idle" /\ Idle.target = 0
  BY DEF Idle
<1>1. /\ ledger \in [Streams -> Rows] /\ remote \in [Streams -> SUBSET Objects]
      /\ age \in [Streams -> 0 .. 2]
  <2>1. 1 \in 0 .. MaxTx
    BY BackupBounds
  <2>2. SealedRow(1) \in Rows /\ Upto(1) \subseteq Objects
    BY <2>1, UptoType DEF SealedRow, Rows
  <2> QED  BY <2>2, EmptyTypes
<1>2. DiskTypeOK
  BY <1>1 DEF DiskTypeOK
<1>3. ProcessTypeOK
  <2>1. 0 \in 0 .. MaxStreams /\ 0 \in 0 .. MaxTx
    BY BackupBounds
  <2>2. pins \subseteq Streams /\ sync \in {"none", "identity", "init", "capture", "upload"}
    OBVIOUS
  <2> QED  BY <2>1, <2>2, EmptyTypes DEF ProcessTypeOK
<1>3a. GhostTypeOK
  BY DEF GhostTypeOK
<1>4. PathInv /\ HandleInv /\ FenceInv /\ CleanupInv /\ DayInv
  BY <1>0 DEF PathInv, HandleInv, FenceInv, CleanupInv, DayInv
<1>5. StreamInv
  BY <1>0 DEF StreamInv
<1>6. \A s \in Streams : /\ State(s) \in {"none", "sealed"}
                         /\ State(s) = "sealed" => Restorable(s)
                         /\ remote[s] # {} => Identity \in remote[s]
  <2> TAKE s \in Streams
  <2>1. CASE s <= Initially
    BY <2>1 DEF State, SealedRow, Restorable, Upto
  <2>2. CASE ~(s <= Initially)
    BY <2>2 DEF State, NoRow
  <2> QED  BY <2>1, <2>2
<1>7. SealedIsComplete /\ IdentityBrackets /\ DeletedMeansGone /\ DeletingInv /\ PinnedKept
  BY <1>6 DEF SealedIsComplete, IdentityBrackets, DeletedMeansGone, DeletingInv, PinnedKept,
     Current
<1> QED  BY <1>2, <1>3, <1>3a, <1>4, <1>5, <1>7 DEF CInv

-----------------------------------------------------------------------------
(* Every step keeps it *)

(* Operations keep to their own steps. *)
LEMMA PathKept ==
    ASSUME CInv, [Next]_vars
    PROVE  PathInv'
<1> USE DEF CInv, PathInv, ProcessTypeOK, OpRecords, Idle, FenceInv
<1>1. CASE UNCHANGED <<op>>
  BY <1>1 DEF PathInv
<1>2. ASSUME (UNCHANGED vars \/ WorkerSyncs \/ EnsureIdentity \/ Initialize \/ Capture \/
             UploadNext \/ AppWrites \/ (\E s \in Streams : Stage(s)) \/ (\E p \in
             Policies : ConfigureRetention(p)) \/ PreviewExpires \/ (\E month \in BOOLEAN
             : TimePasses(month)) \/ (\E s \in Streams, o \in Objects : Damage(s, o)))
      PROVE  UNCHANGED <<op>>
  BY <1>2 DEF vars, disk, replica, syncing, flags, ghosts, WorkerSyncs, EnsureIdentity,
    Initialize, Capture, UploadNext, AppWrites, Stage, ConfigureRetention,
    PreviewExpires, TimePasses, Damage, Keep
<1>3. CASE SyncConfirms
  BY <1>3 DEF SyncConfirms, disk, replica, syncing, flags, ghosts, SyncReturns, End,
    Goto, Missing
<1>4. CASE SyncFails
  BY <1>4 DEF SyncFails, disk, replica, syncing, flags, ghosts, SyncReturns, End, Goto
<1>5. CASE StreamStarts
  BY <1>5 DEF StreamStarts, disk, replica, syncing, flags, ghosts, Unused, AddRow, End
<1>6. CASE StartFails
  BY <1>6 DEF StartFails, disk, replica, syncing, flags, ghosts, Unused, AddRow, Goto,
    End
<1>7. CASE JoinWorker
  BY <1>7 DEF JoinWorker, disk, replica, syncing, flags, ghosts, Goto, AfterStop,
    FirstStep, HandleInv
<1>8. CASE Drain
  BY <1>8 DEF Drain, disk, replica, syncing, flags, ghosts, Goto, Captured
<1>9. CASE DrainFails
  BY <1>9 DEF DrainFails, disk, replica, syncing, flags, ghosts, End, Resumes
<1>10. CASE FinalConfirms
  BY <1>10 DEF FinalConfirms, disk, replica, syncing, flags, ghosts, Missing
<1>11. CASE FinalFails
  BY <1>11 DEF FinalFails, disk, replica, syncing, flags, ghosts, Goto
<1>12. CASE CloseHandles
  BY <1>12 DEF CloseHandles, disk, replica, syncing, flags, ghosts, DropHandles
<1>13. CASE CloseHandlesFails
  BY <1>13 DEF CloseHandlesFails, disk, replica, syncing, flags, ghosts, DropHandles,
    Resumes, Goto, End
<1>14. CASE Seal
  BY <1>14 DEF Seal, disk, replica, syncing, flags, ghosts, Goto, AfterStop, SealedRow
<1>15. ASSUME NEW want \in BOOLEAN, Configure(want)  PROVE PathInv'
  BY <1>15 DEF Configure, disk, replica, syncing, flags, ghosts, Usable, Free
<1>16. CASE PauseForRestore
  BY <1>16 DEF PauseForRestore, disk, replica, syncing, flags, ghosts, Free
<1>17. CASE BackupNow
  BY <1>17 DEF BackupNow, disk, replica, syncing, flags, ghosts, Begin, Usable, Free
<1>18. CASE Close
  BY <1>18 DEF Close, disk, replica, syncing, flags, ghosts, Begin, Free
<1>19. CASE Save
  <2>1. op.pc = "save" /\ (op' = Idle \/ (op' = [op EXCEPT !.pc = "start"] /\ op.want))
    BY <1>19, Zenon DEF Save, Goto, End
  <2> QED  BY <2>1
<1>20. CASE SaveFails
  BY <1>20 DEF SaveFails, disk, replica, syncing, flags, ghosts, Goto, End
<1>21. CASE Undo
  BY <1>21 DEF Undo, disk, replica, syncing, flags, ghosts, Persist, Goto, End
<1>22. CASE UndoFails
  BY <1>22 DEF UndoFails, disk, replica, syncing, flags, ghosts, End
<1>23. CASE CloseReturns
  BY <1>23 DEF CloseReturns, disk, replica, syncing, flags, ghosts, End
<1>24. CASE Restart
  BY <1>24 DEF Restart, disk, replica, syncing, flags, ghosts
<1>25. ASSUME NEW days \in Periods, PreviewRetention(days)  PROVE PathInv'
  BY <1>25 DEF PreviewRetention, disk, replica, syncing, flags, ghosts, Free, Usable
<1>26. CASE ExecuteRetention
  BY <1>26 DEF ExecuteRetention, disk, replica, syncing, flags, ghosts, Free, Usable,
    Approved
<1>27. CASE BackgroundCleanup
  BY <1>27 DEF BackgroundCleanup, disk, replica, syncing, flags, ghosts, Free, Usable,
    Attempt
<1>28. ASSUME NEW verified \in SUBSET Streams, ScanSucceeds(verified)  PROVE PathInv'
  <2>1. op \in OpRecords
    BY DEF CInv, ProcessTypeOK
  <2> QED  BY <1>28, <2>1, ScanFields DEF disk, replica, syncing, ghosts
<1>29. CASE CleanupStops
  BY <1>29 DEF CleanupStops, disk, replica, syncing, flags, ghosts, End
<1>30. CASE Recheck
  BY <1>30 DEF Recheck, disk, replica, syncing, flags, ghosts, Goto, RecheckPasses
<1>31. ASSUME NEW s \in Streams, MarkDeleting(s)  PROVE PathInv'
  BY <1>31 DEF MarkDeleting, disk, replica, syncing, flags, ghosts, Target
<1>32. ASSUME NEW answered \in BOOLEAN, DeleteObject(answered)  PROVE PathInv'
  BY <1>32 DEF DeleteObject, disk, replica, syncing, flags, ghosts, Target, Remaining,
    Keep, End
<1>33. CASE Tombstone
  BY <1>33 DEF Tombstone, disk, replica, syncing, flags, ghosts, Target, Remaining, Gone
<1>34. CASE FinishCleanup
  BY <1>34 DEF FinishCleanup, disk, replica, syncing, flags, ghosts, Target, End
<1> QED  BY <1>1, <1>2, <1>3, <1>4, <1>5, <1>6, <1>7, <1>8, <1>9, <1>10, <1>11, <1>12,
  <1>13, <1>14, <1>15, <1>16, <1>17, <1>18, <1>19, <1>20, <1>21, <1>22, <1>23, <1>24,
  <1>25, <1>26, <1>27, <1>28, <1>29, <1>30, <1>31, <1>32, <1>33, <1>34 DEF Next

(* A pause is durable, and what undoes a configuration is no newer than it. *)
LEMMA FenceKept ==
    ASSUME CInv, [Next]_vars
    PROVE  FenceInv'
<1> USE DEF CInv, PathInv, HandleInv, FenceInv, ProcessTypeOK, OpRecords, Idle
<1>1. CASE UNCHANGED <<fenced, enabled, op>>
  BY <1>1 DEF FenceInv
<1>2. ASSUME (UNCHANGED vars \/ WorkerSyncs \/ EnsureIdentity \/ Initialize \/ Capture \/
             UploadNext \/ AppWrites \/ (\E s \in Streams : Stage(s)) \/ (\E p \in
             Policies : ConfigureRetention(p)) \/ PreviewExpires \/ (\E month \in BOOLEAN
             : TimePasses(month)) \/ (\E s \in Streams, o \in Objects : Damage(s, o)))
      PROVE  UNCHANGED <<fenced, enabled, op>>
  BY <1>2 DEF vars, disk, replica, syncing, flags, ghosts, WorkerSyncs, EnsureIdentity,
    Initialize, Capture, UploadNext, AppWrites, Stage, ConfigureRetention,
    PreviewExpires, TimePasses, Damage, Keep
<1>3. CASE SyncConfirms
  BY <1>3 DEF SyncConfirms, disk, replica, syncing, flags, ghosts, SyncReturns, End,
    Goto, Missing
<1>4. CASE SyncFails
  BY <1>4 DEF SyncFails, disk, replica, syncing, flags, ghosts, SyncReturns, End, Goto
<1>5. CASE StreamStarts
  BY <1>5 DEF StreamStarts, disk, replica, syncing, flags, ghosts, Unused, AddRow, End
<1>6. CASE StartFails
  BY <1>6 DEF StartFails, disk, replica, syncing, flags, ghosts, Unused, AddRow, Goto,
    End
<1>7. CASE JoinWorker
  BY <1>7 DEF JoinWorker, disk, replica, syncing, flags, ghosts, Goto, AfterStop,
    FirstStep
<1>8. CASE Drain
  BY <1>8 DEF Drain, disk, replica, syncing, flags, ghosts, Goto, Captured
<1>9. CASE DrainFails
  BY <1>9 DEF DrainFails, disk, replica, syncing, flags, ghosts, End, Resumes
<1>10. CASE FinalConfirms
  BY <1>10 DEF FinalConfirms, disk, replica, syncing, flags, ghosts, Missing
<1>11. CASE FinalFails
  BY <1>11 DEF FinalFails, disk, replica, syncing, flags, ghosts, Goto
<1>12. CASE CloseHandles
  BY <1>12 DEF CloseHandles, disk, replica, syncing, flags, ghosts, DropHandles
<1>13. CASE CloseHandlesFails
  BY <1>13 DEF CloseHandlesFails, disk, replica, syncing, flags, ghosts, DropHandles,
    Resumes, Goto, End
<1>14. CASE Seal
  BY <1>14 DEF Seal, disk, replica, syncing, flags, ghosts, Goto, AfterStop, SealedRow
<1>15. ASSUME NEW want \in BOOLEAN, Configure(want)  PROVE FenceInv'
  BY <1>15 DEF Configure, disk, replica, syncing, flags, ghosts, Usable, Free
<1>16. CASE PauseForRestore
  BY <1>16 DEF PauseForRestore, disk, replica, syncing, flags, ghosts, Free
<1>17. CASE BackupNow
  BY <1>17 DEF BackupNow, disk, replica, syncing, flags, ghosts, Begin, Usable, Free
<1>18. CASE Close
  BY <1>18 DEF Close, disk, replica, syncing, flags, ghosts, Begin, Free
<1>19. CASE Save
  BY <1>19 DEF Save, disk, replica, syncing, flags, ghosts, Persist, Goto, End
<1>20. CASE SaveFails
  BY <1>20 DEF SaveFails, disk, replica, syncing, flags, ghosts, Goto, End
<1>21. CASE Undo
  BY <1>21 DEF Undo, disk, replica, syncing, flags, ghosts, Persist, Goto, End
<1>22. CASE UndoFails
  BY <1>22 DEF UndoFails, disk, replica, syncing, flags, ghosts, End
<1>23. CASE CloseReturns
  BY <1>23 DEF CloseReturns, disk, replica, syncing, flags, ghosts, End
<1>24. CASE Restart
  BY <1>24 DEF Restart, disk, replica, syncing, flags, ghosts
<1>25. ASSUME NEW days \in Periods, PreviewRetention(days)  PROVE FenceInv'
  BY <1>25 DEF PreviewRetention, disk, replica, syncing, flags, ghosts, Free, Usable
<1>26. CASE ExecuteRetention
  BY <1>26 DEF ExecuteRetention, disk, replica, syncing, flags, ghosts, Free, Usable,
    Approved
<1>27. CASE BackgroundCleanup
  BY <1>27 DEF BackgroundCleanup, disk, replica, syncing, flags, ghosts, Free, Usable,
    Attempt
<1>28. ASSUME NEW verified \in SUBSET Streams, ScanSucceeds(verified)  PROVE FenceInv'
  <2>1. op \in OpRecords
    BY DEF CInv, ProcessTypeOK
  <2> QED  BY <1>28, <2>1, ScanFields DEF disk, replica, syncing, ghosts
<1>29. CASE CleanupStops
  BY <1>29 DEF CleanupStops, disk, replica, syncing, flags, ghosts, End
<1>30. CASE Recheck
  BY <1>30 DEF Recheck, disk, replica, syncing, flags, ghosts, Goto, RecheckPasses
<1>31. ASSUME NEW s \in Streams, MarkDeleting(s)  PROVE FenceInv'
  BY <1>31 DEF MarkDeleting, disk, replica, syncing, flags, ghosts, Target
<1>32. ASSUME NEW answered \in BOOLEAN, DeleteObject(answered)  PROVE FenceInv'
  BY <1>32 DEF DeleteObject, disk, replica, syncing, flags, ghosts, Target, Remaining,
    Keep, End
<1>33. CASE Tombstone
  BY <1>33 DEF Tombstone, disk, replica, syncing, flags, ghosts, Target, Remaining, Gone
<1>34. CASE FinishCleanup
  BY <1>34 DEF FinishCleanup, disk, replica, syncing, flags, ghosts, Target, End
<1> QED  BY <1>1, <1>2, <1>3, <1>4, <1>5, <1>6, <1>7, <1>8, <1>9, <1>10, <1>11, <1>12,
  <1>13, <1>14, <1>15, <1>16, <1>17, <1>18, <1>19, <1>20, <1>21, <1>22, <1>23, <1>24,
  <1>25, <1>26, <1>27, <1>28, <1>29, <1>30, <1>31, <1>32, <1>33, <1>34 DEF Next

(* A background cleanup is preceded by its durable attempt. *)
LEMMA DayKept ==
    ASSUME CInv, [Next]_vars
    PROVE  DayInv'
<1> USE DEF CInv, DayInv
<1>1. CASE UNCHANGED <<runs, attempted>>
  BY <1>1 DEF DayInv
<1>2. ASSUME (UNCHANGED vars \/ WorkerSyncs \/ EnsureIdentity \/ Initialize \/ Capture \/
             UploadNext \/ SyncConfirms \/ SyncFails \/ AppWrites \/ StreamStarts \/
             StartFails \/ JoinWorker \/ Drain \/ DrainFails \/ FinalConfirms \/
             FinalFails \/ CloseHandles \/ CloseHandlesFails \/ Seal \/ (\E want \in
             BOOLEAN : Configure(want)) \/ PauseForRestore \/ BackupNow \/ Close \/ Save
             \/ SaveFails \/ Undo \/ UndoFails \/ CloseReturns \/ (\E s \in Streams :
             Stage(s)) \/ Restart \/ (\E p \in Policies : ConfigureRetention(p)) \/ (\E
             days \in Periods : PreviewRetention(days)) \/ (\E verified \in SUBSET
             Streams : ScanSucceeds(verified)) \/ CleanupStops \/ Recheck \/ (\E s \in
             Streams : MarkDeleting(s)) \/ (\E answered \in BOOLEAN :
             DeleteObject(answered)) \/ Tombstone \/ FinishCleanup \/ PreviewExpires \/
             (\E s \in Streams, o \in Objects : Damage(s, o)))
      PROVE  UNCHANGED <<runs, attempted>>
  BY <1>2 DEF vars, disk, replica, syncing, flags, ghosts, WorkerSyncs, EnsureIdentity,
    Initialize, Capture, UploadNext, SyncConfirms, SyncFails, AppWrites, StreamStarts,
    StartFails, JoinWorker, Drain, DrainFails, FinalConfirms, FinalFails, CloseHandles,
    CloseHandlesFails, Seal, Configure, PauseForRestore, BackupNow, Close, Save,
    SaveFails, Undo, UndoFails, CloseReturns, Stage, Restart, ConfigureRetention,
    PreviewRetention, ScanSucceeds, CleanupStops, Recheck, MarkDeleting, DeleteObject,
    Tombstone, FinishCleanup, PreviewExpires, Damage, Keep, Persist, DropHandles,
    SyncReturns, End, Goto
<1>3. CASE ExecuteRetention
  BY <1>3 DEF ExecuteRetention, disk, replica, syncing, flags, ghosts, Free, Usable,
    Approved
<1>4. CASE BackgroundCleanup
  BY <1>4 DEF BackgroundCleanup, disk, replica, syncing, flags, ghosts, Free, Usable,
    Attempt
<1>5. ASSUME NEW month \in BOOLEAN, TimePasses(month)  PROVE DayInv'
  BY <1>5 DEF TimePasses, disk, replica, syncing, flags, ghosts, Free
<1> QED  BY <1>1, <1>2, <1>3, <1>4, <1>5 DEF Next

(* The control database and storage keep their types. *)
LEMMA DiskTyped ==
    ASSUME CInv, [Next]_vars
    PROVE  DiskTypeOK'
<1> USE DEF CInv, DiskTypeOK
<1>1. CASE UNCHANGED <<enabled, policy, attempted, ledger, age, remote>>
  BY <1>1 DEF DiskTypeOK
<1>2. ASSUME (UNCHANGED vars \/ WorkerSyncs \/ Initialize \/ Capture \/ SyncConfirms \/
             SyncFails \/ AppWrites \/ JoinWorker \/ Drain \/ DrainFails \/ FinalConfirms
             \/ FinalFails \/ CloseHandles \/ CloseHandlesFails \/ (\E want \in BOOLEAN :
             Configure(want)) \/ PauseForRestore \/ BackupNow \/ Close \/ SaveFails \/
             UndoFails \/ CloseReturns \/ (\E s \in Streams : Stage(s)) \/ Restart \/ (\E
             days \in Periods : PreviewRetention(days)) \/ (\E verified \in SUBSET
             Streams : ScanSucceeds(verified)) \/ CleanupStops \/ Recheck \/
             FinishCleanup \/ PreviewExpires)
      PROVE  UNCHANGED <<enabled, policy, attempted, ledger, age, remote>>
  BY <1>2 DEF vars, disk, replica, syncing, flags, ghosts, WorkerSyncs, Initialize,
    Capture, SyncConfirms, SyncFails, AppWrites, JoinWorker, Drain, DrainFails,
    FinalConfirms, FinalFails, CloseHandles, CloseHandlesFails, Configure,
    PauseForRestore, BackupNow, Close, SaveFails, UndoFails, CloseReturns, Stage,
    Restart, PreviewRetention, ScanSucceeds, CleanupStops, Recheck, FinishCleanup,
    PreviewExpires, DropHandles, SyncReturns, End, Goto
<1>3. CASE EnsureIdentity
  <2>1. Identity \in Objects
    BY BackupBounds DEF Identity, Objects
  <2> QED  BY <1>3, <2>1 DEF EnsureIdentity, Upload, Keep
<1>4. CASE UploadNext
  BY <1>4, MissingMin DEF UploadNext, disk, replica, syncing, flags, ghosts, Upload,
    Keep, Missing
<1>5. CASE StreamStarts
  <2>1. PICK s \in Streams :
          ledger' = [ledger EXCEPT ![s] = [NoRow EXCEPT !.state = "open"]]
    BY <1>5, StartsOne
  <2>2. [NoRow EXCEPT !.state = "open"] \in Rows
    BY EmptyTypes DEF Rows
  <2>3. ledger' \in [Streams -> Rows]
    BY <2>1, <2>2
  <2> QED  BY <1>5, <2>3 DEF StreamStarts
<1>6. CASE StartFails
  <2>1. [NoRow EXCEPT !.state = "open"] \in Rows
    BY EmptyTypes DEF Rows
  <2>2. ledger' \in [Streams -> Rows]
    BY <1>6, <2>1, StartsOneAtMost
  <2> QED  BY <1>6, <2>2 DEF StartFails
<1>7. CASE Seal
  BY <1>7 DEF Seal, disk, replica, syncing, flags, ghosts, Goto, AfterStop, SealedRow,
    Rows, ProcessTypeOK
<1>8. CASE Save
  BY <1>8 DEF Save, disk, replica, syncing, flags, ghosts, Persist, Goto, End,
    ProcessTypeOK, OpRecords
<1>9. CASE Undo
  BY <1>9 DEF Undo, disk, replica, syncing, flags, ghosts, Persist, Goto, End,
    ProcessTypeOK, OpRecords
<1>10. ASSUME NEW p \in Policies, ConfigureRetention(p)  PROVE DiskTypeOK'
  BY <1>10 DEF ConfigureRetention, disk, replica, syncing, flags, ghosts, Free, Usable
<1>11. CASE ExecuteRetention
  BY <1>11 DEF ExecuteRetention, disk, replica, syncing, flags, ghosts, Free, Usable,
    Approved
<1>12. CASE BackgroundCleanup
  BY <1>12 DEF BackgroundCleanup, disk, replica, syncing, flags, ghosts, Free, Usable,
    Attempt
<1>13. ASSUME NEW s \in Streams, MarkDeleting(s)  PROVE DiskTypeOK'
  BY <1>13 DEF MarkDeleting, disk, replica, syncing, flags, ghosts, Target, Rows
<1>14. ASSUME NEW answered \in BOOLEAN, DeleteObject(answered)  PROVE DiskTypeOK'
  BY <1>14 DEF DeleteObject, disk, replica, syncing, flags, ghosts, Target, Remaining,
    Keep, End
<1>15. CASE Tombstone
  BY <1>15 DEF Tombstone, disk, replica, syncing, flags, ghosts, Target, Remaining,
    Gone, Rows
<1>16. ASSUME NEW month \in BOOLEAN, TimePasses(month)  PROVE DiskTypeOK'
  <2>1. age' \in [Streams -> 0 .. 2]
    <3>1. age' = age \/ age' = [s \in Streams |-> IF State(s) \in {"sealed", "deleting"} /\ age[s] < 2
                                      THEN age[s] + 1 ELSE age[s]]
      BY <1>16 DEF TimePasses
    <3> QED  BY <3>1
  <2> QED  BY <1>16, <2>1 DEF TimePasses
<1>17. ASSUME NEW s \in Streams, NEW o \in Objects, Damage(s, o)  PROVE DiskTypeOK'
  BY <1>17 DEF Damage, disk, replica, syncing, flags, ghosts, Keep
<1> QED  BY <1>1, <1>2, <1>3, <1>4, <1>5, <1>6, <1>7, <1>8, <1>9, <1>10, <1>11, <1>12,
  <1>13, <1>14, <1>15, <1>16, <1>17 DEF Next

(* The ghosts keep their types. *)
LEMMA GhostTyped ==
    ASSUME CInv, [Next]_vars
    PROVE  GhostTypeOK'
<1> USE DEF CInv, GhostTypeOK
<1>1. CASE UNCHANGED <<missed, damaged, fenced, runs>>
  BY <1>1 DEF GhostTypeOK
<1>2. ASSUME (UNCHANGED vars \/ WorkerSyncs \/ EnsureIdentity \/ Initialize \/ Capture \/
             UploadNext \/ SyncConfirms \/ SyncFails \/ AppWrites \/ StreamStarts \/
             StartFails \/ JoinWorker \/ Drain \/ DrainFails \/ FinalConfirms \/
             FinalFails \/ Seal \/ (\E want \in BOOLEAN : Configure(want)) \/
             PauseForRestore \/ BackupNow \/ Close \/ SaveFails \/ Undo \/ UndoFails \/
             CloseReturns \/ (\E s \in Streams : Stage(s)) \/ Restart \/ (\E p \in
             Policies : ConfigureRetention(p)) \/ (\E days \in Periods :
             PreviewRetention(days)) \/ ExecuteRetention \/ (\E verified \in SUBSET
             Streams : ScanSucceeds(verified)) \/ CleanupStops \/ Recheck \/ (\E s \in
             Streams : MarkDeleting(s)) \/ (\E answered \in BOOLEAN :
             DeleteObject(answered)) \/ Tombstone \/ FinishCleanup \/ PreviewExpires)
      PROVE  UNCHANGED <<missed, damaged, fenced, runs>>
  BY <1>2 DEF vars, disk, replica, syncing, flags, ghosts, WorkerSyncs, EnsureIdentity,
    Initialize, Capture, UploadNext, SyncConfirms, SyncFails, AppWrites, StreamStarts,
    StartFails, JoinWorker, Drain, DrainFails, FinalConfirms, FinalFails, Seal,
    Configure, PauseForRestore, BackupNow, Close, SaveFails, Undo, UndoFails,
    CloseReturns, Stage, Restart, ConfigureRetention, PreviewRetention,
    ExecuteRetention, ScanSucceeds, CleanupStops, Recheck, MarkDeleting, DeleteObject,
    Tombstone, FinishCleanup, PreviewExpires, Keep, Persist, SyncReturns, End, Goto
<1>3. CASE CloseHandles
  BY <1>3 DEF CloseHandles, disk, replica, syncing, flags, ghosts, DropHandles,
    HandleInv
<1>4. CASE CloseHandlesFails
  BY <1>4 DEF CloseHandlesFails, disk, replica, syncing, flags, ghosts, DropHandles,
    Resumes, Goto, End, HandleInv
<1>5. CASE Save
  BY <1>5 DEF Save, disk, replica, syncing, flags, ghosts, Persist, Goto, End,
    ProcessTypeOK, OpRecords
<1>6. CASE BackgroundCleanup
  BY <1>6 DEF BackgroundCleanup, disk, replica, syncing, flags, ghosts, Free, Usable,
    Attempt
<1>7. ASSUME NEW month \in BOOLEAN, TimePasses(month)  PROVE GhostTypeOK'
  BY <1>7 DEF TimePasses, disk, replica, syncing, flags, ghosts, Free
<1>8. ASSUME NEW s \in Streams, NEW o \in Objects, Damage(s, o)  PROVE GhostTypeOK'
  BY <1>8 DEF Damage, disk, replica, syncing, flags, ghosts, Keep
<1> QED  BY <1>1, <1>2, <1>3, <1>4, <1>5, <1>6, <1>7, <1>8 DEF Next

(* A preview holds a plan and the inventory the scan read. *)
LEMMA PreviewTyped ==
    ASSUME CInv, [Next]_vars
    PROVE  PreviewTypeOK'
<1> USE DEF CInv, ProcessTypeOK, PreviewTypeOK
<1>1. CASE UNCHANGED <<preview>>
  BY <1>1 DEF PreviewTypeOK
<1>2. ASSUME (UNCHANGED vars \/ WorkerSyncs \/ EnsureIdentity \/ Initialize \/ Capture \/
             UploadNext \/ SyncConfirms \/ SyncFails \/ AppWrites \/ StreamStarts \/
             StartFails \/ JoinWorker \/ Drain \/ DrainFails \/ FinalConfirms \/
             FinalFails \/ CloseHandles \/ CloseHandlesFails \/ Seal \/ PauseForRestore
             \/ BackupNow \/ Close \/ Save \/ SaveFails \/ Undo \/ UndoFails \/
             CloseReturns \/ (\E days \in Periods : PreviewRetention(days)) \/
             BackgroundCleanup \/ CleanupStops \/ Recheck \/ (\E s \in Streams :
             MarkDeleting(s)) \/ (\E answered \in BOOLEAN : DeleteObject(answered)) \/
             Tombstone \/ FinishCleanup \/ (\E s \in Streams, o \in Objects : Damage(s,
             o)))
      PROVE  UNCHANGED <<preview>>
  BY <1>2 DEF vars, disk, replica, syncing, flags, ghosts, WorkerSyncs, EnsureIdentity,
    Initialize, Capture, UploadNext, SyncConfirms, SyncFails, AppWrites, StreamStarts,
    StartFails, JoinWorker, Drain, DrainFails, FinalConfirms, FinalFails, CloseHandles,
    CloseHandlesFails, Seal, PauseForRestore, BackupNow, Close, Save, SaveFails, Undo,
    UndoFails, CloseReturns, PreviewRetention, BackgroundCleanup, CleanupStops, Recheck,
    MarkDeleting, DeleteObject, Tombstone, FinishCleanup, Damage, Keep, Persist,
    DropHandles, SyncReturns, End, Goto, Attempt
<1>3. ASSUME NEW want \in BOOLEAN, Configure(want)  PROVE PreviewTypeOK'
  BY <1>3, EmptyTypes DEF Configure, disk, replica, syncing, flags, ghosts, Usable, Free
<1>4. ASSUME NEW s \in Streams, Stage(s)  PROVE PreviewTypeOK'
  BY <1>4, EmptyTypes DEF Stage, disk, replica, syncing, flags, ghosts, Stageable, Free
<1>5. CASE Restart
  BY <1>5, EmptyTypes DEF Restart, disk, replica, syncing, flags, ghosts
<1>6. ASSUME NEW p \in Policies, ConfigureRetention(p)  PROVE PreviewTypeOK'
  BY <1>6, EmptyTypes DEF ConfigureRetention, disk, replica, syncing, flags, ghosts,
    Free, Usable
<1>7. CASE ExecuteRetention
  BY <1>7, EmptyTypes DEF ExecuteRetention, disk, replica, syncing, flags, ghosts, Free,
    Usable, Approved
<1>8. ASSUME NEW verified \in SUBSET Streams, ScanSucceeds(verified)  PROVE PreviewTypeOK'
  <2>1. op.days \in Periods \union {0}
    BY DEF CInv, ProcessTypeOK, OpRecords
  <2>2. Snapshot \in Prints
    BY SnapshotType DEF CInv
  <2>3. Plan(verified, op.days) \subseteq Streams
    BY DEF Plan
  <2>4. [days |-> op.days, eligible |-> Plan(verified, op.days), print |-> Snapshot] \in Previews
    BY <2>1, <2>2, <2>3 DEF Previews
  <2> QED  BY <1>8, <2>4, ScanResult
<1>9. CASE PreviewExpires
  BY <1>9, EmptyTypes DEF PreviewExpires, disk, replica, syncing, flags, ghosts
<1>10. ASSUME NEW month \in BOOLEAN, TimePasses(month)  PROVE PreviewTypeOK'
  BY <1>10, EmptyTypes DEF TimePasses, disk, replica, syncing, flags, ghosts, Free
<1> QED  BY <1>1, <1>2, <1>3, <1>4, <1>5, <1>6, <1>7, <1>8, <1>9, <1>10 DEF Next

(* An operation keeps its record. *)
LEMMA OpTyped ==
    ASSUME CInv, [Next]_vars
    PROVE  OpTypeOK'
<1> USE DEF CInv, ProcessTypeOK, OpTypeOK, OpRecords, Kinds, Labels
<1>1. CASE UNCHANGED <<op>>
  BY <1>1 DEF OpTypeOK
<1>2. ASSUME (UNCHANGED vars \/ WorkerSyncs \/ EnsureIdentity \/ Initialize \/ Capture \/
             UploadNext \/ AppWrites \/ (\E s \in Streams : Stage(s)) \/ (\E p \in
             Policies : ConfigureRetention(p)) \/ PreviewExpires \/ (\E month \in BOOLEAN
             : TimePasses(month)) \/ (\E s \in Streams, o \in Objects : Damage(s, o)))
      PROVE  UNCHANGED <<op>>
  BY <1>2 DEF vars, disk, replica, syncing, flags, ghosts, WorkerSyncs, EnsureIdentity,
    Initialize, Capture, UploadNext, AppWrites, Stage, ConfigureRetention,
    PreviewExpires, TimePasses, Damage, Keep
<1>3. CASE SyncConfirms
  BY <1>3, EmptyTypes DEF SyncConfirms, disk, replica, syncing, flags, ghosts,
    SyncReturns, End, Goto, Missing
<1>4. CASE SyncFails
  BY <1>4, EmptyTypes DEF SyncFails, disk, replica, syncing, flags, ghosts, SyncReturns,
    End, Goto
<1>5. CASE StreamStarts
  BY <1>5, EmptyTypes DEF StreamStarts, disk, replica, syncing, flags, ghosts, Unused,
    AddRow, End
<1>6. CASE StartFails
  BY <1>6, EmptyTypes DEF StartFails, disk, replica, syncing, flags, ghosts, Unused,
    AddRow, Goto, End
<1>7. CASE JoinWorker
  BY <1>7, EmptyTypes DEF JoinWorker, disk, replica, syncing, flags, ghosts, Goto,
    AfterStop, FirstStep
<1>8. CASE Drain
  BY <1>8, EmptyTypes DEF Drain, disk, replica, syncing, flags, ghosts, Goto, Captured
<1>9. CASE DrainFails
  BY <1>9, EmptyTypes DEF DrainFails, disk, replica, syncing, flags, ghosts, End,
    Resumes
<1>10. CASE FinalConfirms
  BY <1>10, EmptyTypes DEF FinalConfirms, disk, replica, syncing, flags, ghosts, Missing
<1>11. CASE FinalFails
  BY <1>11, EmptyTypes DEF FinalFails, disk, replica, syncing, flags, ghosts, Goto
<1>12. CASE CloseHandles
  BY <1>12, EmptyTypes DEF CloseHandles, disk, replica, syncing, flags, ghosts,
    DropHandles
<1>13. CASE CloseHandlesFails
  BY <1>13, EmptyTypes DEF CloseHandlesFails, disk, replica, syncing, flags, ghosts,
    DropHandles, Resumes, Goto, End
<1>14. CASE Seal
  BY <1>14, EmptyTypes DEF Seal, disk, replica, syncing, flags, ghosts, Goto, AfterStop,
    SealedRow
<1>15. ASSUME NEW want \in BOOLEAN, Configure(want)  PROVE OpTypeOK'
  BY <1>15, EmptyTypes DEF Configure, disk, replica, syncing, flags, ghosts, Usable,
    Free, DiskTypeOK
<1>16. CASE PauseForRestore
  BY <1>16, EmptyTypes DEF PauseForRestore, disk, replica, syncing, flags, ghosts, Free,
    DiskTypeOK
<1>17. CASE BackupNow
  BY <1>17, EmptyTypes DEF BackupNow, disk, replica, syncing, flags, ghosts, Begin,
    Usable, Free
<1>18. CASE Close
  BY <1>18, EmptyTypes DEF Close, disk, replica, syncing, flags, ghosts, Begin, Free
<1>19. CASE Save
  BY <1>19, EmptyTypes DEF Save, disk, replica, syncing, flags, ghosts, Persist, Goto,
    End
<1>20. CASE SaveFails
  BY <1>20, EmptyTypes DEF SaveFails, disk, replica, syncing, flags, ghosts, Goto, End
<1>21. CASE Undo
  BY <1>21, EmptyTypes DEF Undo, disk, replica, syncing, flags, ghosts, Persist, Goto,
    End
<1>22. CASE UndoFails
  BY <1>22, EmptyTypes DEF UndoFails, disk, replica, syncing, flags, ghosts, End
<1>23. CASE CloseReturns
  BY <1>23, EmptyTypes DEF CloseReturns, disk, replica, syncing, flags, ghosts, End
<1>24. CASE Restart
  BY <1>24, EmptyTypes DEF Restart, disk, replica, syncing, flags, ghosts
<1>25. ASSUME NEW days \in Periods, PreviewRetention(days)  PROVE OpTypeOK'
  BY <1>25, EmptyTypes DEF PreviewRetention, disk, replica, syncing, flags, ghosts,
    Free, Usable
<1>26. CASE ExecuteRetention
  <2>1. policy.days \in Periods \union {0} /\ preview \in Previews
    BY DEF DiskTypeOK, Policies
  <2>2. [Idle EXCEPT !.kind = "execute", !.pc = "scan", !.days = policy.days, !.shown = preview]
            \in OpRecords
    BY <2>1, EmptyTypes
  <2> HIDE DEF OpRecords
  <2> QED  BY <1>26, <2>2, Zenon DEF ExecuteRetention
<1>27. CASE BackgroundCleanup
  BY <1>27, EmptyTypes DEF BackgroundCleanup, disk, replica, syncing, flags, ghosts,
    Free, Usable, Attempt, DiskTypeOK, Policies
<1>28. ASSUME NEW verified \in SUBSET Streams, ScanSucceeds(verified)  PROVE OpTypeOK'
  <2>1. Snapshot \in Prints
    BY SnapshotType
  <2>2. Plan(verified, op.days) \subseteq Streams
    BY DEF Plan
  <2>3. [op EXCEPT !.pc = "recheck", !.todo = Plan(verified, op.days), !.print = Snapshot]
            \in OpRecords
    BY <2>1, <2>2
  <2>4. op' = Idle \/ op' = [op EXCEPT !.pc = "recheck", !.todo = Plan(verified, op.days),
                                      !.print = Snapshot]
    BY <1>28, ScanResult
  <2> HIDE DEF OpRecords
  <2> QED  BY <2>3, <2>4, EmptyTypes
<1>29. CASE CleanupStops
  BY <1>29, EmptyTypes DEF CleanupStops, disk, replica, syncing, flags, ghosts, End
<1>30. CASE Recheck
  BY <1>30, EmptyTypes DEF Recheck, disk, replica, syncing, flags, ghosts, Goto,
    RecheckPasses
<1>31. ASSUME NEW s \in Streams, MarkDeleting(s)  PROVE OpTypeOK'
  <2>1. s \in 0 .. MaxStreams
    BY BackupBounds DEF Streams
  <2> QED  BY <1>31, <2>1, EmptyTypes DEF MarkDeleting
<1>32. ASSUME NEW answered \in BOOLEAN, DeleteObject(answered)  PROVE OpTypeOK'
  BY <1>32, EmptyTypes DEF DeleteObject, disk, replica, syncing, flags, ghosts, Target,
    Remaining, Keep, End
<1>33. CASE Tombstone
  <2>1. 0 \in 0 .. MaxStreams
    BY BackupBounds
  <2> QED  BY <1>33, <2>1, EmptyTypes DEF Tombstone, Target
<1>34. CASE FinishCleanup
  BY <1>34, EmptyTypes DEF FinishCleanup, disk, replica, syncing, flags, ghosts, Target,
    End
<1> QED  BY <1>1, <1>2, <1>3, <1>4, <1>5, <1>6, <1>7, <1>8, <1>9, <1>10, <1>11, <1>12,
  <1>13, <1>14, <1>15, <1>16, <1>17, <1>18, <1>19, <1>20, <1>21, <1>22, <1>23, <1>24,
  <1>25, <1>26, <1>27, <1>28, <1>29, <1>30, <1>31, <1>32, <1>33, <1>34 DEF Next

(* The replica, its worker and the flags keep their types. *)
LEMMA ReplicaTyped ==
    ASSUME CInv, [Next]_vars
    PROVE  ReplicaTypeOK'
<1> USE DEF CInv, ProcessTypeOK, ReplicaTypeOK
<1>1. CASE UNCHANGED <<open, identity, initialized, local, dirty, lastSync, worker, sync, pins, closed, paused>>
  BY <1>1 DEF ReplicaTypeOK
<1>2. ASSUME (UNCHANGED vars \/ UploadNext \/ FinalConfirms \/ FinalFails \/ Seal \/ (\E
             want \in BOOLEAN : Configure(want)) \/ PauseForRestore \/ BackupNow \/ Close
             \/ SaveFails \/ Undo \/ UndoFails \/ (\E p \in Policies :
             ConfigureRetention(p)) \/ (\E days \in Periods : PreviewRetention(days)) \/
             ExecuteRetention \/ BackgroundCleanup \/ (\E verified \in SUBSET Streams :
             ScanSucceeds(verified)) \/ CleanupStops \/ Recheck \/ (\E s \in Streams :
             MarkDeleting(s)) \/ (\E answered \in BOOLEAN : DeleteObject(answered)) \/
             Tombstone \/ FinishCleanup \/ PreviewExpires \/ (\E month \in BOOLEAN :
             TimePasses(month)) \/ (\E s \in Streams, o \in Objects : Damage(s, o)))
      PROVE  UNCHANGED <<open, identity, initialized, local, dirty, lastSync, worker, sync, pins, closed, paused>>
  BY <1>2 DEF vars, disk, replica, syncing, flags, ghosts, UploadNext, FinalConfirms,
    FinalFails, Seal, Configure, PauseForRestore, BackupNow, Close, SaveFails, Undo,
    UndoFails, ConfigureRetention, PreviewRetention, ExecuteRetention,
    BackgroundCleanup, ScanSucceeds, CleanupStops, Recheck, MarkDeleting, DeleteObject,
    Tombstone, FinishCleanup, PreviewExpires, TimePasses, Damage, Keep, Persist, Attempt
<1>3. CASE WorkerSyncs
  BY <1>3 DEF WorkerSyncs, disk, replica, syncing, flags, ghosts, FirstStep
<1>4. CASE EnsureIdentity
  BY <1>4 DEF EnsureIdentity, disk, replica, syncing, flags, ghosts, Upload, Keep
<1>5. CASE Initialize
  <2>1. 0 \in 0 .. MaxStreams /\ 0 \in 0 .. MaxTx /\ 1 \in 0 .. MaxTx
    BY BackupBounds
  <2> QED  BY <1>5, <2>1 DEF Initialize, flags
<1>6. CASE Capture
  <2>1. Captured \in 0 .. MaxTx
    BY BackupBounds DEF Captured, StreamInv
  <2> QED  BY <1>6, <2>1 DEF Capture, flags
<1>7. CASE SyncConfirms
  BY <1>7 DEF SyncConfirms, disk, replica, syncing, flags, ghosts, SyncReturns, End,
    Goto, Missing
<1>8. CASE SyncFails
  BY <1>8 DEF SyncFails, disk, replica, syncing, flags, ghosts, SyncReturns, End, Goto
<1>9. CASE AppWrites
  BY <1>9 DEF AppWrites, disk, replica, syncing, flags, ghosts, Drained
<1>10. CASE StreamStarts
  <2>1. 0 \in 0 .. MaxStreams /\ 0 \in 0 .. MaxTx /\ 1 \in 0 .. MaxTx
    BY BackupBounds
  <2>2. identity' \in 0 .. MaxStreams
    BY <1>10, StartsOne, BackupBounds DEF Streams
  <2> QED  BY <1>10, <2>1, <2>2 DEF StreamStarts, flags
<1>11. CASE StartFails
  BY <1>11, BackupBounds, StartsOneAtMost DEF StartFails, disk, replica, syncing, flags,
    ghosts, Unused, AddRow, Goto, End, Streams
<1>12. CASE JoinWorker
  BY <1>12 DEF JoinWorker, disk, replica, syncing, flags, ghosts, Goto, AfterStop,
    FirstStep
<1>13. CASE Drain
  <2>1. Captured \in 0 .. MaxTx
    BY BackupBounds DEF Captured, StreamInv
  <2> QED  BY <1>13, <2>1 DEF Drain, syncing, flags
<1>14. CASE DrainFails
  BY <1>14 DEF DrainFails, disk, replica, syncing, flags, ghosts, End, Resumes
<1>15. CASE CloseHandles
  BY <1>15 DEF CloseHandles, disk, replica, syncing, flags, ghosts, DropHandles
<1>16. CASE CloseHandlesFails
  BY <1>16 DEF CloseHandlesFails, disk, replica, syncing, flags, ghosts, DropHandles,
    Resumes, Goto, End
<1>17. CASE Save
  BY <1>17 DEF Save, disk, replica, syncing, flags, ghosts, Persist, Goto, End
<1>18. CASE CloseReturns
  BY <1>18 DEF CloseReturns, disk, replica, syncing, flags, ghosts, End
<1>19. ASSUME NEW s \in Streams, Stage(s)  PROVE ReplicaTypeOK'
  BY <1>19 DEF Stage, disk, replica, syncing, flags, ghosts, Stageable, Free
<1>20. CASE Restart
  <2>1. 0 \in 0 .. MaxStreams /\ 0 \in 0 .. MaxTx /\ 1 \in 0 .. MaxTx
    BY BackupBounds
  <2> QED  BY <1>20, <2>1 DEF Restart
<1> QED  BY <1>1, <1>2, <1>3, <1>4, <1>5, <1>6, <1>7, <1>8, <1>9, <1>10, <1>11, <1>12,
  <1>13, <1>14, <1>15, <1>16, <1>17, <1>18, <1>19, <1>20 DEF Next

(* The process keeps its types. *)
LEMMA ProcessTyped ==
    ASSUME CInv, [Next]_vars
    PROVE  ProcessTypeOK'
BY PreviewTyped, OpTyped, ReplicaTyped DEF ProcessTypeOK, PreviewTypeOK, OpTypeOK, ReplicaTypeOK

(* A worker needs open handles, a sync needs the worker or the operation that waits
   for it, and the stream under way is the one whose row is open. *)
LEMMA HandleKept ==
    ASSUME CInv, [Next]_vars
    PROVE  HandleInv'
<1> USE DEF CInv, PathInv, HandleInv, ProcessTypeOK, DiskTypeOK, OpRecords, Idle, State
<1>1. CASE UNCHANGED <<open, enabled, identity, ledger, worker, sync, op>>
  BY <1>1 DEF HandleInv
<1>2. ASSUME (UNCHANGED vars \/ UploadNext \/ AppWrites \/ (\E s \in Streams : Stage(s))
             \/ (\E p \in Policies : ConfigureRetention(p)) \/ PreviewExpires \/ (\E
             month \in BOOLEAN : TimePasses(month)) \/ (\E s \in Streams, o \in Objects :
             Damage(s, o)))
      PROVE  UNCHANGED <<open, enabled, identity, ledger, worker, sync, op>>
  BY <1>2 DEF vars, disk, replica, syncing, flags, ghosts, UploadNext, AppWrites, Stage,
    ConfigureRetention, PreviewExpires, TimePasses, Damage, Keep
<1>3. CASE WorkerSyncs
  BY <1>3 DEF WorkerSyncs, disk, replica, syncing, flags, ghosts, FirstStep
<1>4. CASE EnsureIdentity
  BY <1>4 DEF EnsureIdentity, disk, replica, syncing, flags, ghosts, Upload, Keep
<1>5. CASE Initialize
  BY <1>5 DEF Initialize, disk, replica, syncing, flags, ghosts
<1>6. CASE Capture
  BY <1>6 DEF Capture, disk, replica, syncing, flags, ghosts, Captured
<1>7. CASE SyncConfirms
  <2>1. /\ sync' = "none"
        /\ \/ op.pc # "sync" /\ op' = op /\ worker' = worker
           \/ op.pc = "sync" /\ op' = Idle /\ worker' = TRUE
           \/ /\ op.pc = "sync" /\ op.kind # "backupNow" /\ worker' = worker
              /\ op' = [op EXCEPT !.pc = "drain"]
    BY <1>7, SyncResult DEF SyncConfirms
  <2>2. UNCHANGED <<open, enabled, identity, ledger>>
    BY <1>7 DEF SyncConfirms, disk, replica
  <2> QED  BY <2>1, <2>2
<1>8. CASE SyncFails
  <2>1. /\ sync' = "none"
        /\ \/ op.pc # "sync" /\ op' = op /\ worker' = worker
           \/ op.pc = "sync" /\ op' = Idle /\ worker' = TRUE
           \/ /\ op.pc = "sync" /\ op.kind # "backupNow" /\ worker' = worker
              /\ op' = [op EXCEPT !.pc = "drain"]
    BY <1>8, SyncResult DEF SyncFails
  <2>2. UNCHANGED <<open, enabled, identity, ledger>>
    BY <1>8 DEF SyncFails, disk, replica
  <2> QED  BY <2>1, <2>2
<1>9. CASE StreamStarts
  <2>1. PICK s \in Streams :
          /\ identity' = s
          /\ ledger' = [ledger EXCEPT ![s] = [NoRow EXCEPT !.state = "open"]]
    BY <1>9, StartsOne
  <2>2. ledger'[identity'].state = "open" /\ identity' \in Streams
    BY <2>1 DEF NoRow
  <2>3. op'.kind = "idle" /\ op'.pc = "idle"
    BY <1>9 DEF StreamStarts, End
  <2>4. op.pc \in {"start", "startOld"} /\ worker' /\ sync' = sync /\ enabled' = enabled /\ open'
    BY <1>9 DEF StreamStarts
  <2> QED  BY <2>2, <2>3, <2>4
<1>10. CASE StartFails
  BY <1>10, StartsOneAtMost DEF StartFails, disk, replica, syncing, flags, ghosts,
    Unused, AddRow, Goto, End, NoRow
<1>11. CASE JoinWorker
  BY <1>11 DEF JoinWorker, disk, replica, syncing, flags, ghosts, Goto, AfterStop,
    FirstStep
<1>12. CASE Drain
  BY <1>12 DEF Drain, disk, replica, syncing, flags, ghosts, Goto, Captured
<1>13. CASE DrainFails
  BY <1>13 DEF DrainFails, disk, replica, syncing, flags, ghosts, End, Resumes
<1>14. CASE FinalConfirms
  BY <1>14 DEF FinalConfirms, disk, replica, syncing, flags, ghosts, Missing
<1>15. CASE FinalFails
  BY <1>15 DEF FinalFails, disk, replica, syncing, flags, ghosts, Goto
<1>16. CASE CloseHandles
  BY <1>16 DEF CloseHandles, disk, replica, syncing, flags, ghosts, DropHandles
<1>17. CASE CloseHandlesFails
  <2>1. op.pc = "close" /\ ~open' /\ ~worker /\ sync = "none"
    BY <1>17 DEF CloseHandlesFails, DropHandles
  <2>2. op' = Idle \/ (op' = [op EXCEPT !.pc = "startOld"] /\ enabled)
    BY <1>17, Zenon DEF CloseHandlesFails, Goto, End
  <2>3. UNCHANGED <<enabled, worker, sync>>
    BY <1>17 DEF CloseHandlesFails, disk, syncing
  <2>4. op.kind \in {"configure", "pause", "close"}
    BY <2>1
  <2>5. CASE op' = Idle
    <3>1. op'.kind = "idle" /\ op'.pc = "idle"
      BY <2>5
    <3> QED  BY <2>1, <2>3, <3>1
  <2>6. CASE op' = [op EXCEPT !.pc = "startOld"] /\ enabled
    <3>1. op'.kind = op.kind /\ op'.pc = "startOld"
      BY <2>6
    <3> QED  BY <2>1, <2>3, <2>4, <2>6, <3>1
  <2> QED  BY <2>2, <2>5, <2>6
<1>18. CASE Seal
  BY <1>18 DEF Seal, disk, replica, syncing, flags, ghosts, Goto, AfterStop, SealedRow
<1>19. ASSUME NEW want \in BOOLEAN, Configure(want)  PROVE HandleInv'
  BY <1>19 DEF Configure, disk, replica, syncing, flags, ghosts, Usable, Free
<1>20. CASE PauseForRestore
  BY <1>20 DEF PauseForRestore, disk, replica, syncing, flags, ghosts, Free
<1>21. CASE BackupNow
  BY <1>21 DEF BackupNow, disk, replica, syncing, flags, ghosts, Begin, Usable, Free
<1>22. CASE Close
  BY <1>22 DEF Close, disk, replica, syncing, flags, ghosts, Begin, Free
<1>23. CASE Save
  BY <1>23 DEF Save, disk, replica, syncing, flags, ghosts, Persist, Goto, End
<1>24. CASE SaveFails
  BY <1>24 DEF SaveFails, disk, replica, syncing, flags, ghosts, Goto, End
<1>25. CASE Undo
  BY <1>25 DEF Undo, disk, replica, syncing, flags, ghosts, Persist, Goto, End
<1>26. CASE UndoFails
  BY <1>26 DEF UndoFails, disk, replica, syncing, flags, ghosts, End
<1>27. CASE CloseReturns
  BY <1>27 DEF CloseReturns, disk, replica, syncing, flags, ghosts, End
<1>28. CASE Restart
  BY <1>28 DEF Restart, disk, replica, syncing, flags, ghosts
<1>29. ASSUME NEW days \in Periods, PreviewRetention(days)  PROVE HandleInv'
  BY <1>29 DEF PreviewRetention, disk, replica, syncing, flags, ghosts, Free, Usable
<1>30. CASE ExecuteRetention
  BY <1>30 DEF ExecuteRetention, disk, replica, syncing, flags, ghosts, Free, Usable,
    Approved
<1>31. CASE BackgroundCleanup
  BY <1>31 DEF BackgroundCleanup, disk, replica, syncing, flags, ghosts, Free, Usable,
    Attempt
<1>32. ASSUME NEW verified \in SUBSET Streams, ScanSucceeds(verified)  PROVE HandleInv'
  <2>1. op \in OpRecords
    BY DEF CInv, ProcessTypeOK
  <2> QED  BY <1>32, <2>1, ScanFields DEF disk, replica, syncing, ghosts
<1>33. CASE CleanupStops
  BY <1>33 DEF CleanupStops, disk, replica, syncing, flags, ghosts, End
<1>34. CASE Recheck
  BY <1>34 DEF Recheck, disk, replica, syncing, flags, ghosts, Goto, RecheckPasses
<1>35. ASSUME NEW s \in Streams, MarkDeleting(s)  PROVE HandleInv'
  BY <1>35 DEF MarkDeleting, disk, replica, syncing, flags, ghosts, Target, Rows
<1>36. ASSUME NEW answered \in BOOLEAN, DeleteObject(answered)  PROVE HandleInv'
  BY <1>36 DEF DeleteObject, disk, replica, syncing, flags, ghosts, Target, Remaining,
    Keep, End
<1>37. CASE Tombstone
  BY <1>37 DEF Tombstone, disk, replica, syncing, flags, ghosts, Target, Remaining,
    Gone, Rows, CleanupInv
<1>38. CASE FinishCleanup
  BY <1>38 DEF FinishCleanup, disk, replica, syncing, flags, ghosts, Target, End
<1> QED  BY <1>1, <1>2, <1>3, <1>4, <1>5, <1>6, <1>7, <1>8, <1>9, <1>10, <1>11, <1>12,
  <1>13, <1>14, <1>15, <1>16, <1>17, <1>18, <1>19, <1>20, <1>21, <1>22, <1>23, <1>24,
  <1>25, <1>26, <1>27, <1>28, <1>29, <1>30, <1>31, <1>32, <1>33, <1>34, <1>35, <1>36,
  <1>37, <1>38 DEF Next

(* The cleanup deletes an object that is there, and the identity only when it is the
   last one. *)
LEMMA NextObjectIsIn ==
    ASSUME DiskTypeOK, Target \in Streams, Remaining # {}
    PROVE  /\ NextObject \in Remaining
           /\ Remaining # {Identity} => NextObject # Identity
<1>1. Remaining \in SUBSET Nat
  BY BackupBounds DEF Remaining, DiskTypeOK, Objects
<1>2. CASE Remaining = {Identity}
  BY <1>2 DEF NextObject
<1>3. CASE Remaining # {Identity}
  <2>1. Remaining \ {Identity} \in SUBSET Nat /\ Remaining \ {Identity} # {}
    BY <1>1, <1>3
  <2>2. Min(Remaining \ {Identity}) \in Remaining \ {Identity}
    BY <2>1, MinIsIn
  <2> QED  BY <1>3, <2>2 DEF NextObject
<1> QED  BY <1>2, <1>3

(* The stream a cleanup works on. *)
LEMMA TargetIsDeleting ==
    ASSUME CInv, Target # 0
    PROVE  Target \in Streams /\ State(Target) = "deleting" /\ Target \in op.todo
BY DEF CInv, CleanupInv, ProcessTypeOK, OpRecords, Target

(* What is captured of the stream under way, and what of it is in storage. *)
LEMMA StreamKept ==
    ASSUME CInv, [Next]_vars
    PROVE  StreamInv'
<1> USE DEF CInv, PathInv, HandleInv, StreamInv, ProcessTypeOK, DiskTypeOK, GhostTypeOK,
  OpRecords, Idle, State
<1>1. CASE UNCHANGED <<dirty, local, missed, ledger, open, identity, initialized, remote, sync, op>>
  BY <1>1 DEF StreamInv
<1>2. ASSUME (UNCHANGED vars \/ (\E s \in Streams : Stage(s)) \/ (\E p \in Policies :
             ConfigureRetention(p)) \/ PreviewExpires \/ (\E month \in BOOLEAN :
             TimePasses(month)))
      PROVE  UNCHANGED <<dirty, local, missed, ledger, open, identity, initialized, remote, sync, op>>
  BY <1>2 DEF vars, disk, replica, syncing, flags, ghosts, Stage, ConfigureRetention,
    PreviewExpires, TimePasses
<1>3. CASE WorkerSyncs
  BY <1>3 DEF WorkerSyncs, disk, replica, syncing, flags, ghosts, FirstStep
<1>4. CASE EnsureIdentity
  BY <1>4 DEF EnsureIdentity, disk, replica, syncing, flags, ghosts, Upload, Keep
<1>5. CASE Initialize
  BY <1>5 DEF Initialize, disk, replica, syncing, flags, ghosts
<1>6. CASE Capture
  BY <1>6 DEF Capture, disk, replica, syncing, flags, ghosts, Captured
<1>7. CASE UploadNext
  BY <1>7, MissingMin DEF UploadNext, disk, replica, syncing, flags, ghosts, Upload,
    Keep, Missing
<1>8. CASE SyncConfirms
  BY <1>8, SyncResult DEF SyncConfirms, disk, replica, syncing, flags, ghosts,
    SyncReturns, End, Goto, Missing
<1>9. CASE SyncFails
  BY <1>9, SyncResult DEF SyncFails, disk, replica, syncing, flags, ghosts, SyncReturns,
    End, Goto
<1>10. CASE AppWrites
  BY <1>10 DEF AppWrites, disk, replica, syncing, flags, ghosts, Drained
<1>11. CASE StreamStarts
  BY <1>11, StartsOne DEF StreamStarts, disk, replica, syncing, flags, ghosts, Unused,
    AddRow, End, NoRow
<1>12. CASE StartFails
  BY <1>12, StartsOneAtMost DEF StartFails, disk, replica, syncing, flags, ghosts,
    Unused, AddRow, Goto, End, NoRow
<1>13. CASE JoinWorker
  BY <1>13 DEF JoinWorker, disk, replica, syncing, flags, ghosts, Goto, AfterStop,
    FirstStep
<1>14. CASE Drain
  BY <1>14 DEF Drain, disk, replica, syncing, flags, ghosts, Goto, Captured
<1>15. CASE DrainFails
  BY <1>15 DEF DrainFails, disk, replica, syncing, flags, ghosts, End, Resumes
<1>16. CASE FinalConfirms
  BY <1>16 DEF FinalConfirms, disk, replica, syncing, flags, ghosts, Missing, Upto
<1>17. CASE FinalFails
  BY <1>17 DEF FinalFails, disk, replica, syncing, flags, ghosts, Goto
<1>18. CASE CloseHandles
  BY <1>18 DEF CloseHandles, disk, replica, syncing, flags, ghosts, DropHandles
<1>19. CASE CloseHandlesFails
  BY <1>19 DEF CloseHandlesFails, disk, replica, syncing, flags, ghosts, DropHandles,
    Resumes, Goto, End
<1>20. CASE Seal
  BY <1>20 DEF Seal, disk, replica, syncing, flags, ghosts, Goto, AfterStop, SealedRow
<1>21. ASSUME NEW want \in BOOLEAN, Configure(want)  PROVE StreamInv'
  BY <1>21 DEF Configure, disk, replica, syncing, flags, ghosts, Usable, Free
<1>22. CASE PauseForRestore
  BY <1>22 DEF PauseForRestore, disk, replica, syncing, flags, ghosts, Free
<1>23. CASE BackupNow
  BY <1>23 DEF BackupNow, disk, replica, syncing, flags, ghosts, Begin, Usable, Free
<1>24. CASE Close
  BY <1>24 DEF Close, disk, replica, syncing, flags, ghosts, Begin, Free
<1>25. CASE Save
  BY <1>25 DEF Save, disk, replica, syncing, flags, ghosts, Persist, Goto, End
<1>26. CASE SaveFails
  BY <1>26 DEF SaveFails, disk, replica, syncing, flags, ghosts, Goto, End
<1>27. CASE Undo
  BY <1>27 DEF Undo, disk, replica, syncing, flags, ghosts, Persist, Goto, End
<1>28. CASE UndoFails
  BY <1>28 DEF UndoFails, disk, replica, syncing, flags, ghosts, End
<1>29. CASE CloseReturns
  BY <1>29 DEF CloseReturns, disk, replica, syncing, flags, ghosts, End
<1>30. CASE Restart
  BY <1>30 DEF Restart, disk, replica, syncing, flags, ghosts
<1>31. ASSUME NEW days \in Periods, PreviewRetention(days)  PROVE StreamInv'
  BY <1>31 DEF PreviewRetention, disk, replica, syncing, flags, ghosts, Free, Usable
<1>32. CASE ExecuteRetention
  BY <1>32 DEF ExecuteRetention, disk, replica, syncing, flags, ghosts, Free, Usable,
    Approved
<1>33. CASE BackgroundCleanup
  BY <1>33 DEF BackgroundCleanup, disk, replica, syncing, flags, ghosts, Free, Usable,
    Attempt
<1>34. ASSUME NEW verified \in SUBSET Streams, ScanSucceeds(verified)  PROVE StreamInv'
  <2>1. op \in OpRecords
    BY DEF CInv, ProcessTypeOK
  <2> QED  BY <1>34, <2>1, ScanFields DEF disk, replica, syncing, ghosts
<1>35. CASE CleanupStops
  BY <1>35 DEF CleanupStops, disk, replica, syncing, flags, ghosts, End
<1>36. CASE Recheck
  BY <1>36 DEF Recheck, disk, replica, syncing, flags, ghosts, Goto, RecheckPasses
<1>37. ASSUME NEW s \in Streams, MarkDeleting(s)  PROVE StreamInv'
  BY <1>37 DEF MarkDeleting, disk, replica, syncing, flags, ghosts, Target, Rows
<1>38. ASSUME NEW answered \in BOOLEAN, DeleteObject(answered)  PROVE StreamInv'
  BY <1>38, TargetIsDeleting DEF DeleteObject, disk, replica, syncing, flags, ghosts,
    Target, Remaining, Keep, End
<1>39. CASE Tombstone
  BY <1>39 DEF Tombstone, disk, replica, syncing, flags, ghosts, Target, Remaining,
    Gone, Rows, CleanupInv
<1>40. CASE FinishCleanup
  BY <1>40 DEF FinishCleanup, disk, replica, syncing, flags, ghosts, Target, End
<1>41. ASSUME NEW s \in Streams, NEW o \in Objects, Damage(s, o)  PROVE StreamInv'
  BY <1>41 DEF Damage, disk, replica, syncing, flags, ghosts, Keep
<1> QED  BY <1>1, <1>2, <1>3, <1>4, <1>5, <1>6, <1>7, <1>8, <1>9, <1>10, <1>11, <1>12,
  <1>13, <1>14, <1>15, <1>16, <1>17, <1>18, <1>19, <1>20, <1>21, <1>22, <1>23, <1>24,
  <1>25, <1>26, <1>27, <1>28, <1>29, <1>30, <1>31, <1>32, <1>33, <1>34, <1>35, <1>36,
  <1>37, <1>38, <1>39, <1>40, <1>41 DEF Next

-----------------------------------------------------------------------------
(* Storage *)

(* A stream is sealed when it is complete, and stays so until it is marked. *)
LEMMA SealedKept ==
    ASSUME CInv, [Next]_vars
    PROVE  SealedIsComplete'
<1> USE DEF CInv, HandleInv, ProcessTypeOK, DiskTypeOK, GhostTypeOK, State,
  SealedIsComplete, Restorable, Current
<1>1. CASE UNCHANGED <<damaged, ledger, missed, remote, open, identity>>
  BY <1>1 DEF SealedIsComplete
<1>2. ASSUME (UNCHANGED vars \/ WorkerSyncs \/ Initialize \/ Capture \/ SyncConfirms \/
             SyncFails \/ AppWrites \/ JoinWorker \/ Drain \/ DrainFails \/ FinalConfirms
             \/ FinalFails \/ (\E want \in BOOLEAN : Configure(want)) \/ PauseForRestore
             \/ BackupNow \/ Close \/ Save \/ SaveFails \/ Undo \/ UndoFails \/
             CloseReturns \/ (\E s \in Streams : Stage(s)) \/ (\E p \in Policies :
             ConfigureRetention(p)) \/ (\E days \in Periods : PreviewRetention(days)) \/
             ExecuteRetention \/ BackgroundCleanup \/ (\E verified \in SUBSET Streams :
             ScanSucceeds(verified)) \/ CleanupStops \/ Recheck \/ FinishCleanup \/
             PreviewExpires \/ (\E month \in BOOLEAN : TimePasses(month)))
      PROVE  UNCHANGED <<damaged, ledger, missed, remote, open, identity>>
  BY <1>2 DEF vars, disk, replica, syncing, flags, ghosts, WorkerSyncs, Initialize,
    Capture, SyncConfirms, SyncFails, AppWrites, JoinWorker, Drain, DrainFails,
    FinalConfirms, FinalFails, Configure, PauseForRestore, BackupNow, Close, Save,
    SaveFails, Undo, UndoFails, CloseReturns, Stage, ConfigureRetention,
    PreviewRetention, ExecuteRetention, BackgroundCleanup, ScanSucceeds, CleanupStops,
    Recheck, FinishCleanup, PreviewExpires, TimePasses, Persist, SyncReturns, End, Goto,
    Attempt
<1>3. CASE EnsureIdentity
  BY <1>3 DEF EnsureIdentity, disk, replica, syncing, flags, ghosts, Upload, Keep
<1>4. CASE UploadNext
  BY <1>4 DEF UploadNext, disk, replica, syncing, flags, ghosts, Upload, Keep, Missing
<1>5. CASE StreamStarts
  BY <1>5, StartsOne DEF StreamStarts, disk, replica, syncing, flags, ghosts, Unused,
    AddRow, End, NoRow
<1>6. CASE StartFails
  BY <1>6, StartsOneAtMost DEF StartFails, disk, replica, syncing, flags, ghosts,
    Unused, AddRow, Goto, End, NoRow
<1>7. CASE CloseHandles
  BY <1>7 DEF CloseHandles, disk, replica, syncing, flags, ghosts, DropHandles
<1>8. CASE CloseHandlesFails
  BY <1>8 DEF CloseHandlesFails, disk, replica, syncing, flags, ghosts, DropHandles,
    Resumes, Goto, End
<1>9. CASE Seal
  BY <1>9 DEF Seal, disk, replica, syncing, flags, ghosts, Goto, AfterStop, SealedRow,
    StreamInv
<1>10. CASE Restart
  BY <1>10 DEF Restart, disk, replica, syncing, flags, ghosts
<1>11. ASSUME NEW s \in Streams, MarkDeleting(s)  PROVE SealedIsComplete'
  BY <1>11 DEF MarkDeleting, disk, replica, syncing, flags, ghosts, Target
<1>12. ASSUME NEW answered \in BOOLEAN, DeleteObject(answered)  PROVE SealedIsComplete'
  BY <1>12, TargetIsDeleting DEF DeleteObject, disk, replica, syncing, flags, ghosts,
    Target, Remaining, Keep, End
<1>13. CASE Tombstone
  BY <1>13, TargetIsDeleting DEF Tombstone, disk, replica, syncing, flags, ghosts,
    Target, Remaining, Gone
<1>14. ASSUME NEW s \in Streams, NEW o \in Objects, Damage(s, o)  PROVE SealedIsComplete'
  BY <1>14 DEF Damage, disk, replica, syncing, flags, ghosts, Keep
<1> QED  BY <1>1, <1>2, <1>3, <1>4, <1>5, <1>6, <1>7, <1>8, <1>9, <1>10, <1>11, <1>12,
  <1>13, <1>14 DEF Next

(* The identity is written first and deleted last. *)
LEMMA IdentityKept ==
    ASSUME CInv, [Next]_vars
    PROVE  IdentityBrackets'
<1> USE DEF CInv, HandleInv, ProcessTypeOK, DiskTypeOK, GhostTypeOK, State,
  IdentityBrackets
<1>1. CASE UNCHANGED <<damaged, remote>>
  BY <1>1 DEF IdentityBrackets
<1>2. ASSUME (UNCHANGED vars \/ WorkerSyncs \/ Initialize \/ Capture \/ SyncConfirms \/
             SyncFails \/ AppWrites \/ StreamStarts \/ StartFails \/ JoinWorker \/ Drain
             \/ DrainFails \/ FinalConfirms \/ FinalFails \/ CloseHandles \/
             CloseHandlesFails \/ Seal \/ (\E want \in BOOLEAN : Configure(want)) \/
             PauseForRestore \/ BackupNow \/ Close \/ Save \/ SaveFails \/ Undo \/
             UndoFails \/ CloseReturns \/ (\E s \in Streams : Stage(s)) \/ Restart \/ (\E
             p \in Policies : ConfigureRetention(p)) \/ (\E days \in Periods :
             PreviewRetention(days)) \/ ExecuteRetention \/ BackgroundCleanup \/ (\E
             verified \in SUBSET Streams : ScanSucceeds(verified)) \/ CleanupStops \/
             Recheck \/ (\E s \in Streams : MarkDeleting(s)) \/ Tombstone \/
             FinishCleanup \/ PreviewExpires \/ (\E month \in BOOLEAN :
             TimePasses(month)))
      PROVE  UNCHANGED <<damaged, remote>>
  BY <1>2 DEF vars, disk, replica, syncing, flags, ghosts, WorkerSyncs, Initialize,
    Capture, SyncConfirms, SyncFails, AppWrites, StreamStarts, StartFails, JoinWorker,
    Drain, DrainFails, FinalConfirms, FinalFails, CloseHandles, CloseHandlesFails, Seal,
    Configure, PauseForRestore, BackupNow, Close, Save, SaveFails, Undo, UndoFails,
    CloseReturns, Stage, Restart, ConfigureRetention, PreviewRetention,
    ExecuteRetention, BackgroundCleanup, ScanSucceeds, CleanupStops, Recheck,
    MarkDeleting, Tombstone, FinishCleanup, PreviewExpires, TimePasses, Persist,
    DropHandles, SyncReturns, End, Goto, Attempt
<1>3. CASE EnsureIdentity
  BY <1>3 DEF EnsureIdentity, disk, replica, syncing, flags, ghosts, Upload, Keep
<1>4. CASE UploadNext
  BY <1>4 DEF UploadNext, disk, replica, syncing, flags, ghosts, Upload, Keep, Missing,
    StreamInv
<1>5. ASSUME NEW answered \in BOOLEAN, DeleteObject(answered)  PROVE IdentityBrackets'
  BY <1>5, TargetIsDeleting, NextObjectIsIn DEF DeleteObject, disk, replica, syncing,
    flags, ghosts, Target, Remaining, Keep, End
<1>6. ASSUME NEW s \in Streams, NEW o \in Objects, Damage(s, o)  PROVE IdentityBrackets'
  BY <1>6 DEF Damage, disk, replica, syncing, flags, ghosts, Keep
<1> QED  BY <1>1, <1>2, <1>3, <1>4, <1>5, <1>6 DEF Next

(* Deletion stays within the manifest and ends with an empty stream. *)
LEMMA GoneKept ==
    ASSUME CInv, [Next]_vars
    PROVE  DeletedMeansGone'
<1> USE DEF CInv, HandleInv, ProcessTypeOK, DiskTypeOK, GhostTypeOK, State,
  DeletedMeansGone
<1>1. CASE UNCHANGED <<ledger, remote>>
  BY <1>1 DEF DeletedMeansGone
<1>2. ASSUME (UNCHANGED vars \/ WorkerSyncs \/ Initialize \/ Capture \/ SyncConfirms \/
             SyncFails \/ AppWrites \/ JoinWorker \/ Drain \/ DrainFails \/ FinalConfirms
             \/ FinalFails \/ CloseHandles \/ CloseHandlesFails \/ (\E want \in BOOLEAN :
             Configure(want)) \/ PauseForRestore \/ BackupNow \/ Close \/ Save \/
             SaveFails \/ Undo \/ UndoFails \/ CloseReturns \/ (\E s \in Streams :
             Stage(s)) \/ Restart \/ (\E p \in Policies : ConfigureRetention(p)) \/ (\E
             days \in Periods : PreviewRetention(days)) \/ ExecuteRetention \/
             BackgroundCleanup \/ (\E verified \in SUBSET Streams :
             ScanSucceeds(verified)) \/ CleanupStops \/ Recheck \/ FinishCleanup \/
             PreviewExpires \/ (\E month \in BOOLEAN : TimePasses(month)))
      PROVE  UNCHANGED <<ledger, remote>>
  BY <1>2 DEF vars, disk, replica, syncing, flags, ghosts, WorkerSyncs, Initialize,
    Capture, SyncConfirms, SyncFails, AppWrites, JoinWorker, Drain, DrainFails,
    FinalConfirms, FinalFails, CloseHandles, CloseHandlesFails, Configure,
    PauseForRestore, BackupNow, Close, Save, SaveFails, Undo, UndoFails, CloseReturns,
    Stage, Restart, ConfigureRetention, PreviewRetention, ExecuteRetention,
    BackgroundCleanup, ScanSucceeds, CleanupStops, Recheck, FinishCleanup,
    PreviewExpires, TimePasses, Persist, DropHandles, SyncReturns, End, Goto, Attempt
<1>3. CASE EnsureIdentity
  BY <1>3 DEF EnsureIdentity, disk, replica, syncing, flags, ghosts, Upload, Keep
<1>4. CASE UploadNext
  BY <1>4 DEF UploadNext, disk, replica, syncing, flags, ghosts, Upload, Keep, Missing
<1>5. CASE StreamStarts
  BY <1>5, StartsOne DEF StreamStarts, disk, replica, syncing, flags, ghosts, Unused,
    AddRow, End, NoRow
<1>6. CASE StartFails
  BY <1>6, StartsOneAtMost DEF StartFails, disk, replica, syncing, flags, ghosts,
    Unused, AddRow, Goto, End, NoRow
<1>7. CASE Seal
  BY <1>7 DEF Seal, disk, replica, syncing, flags, ghosts, Goto, AfterStop, SealedRow,
    StreamInv
<1>8. ASSUME NEW s \in Streams, MarkDeleting(s)  PROVE DeletedMeansGone'
  BY <1>8 DEF MarkDeleting, disk, replica, syncing, flags, ghosts, Target
<1>9. ASSUME NEW answered \in BOOLEAN, DeleteObject(answered)  PROVE DeletedMeansGone'
  BY <1>9, TargetIsDeleting, NextObjectIsIn DEF DeleteObject, disk, replica, syncing,
    flags, ghosts, Target, Remaining, Keep, End
<1>10. CASE Tombstone
  BY <1>10, TargetIsDeleting DEF Tombstone, disk, replica, syncing, flags, ghosts,
    Target, Remaining, Gone
<1>11. ASSUME NEW s \in Streams, NEW o \in Objects, Damage(s, o)  PROVE DeletedMeansGone'
  BY <1>11 DEF Damage, disk, replica, syncing, flags, ghosts, Keep
<1> QED  BY <1>1, <1>2, <1>3, <1>4, <1>5, <1>6, <1>7, <1>8, <1>9, <1>10, <1>11 DEF Next

(* Staging and marking exclude each other. *)
LEMMA PinsKept ==
    ASSUME CInv, [Next]_vars
    PROVE  PinnedKept'
<1> USE DEF CInv, HandleInv, ProcessTypeOK, DiskTypeOK, GhostTypeOK, State, PinnedKept
<1>1. CASE UNCHANGED <<pins, ledger>>
  BY <1>1 DEF PinnedKept
<1>2. ASSUME (UNCHANGED vars \/ WorkerSyncs \/ EnsureIdentity \/ Initialize \/ Capture \/
             UploadNext \/ SyncConfirms \/ SyncFails \/ AppWrites \/ JoinWorker \/ Drain
             \/ DrainFails \/ FinalConfirms \/ FinalFails \/ CloseHandles \/
             CloseHandlesFails \/ (\E want \in BOOLEAN : Configure(want)) \/
             PauseForRestore \/ BackupNow \/ Close \/ Save \/ SaveFails \/ Undo \/
             UndoFails \/ CloseReturns \/ (\E p \in Policies : ConfigureRetention(p)) \/
             (\E days \in Periods : PreviewRetention(days)) \/ ExecuteRetention \/
             BackgroundCleanup \/ (\E verified \in SUBSET Streams :
             ScanSucceeds(verified)) \/ CleanupStops \/ Recheck \/ (\E answered \in
             BOOLEAN : DeleteObject(answered)) \/ FinishCleanup \/ PreviewExpires \/ (\E
             month \in BOOLEAN : TimePasses(month)) \/ (\E s \in Streams, o \in Objects :
             Damage(s, o)))
      PROVE  UNCHANGED <<pins, ledger>>
  BY <1>2 DEF vars, disk, replica, syncing, flags, ghosts, WorkerSyncs, EnsureIdentity,
    Initialize, Capture, UploadNext, SyncConfirms, SyncFails, AppWrites, JoinWorker,
    Drain, DrainFails, FinalConfirms, FinalFails, CloseHandles, CloseHandlesFails,
    Configure, PauseForRestore, BackupNow, Close, Save, SaveFails, Undo, UndoFails,
    CloseReturns, ConfigureRetention, PreviewRetention, ExecuteRetention,
    BackgroundCleanup, ScanSucceeds, CleanupStops, Recheck, DeleteObject, FinishCleanup,
    PreviewExpires, TimePasses, Damage, Keep, Persist, DropHandles, SyncReturns, End,
    Goto, Attempt
<1>3. CASE StreamStarts
  BY <1>3, StartsOne DEF StreamStarts, disk, replica, syncing, flags, ghosts, Unused,
    AddRow, End, NoRow
<1>4. CASE StartFails
  BY <1>4, StartsOneAtMost DEF StartFails, disk, replica, syncing, flags, ghosts,
    Unused, AddRow, Goto, End, NoRow
<1>5. CASE Seal
  BY <1>5 DEF Seal, disk, replica, syncing, flags, ghosts, Goto, AfterStop, SealedRow
<1>6. ASSUME NEW s \in Streams, Stage(s)  PROVE PinnedKept'
  BY <1>6 DEF Stage, disk, replica, syncing, flags, ghosts, Stageable, Free
<1>7. CASE Restart
  BY <1>7 DEF Restart, disk, replica, syncing, flags, ghosts
<1>8. ASSUME NEW s \in Streams, MarkDeleting(s)  PROVE PinnedKept'
  BY <1>8 DEF MarkDeleting, disk, replica, syncing, flags, ghosts, Target
<1>9. CASE Tombstone
  BY <1>9, TargetIsDeleting DEF Tombstone, disk, replica, syncing, flags, ghosts,
    Target, Remaining, Gone
<1> QED  BY <1>1, <1>2, <1>3, <1>4, <1>5, <1>6, <1>7, <1>8, <1>9 DEF Next

(* Two streams outlive the one that is marked. *)
LEMMA DeletingKept ==
    ASSUME CInv, [Next]_vars
    PROVE  DeletingInv'
<1> USE DEF CInv, HandleInv, ProcessTypeOK, DiskTypeOK, GhostTypeOK, State, DeletingInv
<1>1. CASE UNCHANGED <<ledger>>
  BY <1>1 DEF DeletingInv
<1>2. ASSUME (UNCHANGED vars \/ WorkerSyncs \/ EnsureIdentity \/ Initialize \/ Capture \/
             UploadNext \/ SyncConfirms \/ SyncFails \/ AppWrites \/ JoinWorker \/ Drain
             \/ DrainFails \/ FinalConfirms \/ FinalFails \/ CloseHandles \/
             CloseHandlesFails \/ (\E want \in BOOLEAN : Configure(want)) \/
             PauseForRestore \/ BackupNow \/ Close \/ Save \/ SaveFails \/ Undo \/
             UndoFails \/ CloseReturns \/ (\E s \in Streams : Stage(s)) \/ Restart \/ (\E
             p \in Policies : ConfigureRetention(p)) \/ (\E days \in Periods :
             PreviewRetention(days)) \/ ExecuteRetention \/ BackgroundCleanup \/ (\E
             verified \in SUBSET Streams : ScanSucceeds(verified)) \/ CleanupStops \/
             Recheck \/ (\E answered \in BOOLEAN : DeleteObject(answered)) \/
             FinishCleanup \/ PreviewExpires \/ (\E month \in BOOLEAN :
             TimePasses(month)) \/ (\E s \in Streams, o \in Objects : Damage(s, o)))
      PROVE  UNCHANGED <<ledger>>
  BY <1>2 DEF vars, disk, replica, syncing, flags, ghosts, WorkerSyncs, EnsureIdentity,
    Initialize, Capture, UploadNext, SyncConfirms, SyncFails, AppWrites, JoinWorker,
    Drain, DrainFails, FinalConfirms, FinalFails, CloseHandles, CloseHandlesFails,
    Configure, PauseForRestore, BackupNow, Close, Save, SaveFails, Undo, UndoFails,
    CloseReturns, Stage, Restart, ConfigureRetention, PreviewRetention,
    ExecuteRetention, BackgroundCleanup, ScanSucceeds, CleanupStops, Recheck,
    DeleteObject, FinishCleanup, PreviewExpires, TimePasses, Damage, Keep, Persist,
    DropHandles, SyncReturns, End, Goto, Attempt
<1>3. CASE StreamStarts
  <2>1. PICK s \in Streams :
          /\ State(s) = "none"
          /\ ledger' = [ledger EXCEPT ![s] = [NoRow EXCEPT !.state = "open"]]
    BY <1>3, StartsOne
  <2>2. /\ ledger'[s].state = "open"
        /\ \A t \in Streams \ {s} : ledger'[t] = ledger[t]
    BY <2>1 DEF NoRow
  <2> QED  BY <2>1, <2>2
<1>4. CASE StartFails
  BY <1>4, StartsOneAtMost DEF StartFails, disk, replica, syncing, flags, ghosts,
    Unused, AddRow, Goto, End, NoRow
<1>5. CASE Seal
  BY <1>5 DEF Seal, disk, replica, syncing, flags, ghosts, Goto, AfterStop, SealedRow,
    StreamInv
<1>6. ASSUME NEW s \in Streams, MarkDeleting(s)  PROVE DeletingInv'
  <2>1. s \in op.todo /\ op.pc = "delete"
    BY <1>6 DEF MarkDeleting
  <2>2. PICK x, y \in Streams :
          /\ x # y /\ x \notin op.todo /\ y \notin op.todo
          /\ State(x) = "sealed" /\ State(y) = "sealed" /\ s < x /\ s < y
    BY <2>1 DEF CleanupInv, PlanFine, Survives
  <2>3. ASSUME NEW t \in Streams, t # s  PROVE ledger'[t] = ledger[t]
    BY <1>6, <2>3 DEF MarkDeleting
  <2>4. ledger'[x].state = "sealed" /\ ledger'[y].state = "sealed"
    BY <2>1, <2>2, <2>3
  <2>5. ASSUME NEW t \in Streams, ledger'[t].state = "deleting"
        PROVE  \E u, v \in Streams : /\ u # v /\ t < u /\ t < v
                                     /\ ledger'[u].state = "sealed" /\ ledger'[v].state = "sealed"
    <3>1. CASE t = s
      BY <2>2, <2>4, <3>1
    <3>2. CASE t # s
      <4>1. PICK u, v \in Streams : /\ u # v /\ t < u /\ t < v
                                    /\ State(u) = "sealed" /\ State(v) = "sealed"
        BY <2>3, <2>5, <3>2
      <4>2. CASE u # s /\ v # s
        BY <2>3, <4>1, <4>2
      <4>3. CASE u = s \/ v = s
        <5>1. t < s /\ t \in Int /\ s \in Int /\ x \in Int /\ y \in Int
          BY <4>1, <4>3 DEF Streams
        <5>2. t < x /\ t < y
          BY <2>2, <5>1
        <5> QED  BY <2>2, <2>4, <5>2
      <4> QED  BY <4>2, <4>3
    <3> QED  BY <3>1, <3>2
  <2> QED  BY <2>5
<1>7. CASE Tombstone
  BY <1>7, TargetIsDeleting DEF Tombstone, disk, replica, syncing, flags, ghosts,
    Target, Remaining, Gone
<1> QED  BY <1>1, <1>2, <1>3, <1>4, <1>5, <1>6, <1>7 DEF Next

-----------------------------------------------------------------------------
(* The cleanup *)

(* Two different sealed streams are not both newer than one of the newest two. *)
LEMMA NewestIsNewest ==
    ASSUME NEW x \in NewestSealed, NEW u \in Streams, NEW v \in Streams,
           State(u) = "sealed", ~Current(u), State(v) = "sealed", ~Current(v), u > x, v > x
    PROVE  u = v
<1>1. PICK S : S = {s \in Streams : State(s) = "sealed" /\ ~Current(s)}
  OBVIOUS
<1>2. x \in S /\ Cardinality({t \in S : t > x}) < 2
  BY <1>1 DEF NewestSealed
<1>3. PICK above : above = {t \in S : t > x}
  OBVIOUS
<1>4. above \in SUBSET Streams
  BY <1>1, <1>3
<1>5. IsFiniteSet(above) /\ Cardinality(above) \in Nat
  BY <1>4, StreamsFinite, FS_CardinalityType
<1>6. u \in above /\ v \in above
  BY <1>1, <1>3
<1>7. ~(Cardinality(above) >= 2)
  BY <1>2, <1>3, <1>5
<1> QED  BY <1>5, <1>6, <1>7, TwoMembers

(* What the scan plans to delete is older than two streams that were restored. *)
LEMMA PlanIsOld ==
    ASSUME CInv, NEW verified \in SUBSET Streams, NEW days,
           verified \subseteq {s \in NewestSealed : Restorable(s)}, Plan(verified, days) # {}
    PROVE  \E x, y \in verified :
              /\ x # y
              /\ \A s \in Plan(verified, days) : s < x /\ s < y
<1>1. Ready(verified)
  BY DEF Plan, Eligible
<1>2. PICK x, y \in verified : x # y
  BY <1>1, StreamsFinite, TwoMembers DEF Ready
<1>3. \A s \in Streams : State(s) = "sealed" => ~Current(s)
  BY DEF CInv, HandleInv, Current
<1>4. \A s \in NewestSealed : s \in Streams /\ State(s) = "sealed"
  BY DEF NewestSealed
<1>5. Streams \subseteq Int
  BY DEF Streams
<1>6. ASSUME NEW s \in Plan(verified, days), NEW a \in verified, NEW b \in verified, a # b
      PROVE  s < a
  <2>1. s \in Streams /\ State(s) \in {"sealed", "deleting"} /\ s \notin verified
    BY DEF Plan, Eligible
  <2>2. /\ a \in NewestSealed /\ b \in NewestSealed /\ a \in Int /\ b \in Int /\ s \in Int
        /\ a \in Streams /\ b \in Streams /\ State(a) = "sealed" /\ State(b) = "sealed"
    BY <1>4, <1>5, <2>1
  <2>3. s # a /\ s # b
    BY <2>1
  <2>4. SUFFICES ASSUME a < s  PROVE FALSE
    BY <2>2, <2>3
  <2>5. CASE State(s) = "sealed"
    <3>1. CASE a < b
      BY <1>3, <2>1, <2>2, <2>3, <2>4, <2>5, <3>1, NewestIsNewest
    <3>2. CASE b < a
      <4>1. b < s
        BY <2>2, <2>4, <3>2
      <4> QED  BY <1>3, <2>1, <2>2, <2>3, <2>4, <2>5, <3>2, <4>1, NewestIsNewest
    <3> QED  BY <1>6, <2>2, <3>1, <3>2
  <2>6. CASE State(s) = "deleting"
    <3>1. PICK u, v \in Streams : /\ u # v /\ s < u /\ s < v
                                  /\ State(u) = "sealed" /\ State(v) = "sealed"
      BY <2>1, <2>6 DEF CInv, DeletingInv
    <3>2. u \in Int /\ v \in Int
      BY <1>5
    <3>3. a < u /\ a < v
      BY <2>2, <2>4, <3>1, <3>2
    <3> QED  BY <1>3, <2>2, <3>1, <3>3, NewestIsNewest
  <2> QED  BY <2>1, <2>5, <2>6
<1> QED  BY <1>2, <1>6

(* The plan of a cleanup leaves two streams that can be restored, newer than
   everything it deletes. *)
LEMMA CleanupKept ==
    ASSUME CInv, [Next]_vars
    PROVE  CleanupInv'
<1> USE DEF CInv, PathInv, HandleInv, ProcessTypeOK, DiskTypeOK, OpRecords, State
<1>1. CASE UNCHANGED <<op, ledger, remote>>
  BY <1>1 DEF CleanupInv, PlanFine, Survives
<1>2. ASSUME (UNCHANGED vars \/ WorkerSyncs \/ Initialize \/ Capture \/ AppWrites \/ (\E
             s \in Streams : Stage(s)) \/ (\E p \in Policies : ConfigureRetention(p)) \/
             PreviewExpires \/ (\E month \in BOOLEAN : TimePasses(month)))
      PROVE  UNCHANGED <<op, ledger, remote>>
  BY <1>2 DEF vars, disk, replica, syncing, flags, ghosts, WorkerSyncs, Initialize,
    Capture, AppWrites, Stage, ConfigureRetention, PreviewExpires, TimePasses
<1>3. CASE EnsureIdentity
  <2>1. \A s \in Streams : remote[s] \subseteq remote'[s]
    BY <1>3 DEF EnsureIdentity, Upload
  <2>2. ledger' = ledger /\ op' = op
    BY <1>3 DEF EnsureIdentity, Keep
  <2>3. \A x \in Streams : Survives(x, ledger, remote) => Survives(x, ledger', remote')
    BY <2>1, <2>2 DEF Survives
  <2>4. PlanFine(ledger, remote) => PlanFine(ledger, remote)'
    BY <2>2, <2>3 DEF PlanFine
  <2>5. PlanFine(op.print.records, op.print.objects)
            => PlanFine(op.print.records, op.print.objects)'
    BY <2>2 DEF PlanFine
  <2> QED  BY <2>2, <2>4, <2>5 DEF CleanupInv
<1>4. CASE UploadNext
  <2>1. \A s \in Streams : remote[s] \subseteq remote'[s]
    BY <1>4 DEF UploadNext, Upload
  <2>2. ledger' = ledger /\ op' = op
    BY <1>4 DEF UploadNext, Keep
  <2>3. \A x \in Streams : Survives(x, ledger, remote) => Survives(x, ledger', remote')
    BY <2>1, <2>2 DEF Survives
  <2>4. PlanFine(ledger, remote) => PlanFine(ledger, remote)'
    BY <2>2, <2>3 DEF PlanFine
  <2>5. PlanFine(op.print.records, op.print.objects)
            => PlanFine(op.print.records, op.print.objects)'
    BY <2>2 DEF PlanFine
  <2> QED  BY <2>2, <2>4, <2>5 DEF CleanupInv
<1>5. CASE SyncConfirms
  <2>1. \/ op' = op
        \/ op' = Idle
        \/ op.pc = "sync" /\ op' = [op EXCEPT !.pc = "drain"]
    BY <1>5, SyncResult DEF SyncConfirms
  <2>2. ledger' = ledger /\ remote' = remote
    BY <1>5 DEF SyncConfirms, disk
  <2>3. CASE op' = op
    BY <2>2, <2>3 DEF CleanupInv, PlanFine, Survives
  <2>4. CASE op' = Idle
    BY <2>4 DEF Idle, CleanupInv
  <2>5. CASE op.pc = "sync" /\ op' = [op EXCEPT !.pc = "drain"]
    BY <2>5 DEF CleanupInv
  <2> QED  BY <2>1, <2>3, <2>4, <2>5
<1>6. CASE SyncFails
  <2>1. \/ op' = op
        \/ op' = Idle
        \/ op.pc = "sync" /\ op' = [op EXCEPT !.pc = "drain"]
    BY <1>6, SyncResult DEF SyncFails
  <2>2. ledger' = ledger /\ remote' = remote
    BY <1>6 DEF SyncFails, disk
  <2>3. CASE op' = op
    BY <2>2, <2>3 DEF CleanupInv, PlanFine, Survives
  <2>4. CASE op' = Idle
    BY <2>4 DEF Idle, CleanupInv
  <2>5. CASE op.pc = "sync" /\ op' = [op EXCEPT !.pc = "drain"]
    BY <2>5 DEF CleanupInv
  <2> QED  BY <2>1, <2>3, <2>4, <2>5
<1>7. CASE StreamStarts
  BY <1>7 DEF StreamStarts, disk, replica, syncing, flags, ghosts, Unused, AddRow, End,
    Idle, CleanupInv
<1>8. CASE StartFails
  BY <1>8 DEF StartFails, disk, replica, syncing, flags, ghosts, Unused, AddRow, Goto,
    End, Idle, CleanupInv
<1>9. CASE JoinWorker
  BY <1>9 DEF JoinWorker, disk, replica, syncing, flags, ghosts, Goto, AfterStop,
    FirstStep, Idle, CleanupInv
<1>10. CASE Drain
  BY <1>10 DEF Drain, disk, replica, syncing, flags, ghosts, Goto, Captured, Idle,
    CleanupInv
<1>11. CASE DrainFails
  BY <1>11 DEF DrainFails, disk, replica, syncing, flags, ghosts, End, Resumes, Idle,
    CleanupInv
<1>12. CASE FinalConfirms
  BY <1>12 DEF FinalConfirms, disk, replica, syncing, flags, ghosts, Missing, Idle,
    CleanupInv
<1>13. CASE FinalFails
  BY <1>13 DEF FinalFails, disk, replica, syncing, flags, ghosts, Goto, Idle, CleanupInv
<1>14. CASE CloseHandles
  BY <1>14 DEF CloseHandles, disk, replica, syncing, flags, ghosts, DropHandles, Idle,
    CleanupInv
<1>15. CASE CloseHandlesFails
  BY <1>15 DEF CloseHandlesFails, disk, replica, syncing, flags, ghosts, DropHandles,
    Resumes, Goto, End, Idle, CleanupInv
<1>16. CASE Seal
  BY <1>16 DEF Seal, disk, replica, syncing, flags, ghosts, Goto, AfterStop, SealedRow,
    Idle, CleanupInv
<1>17. ASSUME NEW want \in BOOLEAN, Configure(want)  PROVE CleanupInv'
  BY <1>17 DEF Configure, disk, replica, syncing, flags, ghosts, Usable, Free, Idle,
    CleanupInv
<1>18. CASE PauseForRestore
  BY <1>18 DEF PauseForRestore, disk, replica, syncing, flags, ghosts, Free, Idle,
    CleanupInv
<1>19. CASE BackupNow
  BY <1>19 DEF BackupNow, disk, replica, syncing, flags, ghosts, Begin, Usable, Free,
    Idle, CleanupInv
<1>20. CASE Close
  BY <1>20 DEF Close, disk, replica, syncing, flags, ghosts, Begin, Free, Idle,
    CleanupInv
<1>21. CASE Save
  BY <1>21 DEF Save, disk, replica, syncing, flags, ghosts, Persist, Goto, End, Idle,
    CleanupInv
<1>22. CASE SaveFails
  BY <1>22 DEF SaveFails, disk, replica, syncing, flags, ghosts, Goto, End, Idle,
    CleanupInv
<1>23. CASE Undo
  BY <1>23 DEF Undo, disk, replica, syncing, flags, ghosts, Persist, Goto, End, Idle,
    CleanupInv
<1>24. CASE UndoFails
  BY <1>24 DEF UndoFails, disk, replica, syncing, flags, ghosts, End, Idle, CleanupInv
<1>25. CASE CloseReturns
  BY <1>25 DEF CloseReturns, disk, replica, syncing, flags, ghosts, End, Idle,
    CleanupInv
<1>26. CASE Restart
  BY <1>26 DEF Restart, disk, replica, syncing, flags, ghosts, Idle, CleanupInv
<1>27. ASSUME NEW days \in Periods, PreviewRetention(days)  PROVE CleanupInv'
  BY <1>27 DEF PreviewRetention, disk, replica, syncing, flags, ghosts, Free, Usable,
    Idle, CleanupInv
<1>28. CASE ExecuteRetention
  BY <1>28 DEF ExecuteRetention, disk, replica, syncing, flags, ghosts, Free, Usable,
    Approved, Idle, CleanupInv
<1>29. CASE BackgroundCleanup
  BY <1>29 DEF BackgroundCleanup, disk, replica, syncing, flags, ghosts, Free, Usable,
    Attempt, Idle, CleanupInv
<1>30. ASSUME NEW verified \in SUBSET Streams, ScanSucceeds(verified)  PROVE CleanupInv'
  <2>1. op \in OpRecords /\ op.target = 0
    BY ScanResult, <1>30 DEF ProcessTypeOK, CleanupInv
  <2>2. CASE op' = Idle
    BY <2>2 DEF Idle, CleanupInv
  <2>3. CASE /\ op'.pc = "recheck" /\ op'.kind = op.kind /\ op'.shown = op.shown
             /\ op'.target = op.target
             /\ op'.todo = Plan(verified, op.days) /\ op'.print = Snapshot
             /\ op.kind = "background" \/ Plan(verified, op.days) = op.shown.eligible
    <3>1. verified \subseteq {s \in NewestSealed : Restorable(s)}
      BY <1>30 DEF ScanSucceeds
    <3>2. \A s \in op'.todo :
            s \in Streams /\ s \notin verified /\ State(s) \in {"sealed", "deleting"}
      BY <2>3 DEF Plan, Eligible
    <3>3. /\ op'.print.records = ledger
          /\ op'.print.objects = [s \in Streams |-> IF Current(s) THEN {} ELSE remote[s]]
      BY <2>3 DEF Snapshot
    <3>4. ASSUME op'.todo # {}
          PROVE  \E x, y \in Streams :
                   /\ x # y /\ x \notin op'.todo /\ y \notin op'.todo
                   /\ Survives(x, op'.print.records, op'.print.objects)
                   /\ Survives(y, op'.print.records, op'.print.objects)
                   /\ \A s \in op'.todo : s < x /\ s < y
      <4>1. Plan(verified, op.days) # {}
        BY <2>3, <3>4
      <4>2. PICK x, y \in verified : x # y /\ \A s \in Plan(verified, op.days) : s < x /\ s < y
        BY <3>1, <4>1, PlanIsOld
      <4>3. ASSUME NEW z \in verified
            PROVE  Survives(z, op'.print.records, op'.print.objects)
        <5>1. z \in Streams /\ State(z) = "sealed" /\ ~Current(z) /\ Restorable(z)
          BY <3>1 DEF NewestSealed
        <5> QED  BY <3>3, <5>1 DEF Survives, State, Restorable
      <4>4. x \notin op'.todo /\ y \notin op'.todo
        BY <3>2
      <4> QED  BY <2>3, <4>2, <4>3, <4>4
    <3>5. PlanFine(op.print.records, op.print.objects)'
      BY <3>2, <3>3, <3>4 DEF PlanFine, State
    <3> QED  BY <2>1, <2>3, <3>5 DEF CleanupInv
  <2> QED  BY <1>30, <2>1, <2>2, <2>3, ScanFields
<1>31. CASE CleanupStops
  BY <1>31 DEF CleanupStops, disk, replica, syncing, flags, ghosts, End, Idle,
    CleanupInv
<1>32. CASE Recheck
  <2>1. /\ op.pc = "recheck" /\ op' = [op EXCEPT !.pc = "delete"] /\ Snapshot = op.print
        /\ ledger' = ledger /\ remote' = remote
    BY <1>32 DEF Recheck, RecheckPasses, Goto, disk
  <2>2. /\ op'.kind = op.kind /\ op'.todo = op.todo /\ op'.shown = op.shown
        /\ op'.target = op.target /\ op'.pc = "delete"
    BY <2>1
  <2>3. /\ op.print.records = ledger
        /\ op.print.objects = [s \in Streams |-> IF Current(s) THEN {} ELSE remote[s]]
    BY <2>1 DEF Snapshot
  <2>4. \A x \in Streams : Survives(x, op.print.records, op.print.objects)
                             => Survives(x, ledger', remote')
    BY <2>1, <2>3 DEF Survives, Upto
  <2>5. PlanFine(ledger, remote)'
    BY <2>1, <2>2, <2>3, <2>4 DEF CleanupInv, PlanFine
  <2> QED  BY <2>1, <2>2, <2>5 DEF CleanupInv
<1>33. ASSUME NEW s \in Streams, MarkDeleting(s)  PROVE CleanupInv'
  <2>1. /\ s \in op.todo /\ op.pc = "delete" /\ op.target = 0 /\ remote' = remote
        /\ op' = [op EXCEPT !.target = s]
    BY <1>33 DEF MarkDeleting, Target
  <2>2. /\ op'.kind = op.kind /\ op'.todo = op.todo /\ op'.shown = op.shown
        /\ op'.target = s /\ op'.pc = "delete"
    BY <2>1
  <2>3. \A t \in Streams : t # s => ledger'[t] = ledger[t]
    BY <1>33 DEF MarkDeleting
  <2>4. ledger'[s].state = "deleting"
    BY <1>33, <2>1 DEF MarkDeleting, Rows, CleanupInv, PlanFine
  <2>5. \A x \in Streams \ {s} : Survives(x, ledger, remote) => Survives(x, ledger', remote')
    BY <2>1, <2>3 DEF Survives
  <2>6. PlanFine(ledger, remote)'
    <3>1. PlanFine(ledger, remote) /\ op.todo \subseteq Streams
      BY <2>1 DEF CleanupInv
    <3> QED  BY <2>1, <2>2, <2>3, <2>4, <2>5, <3>1 DEF PlanFine
  <2> QED  BY <2>1, <2>2, <2>4, <2>6 DEF CleanupInv
<1>34. ASSUME NEW answered \in BOOLEAN, DeleteObject(answered)  PROVE CleanupInv'
  <2>1. /\ op.pc = "delete" /\ op.target # 0 /\ ledger' = ledger
        /\ remote' = [remote EXCEPT ![op.target] = @ \ {NextObject}]
        /\ op' = op \/ op' = Idle
    BY <1>34, Zenon DEF DeleteObject, Target, Keep, End
  <2>2. CASE op' = Idle
    BY <2>2 DEF Idle, CleanupInv
  <2>3. CASE op' = op
    <3>1. op.target \in op.todo
      BY <2>1 DEF CleanupInv
    <3>2. \A x \in Streams : x \notin op.todo /\ Survives(x, ledger, remote)
                                => Survives(x, ledger', remote')
      BY <2>1, <3>1 DEF Survives
    <3>3. PlanFine(ledger, remote)'
      BY <2>1, <2>3, <3>2 DEF CleanupInv, PlanFine
    <3> QED  BY <2>1, <2>3, <3>3 DEF CleanupInv
  <2> QED  BY <2>1, <2>2, <2>3
<1>35. CASE Tombstone
  <2>1. /\ op.pc = "delete" /\ op.target # 0 /\ remote' = remote
        /\ ledger' = [ledger EXCEPT ![op.target].state = "deleted", ![op.target].manifest = {}]
        /\ op' = [op EXCEPT !.target = 0, !.todo = @ \ {op.target}]
    BY <1>35 DEF Tombstone, Target
  <2>2. /\ op'.kind = op.kind /\ op'.todo = op.todo \ {op.target} /\ op'.shown = op.shown
        /\ op'.target = 0 /\ op'.pc = "delete"
    BY <2>1
  <2>3. op.target \in op.todo /\ PlanFine(ledger, remote)
    BY <2>1 DEF CleanupInv
  <2>4. \A x \in Streams : x # op.target => ledger'[x] = ledger[x]
    BY <2>1
  <2>5. \A x \in Streams : x \notin op.todo /\ Survives(x, ledger, remote)
                              => Survives(x, ledger', remote')
    BY <2>1, <2>3, <2>4 DEF Survives
  <2>6. PlanFine(ledger, remote)'
    <3>1. op.todo \subseteq Streams
      OBVIOUS
    <3> QED  BY <2>2, <2>3, <2>4, <2>5, <3>1 DEF PlanFine
  <2> QED  BY <2>1, <2>2, <2>6 DEF CleanupInv
<1>36. CASE FinishCleanup
  BY <1>36 DEF FinishCleanup, disk, replica, syncing, flags, ghosts, Target, End, Idle,
    CleanupInv
<1>37. ASSUME NEW s \in Streams, NEW o \in Objects, Damage(s, o)  PROVE CleanupInv'
  <2>1. op.pc # "delete" /\ op' = op /\ ledger' = ledger
    BY <1>37 DEF Damage, Keep
  <2>2. PlanFine(op.print.records, op.print.objects)
            => PlanFine(op.print.records, op.print.objects)'
    BY <2>1 DEF PlanFine
  <2> QED  BY <2>1, <2>2 DEF CleanupInv
<1> QED  BY <1>1, <1>2, <1>3, <1>4, <1>5, <1>6, <1>7, <1>8, <1>9, <1>10, <1>11, <1>12,
  <1>13, <1>14, <1>15, <1>16, <1>17, <1>18, <1>19, <1>20, <1>21, <1>22, <1>23, <1>24,
  <1>25, <1>26, <1>27, <1>28, <1>29, <1>30, <1>31, <1>32, <1>33, <1>34, <1>35, <1>36,
  <1>37 DEF Next

-----------------------------------------------------------------------------
(* Theorems *)

(* Every step keeps the inductive invariant. *)
LEMMA StepHolds == CInv /\ [Next]_vars => CInv'
<1> SUFFICES ASSUME CInv, [Next]_vars  PROVE CInv'
  OBVIOUS
<1> QED  BY DiskTyped, ProcessTyped, GhostTyped, PathKept, HandleKept, FenceKept, StreamKept,
            SealedKept, IdentityKept, GoneKept, CleanupKept, DeletingKept, PinsKept, DayKept
         DEF CInv

(* The inductive invariant holds always. *)
LEMMA InvariantHolds == Spec => []CInv
BY InitHolds, StepHolds, PTL DEF Spec

(* Every variable of the manager, the control database and storage has its type, and a
   sync runs only while the handles are open. *)
THEOREM BackupTypes == Spec => []TypeOK
<1>1. CInv => TypeOK
  BY DEF CInv, TypeOK, HandleInv
<1> QED  BY <1>1, InvariantHolds, PTL

(* stopLocked seals a stream only when every change committed while it was replicated
   is in storage, whatever failed or was cancelled on the way. *)
THEOREM SealedStreamsAreComplete == Spec => []SealedIsComplete
<1>1. CInv => SealedIsComplete
  BY DEF CInv
<1> QED  BY <1>1, InvariantHolds, PTL

(* stream.json is the first object of a stream and the last one to go. *)
THEOREM StreamsAreRecognised == Spec => []IdentityBrackets
<1>1. CInv => IdentityBrackets
  BY DEF CInv
<1> QED  BY <1>1, InvariantHolds, PTL

(* PauseForRestore is durable: nothing is replicated until the user enables it again. *)
THEOREM PauseIsDurable == Spec => []RestorePauseHolds
<1>1. CInv => RestorePauseHolds
  BY DEF CInv, FenceInv, HandleInv, PathInv, RestorePauseHolds, Free
<1> QED  BY <1>1, InvariantHolds, PTL

(* A disabled manager without an operation has no worker, no handles and no sync. *)
THEOREM DisabledManagerIsQuiet == Spec => []DisabledIsQuiet
<1>1. CInv => DisabledIsQuiet
  BY DEF CInv, HandleInv, PathInv, DisabledIsQuiet, Free
<1> QED  BY <1>1, InvariantHolds, PTL

(* No stream with a staged recovery point is marked or deleted. *)
THEOREM StagedStreamsStay == Spec => []PinnedKept
<1>1. CInv => PinnedKept
  BY DEF CInv
<1> QED  BY <1>1, InvariantHolds, PTL

(* A tombstone means that storage is empty, and a marked stream stays in its manifest. *)
THEOREM TombstonesAreTrue == Spec => []DeletedMeansGone
<1>1. CInv => DeletedMeansGone
  BY DEF CInv
<1> QED  BY <1>1, InvariantHolds, PTL

(* The background cleanup runs at most once in 24 hours, across restarts. *)
THEOREM CleanupOncePerDay == Spec => []OncePerDay
<1>1. CInv => OncePerDay
  BY DEF CInv, DayInv, OncePerDay
<1> QED  BY <1>1, InvariantHolds, PTL

(* What SealedIsFrozen asks of a step. *)
FrozenStep ==
    \A s \in Streams :
        /\ State(s) \in {"sealed", "deleting", "deleted"} =>
             /\ remote'[s] \subseteq remote[s]
             /\ ledger'[s].finalTx = ledger[s].finalTx
             /\ ledger'[s].state \in {State(s), "deleting", "deleted"}
        /\ State(s) = "deleted" => ledger'[s].state = "deleted"

(* Only the stream under way, whose row is open, gets objects. *)
LEMMA FrozenSteps ==
    ASSUME CInv, [Next]_vars
    PROVE  FrozenStep
<1> USE DEF CInv, HandleInv, ProcessTypeOK, DiskTypeOK, GhostTypeOK, State, FrozenStep,
  Rows
<1>1. CASE UNCHANGED <<ledger, remote>>
  BY <1>1 DEF FrozenStep
<1>2. ASSUME (UNCHANGED vars \/ WorkerSyncs \/ Initialize \/ Capture \/ SyncConfirms \/
             SyncFails \/ AppWrites \/ JoinWorker \/ Drain \/ DrainFails \/ FinalConfirms
             \/ FinalFails \/ CloseHandles \/ CloseHandlesFails \/ (\E want \in BOOLEAN :
             Configure(want)) \/ PauseForRestore \/ BackupNow \/ Close \/ Save \/
             SaveFails \/ Undo \/ UndoFails \/ CloseReturns \/ (\E s \in Streams :
             Stage(s)) \/ Restart \/ (\E p \in Policies : ConfigureRetention(p)) \/ (\E
             days \in Periods : PreviewRetention(days)) \/ ExecuteRetention \/
             BackgroundCleanup \/ (\E verified \in SUBSET Streams :
             ScanSucceeds(verified)) \/ CleanupStops \/ Recheck \/ FinishCleanup \/
             PreviewExpires \/ (\E month \in BOOLEAN : TimePasses(month)))
      PROVE  UNCHANGED <<ledger, remote>>
  BY <1>2 DEF vars, disk, replica, syncing, flags, ghosts, WorkerSyncs, Initialize,
    Capture, SyncConfirms, SyncFails, AppWrites, JoinWorker, Drain, DrainFails,
    FinalConfirms, FinalFails, CloseHandles, CloseHandlesFails, Configure,
    PauseForRestore, BackupNow, Close, Save, SaveFails, Undo, UndoFails, CloseReturns,
    Stage, Restart, ConfigureRetention, PreviewRetention, ExecuteRetention,
    BackgroundCleanup, ScanSucceeds, CleanupStops, Recheck, FinishCleanup,
    PreviewExpires, TimePasses, Persist, DropHandles, SyncReturns, End, Goto, Attempt
<1>3. CASE EnsureIdentity
  BY <1>3 DEF EnsureIdentity, disk, replica, syncing, flags, ghosts, Upload, Keep
<1>4. CASE UploadNext
  BY <1>4 DEF UploadNext, disk, replica, syncing, flags, ghosts, Upload, Keep, Missing
<1>5. CASE StreamStarts
  BY <1>5, StartsOne DEF StreamStarts, disk, replica, syncing, flags, ghosts, Unused,
    AddRow, End, NoRow
<1>6. CASE StartFails
  BY <1>6, StartsOneAtMost DEF StartFails, disk, replica, syncing, flags, ghosts,
    Unused, AddRow, Goto, End, NoRow
<1>7. CASE Seal
  BY <1>7 DEF Seal, disk, replica, syncing, flags, ghosts, Goto, AfterStop, SealedRow,
    StreamInv
<1>8. ASSUME NEW s \in Streams, MarkDeleting(s)  PROVE FrozenStep
  BY <1>8 DEF MarkDeleting, disk, replica, syncing, flags, ghosts, Target, CleanupInv,
    PlanFine
<1>9. ASSUME NEW answered \in BOOLEAN, DeleteObject(answered)  PROVE FrozenStep
  BY <1>9, TargetIsDeleting DEF DeleteObject, disk, replica, syncing, flags, ghosts,
    Target, Remaining, Keep, End
<1>10. CASE Tombstone
  BY <1>10, TargetIsDeleting DEF Tombstone, disk, replica, syncing, flags, ghosts,
    Target, Remaining, Gone
<1>11. ASSUME NEW s \in Streams, NEW o \in Objects, Damage(s, o)  PROVE FrozenStep
  BY <1>11 DEF Damage, disk, replica, syncing, flags, ghosts, Keep
<1> QED  BY <1>1, <1>2, <1>3, <1>4, <1>5, <1>6, <1>7, <1>8, <1>9, <1>10, <1>11 DEF Next

(* A sealed stream gets no object any more, and its row only moves on. *)
THEOREM SealedStreamsAreFrozen == Spec => SealedIsFrozen
<1>1. CInv /\ [Next]_vars => [FrozenStep]_vars
  BY FrozenSteps
<1> QED  BY <1>1, InvariantHolds, PTL DEF Spec, SealedIsFrozen, FrozenStep

(* What SafeDeletion asks of a step. *)
DeletionStep ==
    \A s \in Streams :
        \A o \in remote[s] \ remote'[s] :
            damaged' = damaged =>
              /\ State(s) = "deleting" /\ o \in ledger[s].manifest /\ ~Current(s)
              /\ Cardinality({t \in Streams : t > s /\ State(t) = "sealed" /\ Restorable(t)}) >= 2
              /\ op.kind = "execute" => s \in op.shown.eligible

(* Only the cleanup deletes, and only within its plan. *)
LEMMA DeletionSteps ==
    ASSUME CInv, [Next]_vars
    PROVE  DeletionStep
<1> USE DEF CInv
<1>1. CASE UNCHANGED <<remote>>
  BY <1>1 DEF DeletionStep
<1>2. ASSUME (UNCHANGED vars \/ WorkerSyncs \/ Initialize \/ Capture \/ SyncConfirms \/
             SyncFails \/ AppWrites \/ StreamStarts \/ StartFails \/ JoinWorker \/ Drain
             \/ DrainFails \/ FinalConfirms \/ FinalFails \/ CloseHandles \/
             CloseHandlesFails \/ Seal \/ (\E want \in BOOLEAN : Configure(want)) \/
             PauseForRestore \/ BackupNow \/ Close \/ Save \/ SaveFails \/ Undo \/
             UndoFails \/ CloseReturns \/ (\E s \in Streams : Stage(s)) \/ Restart \/ (\E
             p \in Policies : ConfigureRetention(p)) \/ (\E days \in Periods :
             PreviewRetention(days)) \/ ExecuteRetention \/ BackgroundCleanup \/ (\E
             verified \in SUBSET Streams : ScanSucceeds(verified)) \/ CleanupStops \/
             Recheck \/ (\E s \in Streams : MarkDeleting(s)) \/ Tombstone \/
             FinishCleanup \/ PreviewExpires \/ (\E month \in BOOLEAN :
             TimePasses(month)))
      PROVE  UNCHANGED <<remote>>
  BY <1>2 DEF vars, disk, replica, syncing, flags, ghosts, WorkerSyncs, Initialize,
    Capture, SyncConfirms, SyncFails, AppWrites, StreamStarts, StartFails, JoinWorker,
    Drain, DrainFails, FinalConfirms, FinalFails, CloseHandles, CloseHandlesFails, Seal,
    Configure, PauseForRestore, BackupNow, Close, Save, SaveFails, Undo, UndoFails,
    CloseReturns, Stage, Restart, ConfigureRetention, PreviewRetention,
    ExecuteRetention, BackgroundCleanup, ScanSucceeds, CleanupStops, Recheck,
    MarkDeleting, Tombstone, FinishCleanup, PreviewExpires, TimePasses, Persist,
    DropHandles, SyncReturns, End, Goto, Attempt
<1>3. CASE EnsureIdentity
  BY <1>3 DEF EnsureIdentity, Upload, DeletionStep, DiskTypeOK
<1>4. CASE UploadNext
  BY <1>4 DEF UploadNext, Upload, DeletionStep, DiskTypeOK
<1>5. ASSUME NEW answered \in BOOLEAN, DeleteObject(answered)  PROVE DeletionStep
  <2>1. /\ op.pc = "delete" /\ Target # 0 /\ Remaining # {}
        /\ Remaining \subseteq ledger[Target].manifest
        /\ remote' = [remote EXCEPT ![Target] = @ \ {NextObject}]
    BY <1>5 DEF DeleteObject
  <2>2. Target \in Streams /\ State(Target) = "deleting" /\ Target \in op.todo
    BY <2>1, TargetIsDeleting
  <2>3. \A s \in Streams : remote[s] # remote'[s] => s = Target
    BY <2>1, <2>2 DEF DiskTypeOK
  <2>4. ~Current(Target)
    BY <2>2 DEF Current, HandleInv
  <2>5. op.kind = "execute" => Target \in op.shown.eligible
    BY <2>1, <2>2 DEF CleanupInv
  <2>6. PICK x, y \in Streams :
          /\ x # y /\ Survives(x, ledger, remote) /\ Survives(y, ledger, remote)
          /\ Target < x /\ Target < y
    BY <2>1, <2>2 DEF CleanupInv, PlanFine
  <2>7. PICK kept : kept = {t \in Streams : t > Target /\ State(t) = "sealed" /\ Restorable(t)}
    OBVIOUS
  <2>8. Target \in Int /\ x \in Int /\ y \in Int
    BY <2>2 DEF Streams
  <2>9. x \in kept /\ y \in kept /\ kept \in SUBSET Streams
    BY <2>6, <2>7, <2>8 DEF Survives, State, Restorable
  <2>10. Cardinality(kept) >= 2
    BY <2>6, <2>9, StreamsFinite, TwoMembers
  <2>11. Remaining = remote[Target]
    BY DEF Remaining
  <2> QED  BY <2>1, <2>2, <2>3, <2>4, <2>5, <2>7, <2>10, <2>11 DEF DeletionStep
<1>6. ASSUME NEW s \in Streams, NEW o \in Objects, Damage(s, o)  PROVE DeletionStep
  BY <1>6 DEF Damage, DeletionStep
<1> QED  BY <1>1, <1>2, <1>3, <1>4, <1>5, <1>6 DEF Next

(* The cleanup deletes an object only from a marked stream, listed in its manifest,
   beside two newer sealed streams that can be restored, and when the user runs it
   only from a stream the preview showed. *)
THEOREM DeletionIsSafe == Spec => SafeDeletion
<1>1. CInv /\ [Next]_vars => [DeletionStep]_vars
  BY DeletionSteps
<1> QED  BY <1>1, InvariantHolds, PTL DEF Spec, SafeDeletion, DeletionStep
=============================================================================
