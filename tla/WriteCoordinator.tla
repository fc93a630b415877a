--------------------------- MODULE WriteCoordinator ---------------------------
(***************************************************************************)
(* The application-owned write gate of internal/application: the           *)
(* WriteCoordinator (ordinary permit, exclusive permit, shutdown fence),   *)
(* Service.changeMu, Service.refreshEpoch, and the operations that pass    *)
(* through them.                                                           *)
(*                                                                         *)
(* A member of Procs is a goroutine.  An idle one is called with an        *)
(* operation; pc[p] is then the point it has reached, each step being one  *)
(* critical section of the coordinator's mutex, one changeMu operation or  *)
(* one access to the database.  cond.Wait is modelled with the set asleep, *)
(* which only a Broadcast empties, so a missing wake-up would be visible.  *)
(*                                                                         *)
(* The financial database is abstracted to a version number db: every      *)
(* committed mutation, and a restored replacement, is a new version.       *)
(***************************************************************************)
EXTENDS Integers, FiniteSets

CONSTANTS Procs,         \* goroutines
          Menu,          \* the operations the environment calls
          MaxRevision,   \* no operation that bumps the revision starts beyond it
          MaxVersion,    \* the last version of the database explored
          MaxEpoch,      \* no backup or restore starts beyond it
          MaxExclusive,  \* backups, restores and reconfigurations at once
          MaxRestarts,   \* process restarts explored
          MaxMarket      \* market data passes one worker makes

ASSUME BoundsAssumption ==
    /\ MaxRevision \in Nat
    /\ MaxVersion \in Nat
    /\ MaxEpoch \in Nat
    /\ MaxExclusive \in Nat
    /\ MaxRestarts \in Nat
    /\ MaxMarket \in Nat

NoProc == "no goroutine"
ASSUME ProcsAssumption == NoProc \notin Procs

VARIABLES
    exclusive,     \* WriteCoordinator.exclusive
    shuttingDown,  \* WriteCoordinator.shuttingDown
    writers,       \* WriteCoordinator.writers
    revision,      \* WriteCoordinator.revision
    nonce,         \* WriteCoordinator.nonce, a new value in every process
    asleep,        \* goroutines inside cond.Wait that no Broadcast has woken
    epoch,         \* Service.refreshEpoch
    changeMu,      \* the goroutine that holds Service.changeMu, or NoProc
    op,            \* the operation each goroutine runs
    pc,            \* where each goroutine is
    marked,        \* goroutines whose writePermit.writeRequested is set
    captured,      \* the epoch a market worker captured, and the count
                   \* begun then (ghost)
    stored,        \* market workers whose last result has been stored
    passes,        \* provider passes a market worker has made
    cancelled,     \* market workers whose context is cancelled and not joined
    plan,          \* the token a client holds, and the version it saw (ghost)
    db,            \* version of the financial database
    dbOpen,        \* the SQLite session is open
    begun          \* exclusive operations begun in this process (ghost)

gate  == <<exclusive, shuttingDown, writers, revision, nonce, asleep>>
procs == <<op, pc, marked, captured, stored, passes, cancelled>>
vars  == <<gate, epoch, changeMu, procs, plan, db, dbOpen, begun>>

-----------------------------------------------------------------------------
(* Operations and the points of their execution.                           *)

LedgerOps    == {"record", "prefer"}             \* beginLedgerWrite
GateOps      == {"write", "preview", "read", "market"} \union LedgerOps
ExclusiveOps == {"backup", "configure", "restore"}
Ops          == GateOps \union ExclusiveOps \union {"peek", "shutdown", "none"}
ASSUME MenuAssumption == Menu \subseteq Ops \ {"prefer", "none"}

\* The goroutine owns the ordinary permit (writers counts it).
PermitLabels    == {"lock", "body", "token", "commit", "nestlock", "nestbody",
                    "check", "persist", "unlock", "release"}
\* The goroutine owns the exclusive permit and every writer has left.
ExclusiveLabels == {"exlock", "exbody", "snapshot", "join", "exunlock",
                    "package", "kept"}
Labels == PermitLabels \union ExclusiveLabels \union
          {"idle", "acquire", "fetch", "next", "exclude", "drain",
           "cancelall", "cancelwait", "quiesce", "quiescing", "close", "closed",
           "peeklock", "peek"}

\* Points at which the goroutine is inside changeMu.
LockedLabels == {"nestbody", "peek", "exbody", "snapshot", "join", "exunlock",
                 "kept"}

HoldsPermit(p)    == pc[p] \in PermitLabels
HoldsExclusive(p) == pc[p] \in ExclusiveLabels
HoldsChangeMu(p)  ==
    \/ pc[p] \in LockedLabels
    \/ op[p] \in LedgerOps /\ pc[p] \in {"body", "commit", "unlock"}

\* The token of a plan, against previewToken.
TokenCurrent(p) == plan[p].nonce = nonce /\ plan[p].revision = revision
NoCapture == [epoch |-> 0, begun |-> 0]
NoPlan == [nonce |-> 0, revision |-> 0, seen |-> 0]

-----------------------------------------------------------------------------
Init ==
    /\ exclusive = FALSE
    /\ shuttingDown = FALSE
    /\ writers = 0
    /\ revision = 0
    /\ nonce = 1
    /\ asleep = {}
    /\ epoch = 0
    /\ changeMu = NoProc
    /\ op = [p \in Procs |-> "none"]
    /\ pc = [p \in Procs |-> "idle"]
    /\ marked = {}
    /\ stored = {}
    /\ captured = [p \in Procs |-> NoCapture]
    /\ passes = [p \in Procs |-> 0]
    /\ cancelled = {}
    /\ plan = [p \in Procs |-> NoPlan]
    /\ db = 0
    /\ dbOpen = TRUE
    /\ begun = 0

Goto(p, label) == pc' = [pc EXCEPT ![p] = label]

\* A step that changes nothing of the goroutine but its place.
Step(p, label) == Goto(p, label) /\ UNCHANGED <<op, marked, captured, stored, passes, cancelled>>

\* The goroutine returns to its caller; a market worker that was cancelled
\* is thereby joined (WaitGroup.Done).
Return(p) ==
    /\ pc' = [pc EXCEPT ![p] = "idle"]
    /\ op' = [op EXCEPT ![p] = "none"]
    /\ marked' = marked \ {p}
    /\ stored' = stored \ {p}
    /\ cancelled' = cancelled \ {p}
    /\ captured' = [captured EXCEPT ![p] = NoCapture]
    /\ passes' = [passes EXCEPT ![p] = 0]

\* A new version of the database, or none when the operation fails.
MayMutate == db' = db \/ (db < MaxVersion /\ db' = db + 1)

MutantBroadcast == UNCHANGED asleep             \* mutant: the wake-up is lost
Broadcast == asleep' = {}

\* s.refreshEpoch.Load() before the provider call.
Capture(p) ==
    /\ captured' = [captured EXCEPT ![p] = [epoch |-> epoch, begun |-> begun]]
    /\ stored' = stored \ {p}

\* refreshTarget or the sync job goes on to its next target.
BackToTargets(p) ==
    /\ op' = [op EXCEPT ![p] = "market"]
    /\ Goto(p, "next")
    /\ UNCHANGED <<marked, captured, stored, passes, cancelled>>

-----------------------------------------------------------------------------
(* Entry points.  A caller that would bump the revision is only started    *)
(* below MaxRevision; pure reads are always possible.                      *)

Entry(o) == CASE o \in GateOps \ {"market"} -> "acquire"
              [] o = "market"   -> "fetch"
              [] o = "configure" -> "exclude"
              [] o \in {"backup", "restore"} -> "cancelall"
              [] o = "shutdown" -> "quiesce"
              [] OTHER          -> "peeklock"

\* A client submits a guarded change with a plan it, or another window, holds.
Call(p, o) ==
    /\ pc[p] = "idle"
    /\ o \in {"preview", "peek", "shutdown"} \/ revision < MaxRevision
    /\ o \in ExclusiveOps =>
          /\ epoch < MaxEpoch
          /\ Cardinality({q \in Procs : op[q] \in ExclusiveOps}) < MaxExclusive
    /\ o = "shutdown" => \A q \in Procs : op[q] # "shutdown"
    /\ op' = [op EXCEPT ![p] = o]
    /\ Goto(p, Entry(o))
    /\ IF o = "record" THEN \E r \in Procs : plan' = [plan EXCEPT ![p] = plan[r]]
                       ELSE UNCHANGED plan
    /\ IF o = "market" THEN Capture(p) /\ passes' = [passes EXCEPT ![p] = 1]
                       ELSE UNCHANGED <<captured, stored, passes>>
    /\ UNCHANGED <<gate, epoch, changeMu, marked, cancelled, db, dbOpen, begun>>

-----------------------------------------------------------------------------
(* The ordinary permit.                                                    *)

\* acquireWrite, at each turn of its loop: refuse, enter, or wait.
Refuses  == exclusive \/ shuttingDown
MutantGateFree == ~Refuses                      \* mutant: writers not counted
MutantGateFreeLate == ~exclusive /\ writers = 0 \* mutant: shutdown ignored
GateFree == ~Refuses /\ writers = 0

MutantWritersLeft == FALSE                      \* mutant: nobody is drained
WritersLeft == writers > 0

\* The first statement run under the permit.
AfterGrant(o) == CASE o \in LedgerOps -> "lock"
                   [] o = "market"    -> "check"
                   [] OTHER           -> "body"

AcquireGranted(p) ==
    /\ pc[p] = "acquire"
    /\ p \notin asleep
    /\ GateFree
    /\ writers' = 1
    /\ Step(p, AfterGrant(op[p]))
    /\ UNCHANGED <<exclusive, shuttingDown, revision, nonce, asleep, epoch, changeMu, plan, db, dbOpen, begun>>

AcquireWaits(p) ==
    /\ pc[p] = "acquire"
    /\ p \notin asleep
    /\ ~Refuses /\ WritersLeft
    /\ asleep' = asleep \union {p}
    /\ UNCHANGED <<exclusive, shuttingDown, writers, revision, nonce, epoch,
                   changeMu, procs, plan, db, dbOpen, begun>>

\* backup_restore_busy.
MutantAcquireRefused(p) ==                      \* mutant: shutdown checked once
    /\ pc[p] = "acquire"
    /\ p \notin asleep
    /\ exclusive
    /\ IF op[p] \in {"market", "prefer"} THEN BackToTargets(p) ELSE Return(p)
    /\ UNCHANGED <<gate, epoch, changeMu, plan, db, dbOpen, begun>>
AcquireRefused(p) ==
    /\ pc[p] = "acquire"
    /\ p \notin asleep
    /\ Refuses
    /\ IF op[p] \in {"market", "prefer"} THEN BackToTargets(p) ELSE Return(p)
    /\ UNCHANGED <<gate, epoch, changeMu, plan, db, dbOpen, begun>>

\* releaseWrite, releasePreviewRead and releaseSnapshotVersion: which of them
\* is deferred depends on how the permit was taken and on writeRequested.
MutantBumpsOnMark(p) == op[p] \in {"write", "market", "prefer"} \/ p \in marked
MutantBumpsUnmarked(p) == op[p] \in {"write", "market"} \union LedgerOps
BumpsRevision(p) == op[p] \in {"write", "market"} \union LedgerOps \/ p \in marked

\* MobileReadSnapshot hands out the version it captures while it releases.
ReleasePermit(p) ==
    /\ pc[p] = "release"
    /\ writers' = writers - 1
    /\ revision' = revision + (IF BumpsRevision(p) THEN 1 ELSE 0)
    /\ Broadcast
    /\ plan' = IF op[p] = "read"
               THEN [plan EXCEPT ![p] =
                       [nonce |-> nonce, revision |-> revision', seen |-> db]]
               ELSE plan
    /\ IF op[p] \in {"market", "prefer"} THEN BackToTargets(p) ELSE Return(p)
    /\ UNCHANGED <<exclusive, shuttingDown, nonce, epoch, changeMu, db, dbOpen, begun>>

-----------------------------------------------------------------------------
(* Service.changeMu, always inside the permit except for the unguarded     *)
(* product preview, which takes it alone.                                  *)

LockTarget == [lock |-> "body", nestlock |-> "nestbody",
               exlock |-> "exbody", peeklock |-> "peek"]

LockChangeMu(p) ==
    /\ pc[p] \in DOMAIN LockTarget
    /\ changeMu = NoProc
    /\ changeMu' = p
    /\ Step(p, LockTarget[pc[p]])
    /\ UNCHANGED <<gate, epoch, plan, db, dbOpen, begun>>

\* Deferred: changeMu first, then the permit.
UnlockChangeMu(p) ==
    /\ pc[p] = "unlock"
    /\ changeMu' = NoProc
    /\ Step(p, "release")
    /\ UNCHANGED <<gate, epoch, plan, db, dbOpen, begun>>

\* previewProductOperation without a permit: reads under changeMu alone.
PeekDone(p) ==
    /\ pc[p] = "peek"
    /\ changeMu' = NoProc
    /\ Return(p)
    /\ UNCHANGED <<gate, epoch, plan, db, dbOpen, begun>>

-----------------------------------------------------------------------------
(* What runs under the ordinary permit.                                    *)

\* WithWrite: the callback commits or fails; SetFXPreference likewise, under
\* changeMu.
WriteBody(p) ==
    /\ pc[p] = "body"
    /\ op[p] \in {"write", "prefer"}
    /\ MayMutate
    /\ Step(p, IF op[p] = "prefer" THEN "unlock" ELSE "release")
    /\ UNCHANGED <<gate, epoch, changeMu, plan, dbOpen, begun>>

\* PreviewChangeGuardedWith reads every fact first ...
PreviewRead(p) ==
    /\ pc[p] = "body"
    /\ op[p] = "preview"
    /\ plan' = [plan EXCEPT ![p] = [NoPlan EXCEPT !.seen = db]]
    /\ Step(p, "token")
    /\ UNCHANGED <<gate, epoch, changeMu, db, dbOpen, begun>>

\* ... and takes the token before it releases the gate.
PreviewToken(p) ==
    /\ pc[p] = "token"
    /\ plan' = [plan EXCEPT ![p].nonce = nonce, ![p].revision = revision]
    /\ Step(p, "release")
    /\ UNCHANGED <<gate, epoch, changeMu, db, dbOpen, begun>>

\* RecordChangeGuarded: stale_preview, or on to the commit.
RecordCheck(p) ==
    /\ pc[p] = "body"
    /\ op[p] = "record"
    /\ Step(p, IF TokenCurrent(p) THEN "commit" ELSE "unlock")
    /\ UNCHANGED <<gate, epoch, changeMu, plan, db, dbOpen, begun>>

\* The reload and the SQLite transaction; it may also fail.
RecordCommit(p) ==
    /\ pc[p] = "commit"
    /\ MayMutate
    /\ Step(p, "unlock")
    /\ UNCHANGED <<gate, epoch, changeMu, plan, dbOpen, begun>>

\* withSnapshotMaintenance, WithRead, MobileReadSnapshot: nothing to write.
ReadDone(p) ==
    /\ pc[p] = "body"
    /\ op[p] = "read"
    /\ Step(p, "release")
    /\ UNCHANGED <<gate, epoch, changeMu, plan, db, dbOpen, begun>>

\* A nested beginWrite marks the outer permit before it writes.
NestedWrite(p) ==
    /\ pc[p] = "body"
    /\ op[p] = "read"
    /\ marked' = marked \union {p}
    /\ MayMutate
    /\ Goto(p, "release")
    /\ UNCHANGED <<gate, epoch, changeMu, op, captured, stored, passes, cancelled,
                   plan, dbOpen, begun>>

\* A nested beginLedgerWrite marks the outer permit, then takes changeMu.
NestedLedgerWrite(p) ==
    /\ pc[p] = "body"
    /\ op[p] \in {"read", "write"}
    /\ marked' = marked \union {p}
    /\ Goto(p, "nestlock")
    /\ UNCHANGED <<gate, epoch, changeMu, op, captured, stored, passes, cancelled,
                   plan, db, dbOpen, begun>>

NestedLedgerBody(p) ==
    /\ pc[p] = "nestbody"
    /\ MayMutate
    /\ changeMu' = NoProc
    /\ Step(p, "release")
    /\ UNCHANGED <<gate, epoch, plan, dbOpen, begun>>

-----------------------------------------------------------------------------
(* Market data workers: latest refresh and history sync.                   *)

\* A cancelled context makes the provider call fail.
ProviderAnswers(p) ==
    /\ pc[p] = "fetch"
    /\ p \notin cancelled
    /\ Step(p, "acquire")
    /\ UNCHANGED <<gate, epoch, changeMu, plan, db, dbOpen, begun>>

ProviderFails(p) ==
    /\ pc[p] = "fetch"
    /\ Step(p, "next")
    /\ UNCHANGED <<gate, epoch, changeMu, plan, db, dbOpen, begun>>

\* persistRefreshWrite compares the captured epoch under the permit.
MutantEpochCurrent(p) == TRUE                   \* mutant: the fence is not read
EpochCurrent(p) == captured[p].epoch = epoch

PersistCheck(p) ==
    /\ pc[p] = "check"
    /\ Step(p, IF EpochCurrent(p) THEN "persist" ELSE "release")
    /\ UNCHANGED <<gate, epoch, changeMu, plan, db, dbOpen, begun>>

\* The append may fail, and may find nothing changed.
Persist(p) ==
    /\ pc[p] = "persist"
    /\ \E ok \in BOOLEAN :
          /\ stored' = IF ok THEN stored \union {p} ELSE stored \ {p}
          /\ IF ok THEN MayMutate ELSE UNCHANGED db
    /\ Goto(p, "release")
    /\ UNCHANGED <<gate, epoch, changeMu, op, marked, captured, passes, cancelled, plan,
                   dbOpen, begun>>

WorkerDone(p) ==
    /\ pc[p] = "next"
    /\ Return(p)
    /\ UNCHANGED <<gate, epoch, changeMu, plan, db, dbOpen, begun>>

\* Bounds the passes of a worker.
AnotherPass(p) == passes[p] < MaxMarket /\ revision <= MaxRevision

\* The next target of a refresh loads the epoch again; a history sync keeps
\* the epoch of its job.
NextTarget(p) ==
    /\ pc[p] = "next"
    /\ p \notin cancelled
    /\ AnotherPass(p)
    /\ passes' = [passes EXCEPT ![p] = @ + 1]
    /\ Goto(p, "fetch")
    /\ \/ Capture(p)
       \/ stored' = stored \ {p} /\ UNCHANGED captured
    /\ UNCHANGED <<gate, epoch, changeMu, op, marked, cancelled, plan, db,
                   dbOpen, begun>>

\* rememberProviderFXPreference: a ledger write of its own, which asks for the
\* permit before changeMu.
MutantRememberPreference(p) ==                  \* mutant: changeMu without the permit
    /\ pc[p] = "next"
    /\ p \in stored
    /\ AnotherPass(p)
    /\ passes' = [passes EXCEPT ![p] = @ + 1]
    /\ op' = [op EXCEPT ![p] = "prefer"]
    /\ Goto(p, "lock")
    /\ UNCHANGED <<gate, epoch, changeMu, marked, captured, stored, cancelled, plan,
                   db, dbOpen, begun>>
RememberPreference(p) ==
    /\ pc[p] = "next"
    /\ p \in stored
    /\ AnotherPass(p)
    /\ passes' = [passes EXCEPT ![p] = @ + 1]
    /\ op' = [op EXCEPT ![p] = "prefer"]
    /\ Goto(p, "acquire")
    /\ UNCHANGED <<gate, epoch, changeMu, marked, captured, stored, cancelled, plan,
                   db, dbOpen, begun>>

\* repriceMetalsForFX: recomputes a metal quote from stored quotes, under an
\* epoch it loads itself.
RepriceMetals(p) ==
    /\ pc[p] = "next"
    /\ p \in stored
    /\ AnotherPass(p)
    /\ passes' = [passes EXCEPT ![p] = @ + 1]
    /\ Capture(p)
    /\ Goto(p, "acquire")
    /\ UNCHANGED <<gate, epoch, changeMu, op, marked, cancelled, plan, db,
                   dbOpen, begun>>

Workers == {q \in Procs : op[q] \in {"market", "prefer"}}

\* CancelAllAndWait, run before a backup or a restore and during shutdown:
\* fence late results, cancel the workers ...
CancelAll(p) ==
    /\ pc[p] = "cancelall"
    /\ epoch' = epoch + 1
    /\ cancelled' = Workers
    /\ Goto(p, "cancelwait")
    /\ UNCHANGED <<gate, changeMu, op, marked, captured, stored, passes, plan, db,
                   dbOpen, begun>>

\* ... and join them.
CancelWait(p) ==
    /\ pc[p] = "cancelwait"
    /\ cancelled = {}
    /\ Step(p, IF op[p] = "shutdown" THEN "close" ELSE "exclude")
    /\ UNCHANGED <<gate, epoch, changeMu, plan, db, dbOpen, begun>>

-----------------------------------------------------------------------------
(* The exclusive permit: backup, cloud backup configuration, restore.      *)

AfterDrain(o) == IF o = "configure" THEN "package" ELSE "exlock"

AcquireExclusiveRefused(p) ==
    /\ pc[p] = "exclude"
    /\ Refuses
    /\ Return(p)
    /\ UNCHANGED <<gate, epoch, changeMu, plan, db, dbOpen, begun>>

\* One critical section: fence, wake the waiting writers, wait if one is in.
AcquireExclusive(p) ==
    /\ pc[p] = "exclude"
    /\ ~Refuses
    /\ exclusive' = TRUE
    /\ epoch' = epoch + 1
    /\ asleep' = IF WritersLeft THEN {p} ELSE {}
    /\ Step(p, IF WritersLeft THEN "drain" ELSE AfterDrain(op[p]))
    /\ begun' = begun + 1
    /\ UNCHANGED <<shuttingDown, writers, revision, nonce, changeMu, plan, db, dbOpen>>

DrainWaits(p) ==
    /\ pc[p] = "drain"
    /\ p \notin asleep
    /\ WritersLeft
    /\ asleep' = asleep \union {p}
    /\ UNCHANGED <<exclusive, shuttingDown, writers, revision, nonce, epoch,
                   changeMu, procs, plan, db, dbOpen, begun>>

DrainDone(p) ==
    /\ pc[p] = "drain"
    /\ p \notin asleep
    /\ ~WritersLeft
    /\ Step(p, AfterDrain(op[p]))
    /\ UNCHANGED <<gate, epoch, changeMu, plan, db, dbOpen, begun>>

ReleaseExclusive(p) ==
    /\ pc[p] = "package"
    /\ revision' = revision + 1
    /\ exclusive' = FALSE
    /\ Broadcast
    /\ Return(p)
    /\ UNCHANGED <<shuttingDown, writers, nonce, epoch, changeMu, plan, db,
                   dbOpen, begun>>

\* CreateBackup: LockWrites, SnapshotTo, UnlockWrites, then packaging.
BackupSnapshot(p) ==
    /\ pc[p] = "exbody"
    /\ op[p] = "backup"
    /\ Step(p, "snapshot")
    /\ UNCHANGED <<gate, epoch, changeMu, plan, db, dbOpen, begun>>

BackupSnapshotDone(p) ==
    /\ pc[p] = "snapshot"
    /\ Step(p, "exunlock")
    /\ UNCHANGED <<gate, epoch, changeMu, plan, db, dbOpen, begun>>

ExclusiveUnlock(p) ==
    /\ pc[p] = "exunlock"
    /\ changeMu' = NoProc
    /\ Step(p, "package")
    /\ UNCHANGED <<gate, epoch, plan, db, dbOpen, begun>>

\* ConfirmRestore: InstallRestore fails before it quiesced anything.
RestoreFailsEarly(p) ==
    /\ pc[p] = "exbody"
    /\ op[p] = "restore"
    /\ Step(p, "exunlock")
    /\ UNCHANGED <<gate, epoch, changeMu, plan, db, dbOpen, begun>>

\* The beforeRestore hook cancels the market workers and joins them while
\* the restore owns the exclusive permit and changeMu.
RestoreQuiesce(p) ==
    /\ pc[p] = "exbody"
    /\ op[p] = "restore"
    /\ cancelled' = Workers
    /\ Goto(p, "join")
    /\ UNCHANGED <<gate, epoch, changeMu, op, marked, captured, stored, passes, plan,
                   db, dbOpen, begun>>

\* Success, or any failure after the hook ran: the permit and changeMu stay
\* held until the process quits.  Close may or may not have been reached.
RestoreKeep(p) ==
    /\ pc[p] = "join"
    /\ cancelled = {}
    /\ dbOpen' \in {FALSE, dbOpen}
    /\ Step(p, "kept")
    /\ UNCHANGED <<gate, epoch, changeMu, plan, db, begun>>

-----------------------------------------------------------------------------
(* Shutdown, crash and restart.                                            *)

\* QuiesceWritesForShutdown; the deferred function then joins the workers.
Quiesce(p) ==
    /\ pc[p] = "quiesce"
    /\ shuttingDown' = TRUE
    /\ epoch' = epoch + 1
    /\ asleep' = IF WritersLeft THEN {p} ELSE {}
    /\ Step(p, IF WritersLeft THEN "quiescing" ELSE "cancelall")
    /\ UNCHANGED <<exclusive, writers, revision, nonce, changeMu, plan, db,
                   dbOpen, begun>>

\* Nothing wakes it before the last writer left: no permit is granted any more.
QuiesceDone(p) ==
    /\ pc[p] = "quiescing"
    /\ p \notin asleep
    /\ ~WritersLeft
    /\ Step(p, "cancelall")
    /\ UNCHANGED <<gate, epoch, changeMu, plan, db, dbOpen, begun>>

\* database.Close.
CloseDatabase(p) ==
    /\ pc[p] = "close"
    /\ dbOpen' = FALSE
    /\ Step(p, "closed")
    /\ UNCHANGED <<gate, epoch, changeMu, plan, db, begun>>

\* The process ends (exit or crash) and starts again.  Clients keep their
\* tokens.  A kept restore leaves a replacement database behind, or not.
Restart ==
    /\ nonce <= MaxRestarts
    /\ nonce' = nonce + 1
    /\ exclusive' = FALSE
    /\ shuttingDown' = FALSE
    /\ writers' = 0
    /\ revision' = 0
    /\ asleep' = {}
    /\ epoch' = 0
    /\ changeMu' = NoProc
    /\ op' = [p \in Procs |-> "none"]
    /\ pc' = [p \in Procs |-> "idle"]
    /\ marked' = {}
    /\ stored' = {}
    /\ captured' = [p \in Procs |-> NoCapture]
    /\ passes' = [p \in Procs |-> 0]
    /\ cancelled' = {}
    /\ IF \E p \in Procs : pc[p] \in {"join", "kept"} THEN MayMutate ELSE UNCHANGED db
    /\ dbOpen' = TRUE
    /\ begun' = 0
    /\ UNCHANGED plan

-----------------------------------------------------------------------------
PermitStep(p) ==
    \/ AcquireGranted(p) \/ AcquireWaits(p) \/ AcquireRefused(p) \/ ReleasePermit(p)
ChangeMuStep(p) == LockChangeMu(p) \/ UnlockChangeMu(p) \/ PeekDone(p)
BodyStep(p) ==
    \/ WriteBody(p) \/ PreviewRead(p) \/ PreviewToken(p) \/ RecordCheck(p) \/ RecordCommit(p)
    \/ ReadDone(p) \/ NestedWrite(p) \/ NestedLedgerWrite(p) \/ NestedLedgerBody(p)
MarketStep(p) ==
    \/ ProviderAnswers(p) \/ ProviderFails(p) \/ PersistCheck(p) \/ Persist(p)
    \/ WorkerDone(p) \/ NextTarget(p) \/ RememberPreference(p) \/ RepriceMetals(p)
    \/ CancelAll(p) \/ CancelWait(p)
ExclusiveStep(p) ==
    \/ AcquireExclusiveRefused(p) \/ AcquireExclusive(p)
    \/ DrainWaits(p) \/ DrainDone(p) \/ ReleaseExclusive(p)
    \/ BackupSnapshot(p) \/ BackupSnapshotDone(p) \/ ExclusiveUnlock(p)
    \/ RestoreFailsEarly(p) \/ RestoreQuiesce(p) \/ RestoreKeep(p)
ShutdownStep(p) == Quiesce(p) \/ QuiesceDone(p) \/ CloseDatabase(p)

Next ==
    \/ \E p \in Procs : \E o \in Menu : Call(p, o)
    \/ \E p \in Procs : \/ PermitStep(p) \/ ChangeMuStep(p) \/ BodyStep(p)
                         \/ MarketStep(p) \/ ExclusiveStep(p) \/ ShutdownStep(p)
    \/ Restart

Spec == Init /\ [][Next]_vars

\* The Go scheduler runs every runnable goroutine, bodies and provider calls
\* end (the providers have timeouts), and sync.Mutex hands the lock over to a
\* goroutine that has waited (its starvation mode): strong fairness.
Fairness ==
    \A p \in Procs :
        /\ WF_vars(\/ PermitStep(p) \/ UnlockChangeMu(p) \/ PeekDone(p) \/ BodyStep(p)
                   \/ MarketStep(p) \/ ExclusiveStep(p) \/ ShutdownStep(p))
        /\ SF_vars(LockChangeMu(p))

FairSpec == Spec /\ Fairness

-----------------------------------------------------------------------------
(* Properties.                                                             *)

GateTypeOK ==
    /\ exclusive \in BOOLEAN /\ shuttingDown \in BOOLEAN
    /\ writers \in {0, 1}
    /\ revision \in Nat /\ nonce \in Nat \ {0} /\ epoch \in Nat
    /\ asleep \subseteq Procs
    /\ changeMu \in Procs \union {NoProc}
    /\ plan \in [Procs -> [nonce : Nat, revision : Nat, seen : Nat]]
    /\ db \in Nat /\ dbOpen \in BOOLEAN /\ begun \in Nat
ProcTypeOK ==
    /\ op \in [Procs -> Ops] /\ pc \in [Procs -> Labels]
    /\ marked \subseteq Procs /\ stored \subseteq Procs /\ cancelled \subseteq Procs
    /\ captured \in [Procs -> [epoch : Nat, begun : Nat]]
    /\ passes \in [Procs -> Nat]
TypeOK == GateTypeOK /\ ProcTypeOK

\* The ordinary permit has one owner, and none while a backup or restore that
\* has been granted the exclusive permit runs, however the waiting writers,
\* the drain and the market workers interleave.
MutualExclusion ==
    \A p, q \in Procs : p # q =>
        ~ /\ HoldsPermit(p) \/ HoldsExclusive(p)
          /\ HoldsPermit(q) \/ HoldsExclusive(q)

\* The gate implements LedgerGate: whatever the interleaving, the database
\* changes only inside the permit, and under a guarded permit only as a
\* compare-and-set against the version the client's preview read.
Role(p) == CASE op[p] \in ExclusiveOps -> "exclusive"
             [] op[p] = "preview"       -> "reader"
             [] op[p] = "record"        -> "guarded"
             [] OTHER                   -> "writer"
Inside == {p \in Procs : HoldsPermit(p) \/ HoldsExclusive(p)}
Owner  == IF Inside = {} THEN [who |-> NoProc, role |-> "none"]
          ELSE LET p == CHOOSE q \in Inside : TRUE IN [who |-> p, role |-> Role(p)]
Gate == INSTANCE LedgerGate
            WITH Clients <- Procs, Nobody <- NoProc, owner <- Owner,
                 view <- [p \in Procs |-> plan[p].seen]
ImplementsLedgerGate == Gate!Spec

\* RecordChangeGuarded: when the commit of a guarded change is about to run,
\* the database is still the version its preview read, across concurrent
\* writers, backups, double submissions and restarts of the process.
GuardedCommit ==
    \A p \in Procs : pc[p] = "commit" => plan[p].seen = db

\* "A cursor must neither certify a later write nor stale itself": while no
\* permit is out, a token or mobile data version that is still current was
\* taken from the database as it is now.
CurrentTokenCertifies ==
    (writers = 0 /\ ~exclusive) =>
        \A p \in Procs : TokenCurrent(p) => plan[p].seen = db

\* "a late provider result cannot write after exclusive work has begun": at
\* the write of persistRefreshWrite, an exclusive operation that began since
\* the result was requested can only be one still waiting for this writer.
Draining == \E q \in Procs : pc[q] = "drain"
NoLateResult ==
    \A p \in Procs : pc[p] = "persist" =>
        captured[p].begun >= begun - (IF Draining THEN 1 ELSE 0)

\* The SQLite session is only closed once no goroutine holds a write permit.
ClosedMeansDrained ==
    ~dbOpen => \A p \in Procs : ~HoldsPermit(p)

\* Once a restore keeps its permit, or shutdown has drained the writers, the
\* database of this process does not change any more.
Fenced ==
    \E p \in Procs :
        \/ pc[p] \in {"kept", "close", "closed"}
        \/ op[p] = "shutdown" /\ pc[p] \in {"cancelall", "cancelwait"}
NoWriteAfterFence ==
    [][Fenced /\ nonce' = nonce => db' = db]_vars

\* A backup or restore that has fenced the gate is granted it: the writer it
\* waits for leaves and wakes it.
ExclusiveIsGranted == Draining ~> ~Draining

\* A restore joins the market workers although it owns the exclusive permit
\* and changeMu: a worker about to store a result, or to remember a provider's
\* preference (which takes both), is refused and ends.
Joining == \E p \in Procs : pc[p] = "join"
RestoreJoinsWorkers == Joining ~> ~Joining

\* Shutdown drains the writers, joins the workers and closes the database.
Quitting == \E p \in Procs : op[p] = "shutdown"
ShutdownCompletes == Quitting ~> (~dbOpen \/ ~Quitting)

\* A writer still waiting when the process shuts down is refused.
ShutdownRefusesWaiters ==
    \A p \in Procs : shuttingDown /\ pc[p] = "acquire" ~> pc[p] # "acquire"
=============================================================================
