--------------------------- MODULE ContinuousBackup ---------------------------
(***************************************************************************)
(* The continuous cloud backup (internal/infrastructure/continuousbackup): *)
(* the Manager, which replicates the database to one remote stream at a    *)
(* time and seals a stream it closed cleanly, and the retention cleanup,   *)
(* which deletes whole sealed streams that expired.                        *)
(*                                                                         *)
(* A stream is numbered in the order of creation.  Remote storage holds    *)
(* for each stream a set of objects: 0 is its identity (stream.json), n is *)
(* the LTX file of its nth transaction.  The local control database holds  *)
(* the configuration, the ledger of streams and the retention policy, and  *)
(* survives a crash; everything else belongs to the process.  Any remote   *)
(* call, file call or control database write may fail.                     *)
(***************************************************************************)
EXTENDS Integers, FiniteSets, FiniteSetsExt

CONSTANTS MaxStreams,   \* streams ever created
          Initially,    \* of these, the ones that are sealed at the start
          MaxTx,        \* transactions captured in one stream
          MaxDamage,    \* remote objects that storage loses
          Menu          \* operations the users of the manager call

Operations == {"configure", "backupNow", "stage", "pause", "close", "restart",
               "policy", "preview", "execute", "background"}

ASSUME BackupBounds ==
    /\ MaxStreams \in Nat /\ MaxTx \in Nat \ {0} /\ MaxDamage \in Nat
    /\ Initially \in 0 .. MaxStreams
    /\ Menu \subseteq Operations

VARIABLES
    \* the control database and remote storage
    enabled,     \* config.Enabled
    policy,      \* RetentionStatus: Enabled and Days
    attempted,   \* LastAttempt is less than 24 hours ago
    ledger,      \* backup_streams: state, FinalTXID and manifest of each stream
    age,         \* how old a seal is: 0, 1 (30 days) or 2 (90 days)
    remote,      \* the objects of each stream in the bucket
    \* the process
    open,        \* m.replicaDB and m.replicaStore are set
    identity,    \* m.identity: the last stream started
    initialized, \* m.initialized
    lastSync,    \* m.lastSyncSucceeded
    worker,      \* m.workerDone is set
    sync,        \* where m.sync is, in the worker or in the operation
    local,       \* transactions captured in the local LTX files
    dirty,       \* the database has changes that no LTX file holds
    op,          \* the operation that holds m.op, and where it is
    preview,     \* m.retentionPreview
    pins,        \* m.previewPins
    closed,      \* m.closed
    paused,      \* m.restorePaused
    \* ghosts
    missed,      \* streams closed with changes that are not in storage
    damaged,     \* streams storage lost an object of
    fenced,      \* a restore paused replication, and nobody enabled it since
    runs         \* background cleanups since the last 24 hours passed

disk    == <<enabled, policy, attempted, ledger, age, remote>>
replica == <<open, identity, initialized, local>>
syncing == <<lastSync, worker, sync>>
flags   == <<preview, pins, closed, paused>>
ghosts  == <<missed, damaged, fenced, runs>>
vars    == <<disk, replica, syncing, dirty, op, flags, ghosts>>

-----------------------------------------------------------------------------
(* Streams, objects and operations.                                        *)

Streams  == 1 .. MaxStreams
Identity == 0
Objects  == 0 .. MaxTx
Upto(n)  == {Identity} \union (1 .. n)
Periods  == {30, 90}
Policies == [on : BOOLEAN, days : Periods]

NoRow == [state |-> "none", finalTx |-> 0, manifest |-> {}]
SealedRow(n) == [state |-> "sealed", finalTx |-> n, manifest |-> {}]

State(s)   == ledger[s].state
Current(s) == open /\ s = identity
Restorable(s) == Upto(ledger[s].finalTx) \subseteq remote[s]
Expired(s, days) == age[s] >= (IF days = 30 THEN 1 ELSE 2)

Snapshot == [records |-> ledger,
             objects |-> [s \in Streams |-> IF Current(s) THEN {} ELSE remote[s]]]
NoPrint   == [records |-> [s \in Streams |-> NoRow], objects |-> [s \in Streams |-> {}]]
NoPreview == [days |-> 0, eligible |-> {}, print |-> NoPrint]

Idle == [kind |-> "idle", pc |-> "idle", want |-> FALSE, old |-> FALSE,
         confirmed |-> FALSE, days |-> 0, shown |-> NoPreview, print |-> NoPrint,
         todo |-> {}, target |-> 0]

Free      == op.kind = "idle"
Usable    == ~closed /\ ~paused
Goto(pc)  == op' = [op EXCEPT !.pc = pc]
End       == op' = Idle
Begin(kind, pc) == kind \in Menu /\ Free /\ op' = [Idle EXCEPT !.kind = kind, !.pc = pc]

\* DrainForReplication holds the only connection of the application's pool.
Drained == op.pc \in {"final", "close"}

Init ==
    /\ enabled = FALSE /\ policy \in Policies /\ attempted = FALSE
    /\ ledger = [s \in Streams |-> IF s <= Initially THEN SealedRow(1) ELSE NoRow]
    /\ age = [s \in Streams |-> 0]
    /\ remote = [s \in Streams |-> IF s <= Initially THEN Upto(1) ELSE {}]
    /\ open = FALSE /\ identity = 0 /\ initialized = FALSE /\ local = 0
    /\ lastSync = FALSE /\ worker = FALSE /\ sync = "none"
    /\ dirty = FALSE /\ op = Idle
    /\ preview = NoPreview /\ pins = {} /\ closed = FALSE /\ paused = FALSE
    /\ missed = {} /\ damaged = {} /\ fenced = FALSE /\ runs = 0

-----------------------------------------------------------------------------
(* m.sync, called by the worker every five seconds, by BackupNow and by    *)
(* Close: the identity first, then the snapshot under a drain, then        *)
(* SyncAndWait, which captures the changes and uploads what is missing.    *)

MutantFirstStep == IF initialized THEN "capture" ELSE "init" \* mutant: no identity

FirstStep == IF initialized THEN "capture" ELSE "identity"

WorkerSyncs ==
    /\ worker /\ sync = "none"
    /\ sync' = FirstStep /\ lastSync' = FALSE
    /\ UNCHANGED <<disk, replica, worker, dirty, op, flags, ghosts>>

\* The result of a sync: the operation that called it goes on, if it was one.
SyncReturns(ok) ==
    /\ sync' = "none" /\ lastSync' = ok
    /\ \/ op.pc # "sync" /\ UNCHANGED <<op, worker>>
       \/ op.pc = "sync" /\ op.kind = "backupNow" /\ End /\ worker' = TRUE
       \/ op.pc = "sync" /\ op.kind # "backupNow" /\ Goto("drain") /\ UNCHANGED worker

Upload(o) == remote' = [remote EXCEPT ![identity] = @ \union {o}]
Keep == UNCHANGED <<enabled, policy, attempted, ledger, age>>

EnsureIdentity ==
    /\ sync = "identity"
    /\ Upload(Identity)
    /\ sync' = "init"
    /\ Keep /\ UNCHANGED <<replica, lastSync, worker, dirty, op, flags, ghosts>>

\* replicaDB.Sync under a drain: the first LTX file is a snapshot.
Initialize ==
    /\ sync = "init"
    /\ initialized' = TRUE /\ local' = 1 /\ dirty' = FALSE
    /\ sync' = "capture"
    /\ UNCHANGED <<disk, open, identity, lastSync, worker, op, flags, ghosts>>

Captured == IF dirty THEN local + 1 ELSE local

Capture ==
    /\ sync = "capture"
    /\ local' = Captured /\ dirty' = FALSE
    /\ sync' = "upload"
    /\ UNCHANGED <<disk, open, identity, initialized, lastSync, worker, op, flags, ghosts>>

Missing == (1 .. local) \ remote[identity]

UploadNext ==
    /\ sync = "upload" \/ op.pc = "final"
    /\ Missing # {}
    /\ Upload(Min(Missing))
    /\ Keep /\ UNCHANGED <<replica, syncing, dirty, op, flags, ghosts>>

SyncConfirms ==
    /\ sync = "upload" /\ Missing = {}
    /\ SyncReturns(TRUE)
    /\ UNCHANGED <<disk, replica, dirty, flags, ghosts>>

\* A remote call, the drain, SyncStatus or the status write failed, or the
\* ten seconds passed.
SyncFails ==
    /\ sync # "none"
    /\ SyncReturns(FALSE)
    /\ UNCHANGED <<disk, replica, dirty, flags, ghosts>>

\* The application commits a transaction.  Before the snapshot there is
\* nothing to track.
AppWrites ==
    /\ open /\ initialized /\ ~dirty /\ ~Drained /\ local < MaxTx
    /\ dirty' = TRUE
    /\ UNCHANGED <<disk, replica, syncing, op, flags, ghosts>>

-----------------------------------------------------------------------------
(* startLocked: every start is a new stream.                               *)

Unused == {s \in Streams : State(s) = "none"}
AddRow(s) == ledger' = [ledger EXCEPT ![s] = [NoRow EXCEPT !.state = "open"]]

StreamStarts ==
    /\ op.pc \in {"start", "startOld"} /\ ~worker /\ Unused # {}
    /\ LET s == Min(Unused) IN AddRow(s) /\ identity' = s
    /\ open' = TRUE /\ initialized' = FALSE /\ local' = 0 /\ dirty' = FALSE
    /\ worker' = TRUE
    /\ End
    /\ UNCHANGED <<enabled, policy, attempted, age, remote, lastSync, sync, flags, ghosts>>

\* createStream failed, or the library could not open the database: then the
\* row of the stream stays in the ledger.  Only Configure undoes its save.
StartFails ==
    /\ op.pc \in {"start", "startOld"}
    /\ \/ UNCHANGED <<ledger, identity>>
       \/ Unused # {} /\ LET s == Min(Unused) IN AddRow(s) /\ identity' = s
    /\ IF op.pc = "start" THEN Goto("undo") ELSE End
    /\ UNCHANGED <<enabled, policy, attempted, age, remote, open, initialized, local,
                   syncing, dirty, flags, ghosts>>

-----------------------------------------------------------------------------
(* stopLocked: join the worker, drain the pool, confirm the last changes,  *)
(* close the library's handles, seal the stream.                           *)

Resumes == op.kind \in {"configure", "pause"}
AfterStop == IF op.kind = "close" THEN "closed" ELSE "save"

MutantJoinWorker == \* mutant: the worker is cancelled, not awaited
    /\ op.pc = "join"
    /\ Goto(CASE op.kind = "backupNow" -> "sync" [] open -> "drain" [] OTHER -> AfterStop)
    /\ sync' = IF op.kind = "backupNow" THEN FirstStep ELSE sync
    /\ UNCHANGED <<disk, replica, worker, lastSync, dirty, flags, ghosts>>

\* pauseWorkerLocked cancels a sync under way and waits for it to return.
JoinWorker ==
    /\ op.pc = "join"
    /\ worker' = FALSE
    /\ IF op.kind = "backupNow" \/ (op.kind = "close" /\ open /\ ~paused)
       THEN Goto("sync") /\ sync' = FirstStep /\ lastSync' = FALSE
       ELSE /\ Goto(IF open THEN "drain" ELSE AfterStop)
            /\ sync' = "none" /\ UNCHANGED lastSync
    /\ UNCHANGED <<disk, replica, dirty, flags, ghosts>>

MutantDrain == \* mutant: the last sync is trusted, the final one is skipped
    /\ op.pc = "drain"
    /\ op' = [op EXCEPT !.pc = "close", !.confirmed = initialized /\ lastSync]
    /\ UNCHANGED <<disk, replica, syncing, dirty, flags, ghosts>>

\* The pool is drained; SyncAndWait captures what changed since the last sync.
Drain ==
    /\ op.pc = "drain"
    /\ IF initialized /\ lastSync
       THEN Goto("final") /\ local' = Captured /\ dirty' = FALSE
       ELSE Goto("close") /\ UNCHANGED <<local, dirty>>
    /\ UNCHANGED <<disk, open, identity, initialized, syncing, flags, ghosts>>

MutantDrainFails == \* mutant: nobody launches the worker again
    /\ op.pc = "drain"
    /\ End
    /\ UNCHANGED <<disk, replica, syncing, dirty, flags, ghosts>>

\* The drain was cancelled: the handles are untouched, and a caller that goes
\* on living gets its worker back.
DrainFails ==
    /\ op.pc = "drain"
    /\ worker' = Resumes
    /\ End
    /\ UNCHANGED <<disk, replica, lastSync, sync, dirty, flags, ghosts>>

FinalConfirms ==
    /\ op.pc = "final" /\ Missing = {}
    /\ op' = [op EXCEPT !.pc = "close", !.confirmed = TRUE]
    /\ UNCHANGED <<disk, replica, syncing, dirty, flags, ghosts>>

FinalFails ==
    /\ op.pc = "final"
    /\ Goto("close")
    /\ UNCHANGED <<disk, replica, syncing, dirty, flags, ghosts>>

DropHandles ==
    /\ open' = FALSE /\ initialized' = FALSE
    /\ missed' = IF dirty \/ ~(Upto(local) \subseteq remote[identity])
                 THEN missed \union {identity} ELSE missed
    /\ UNCHANGED <<identity, local, damaged, fenced, runs>>

\* A cancelled or late close is no error, but it is no confirmation either.
CloseHandles ==
    /\ op.pc = "close"
    /\ DropHandles
    /\ \E inTime \in BOOLEAN :
         op' = [op EXCEPT !.pc = "seal", !.confirmed = @ /\ inTime]
    /\ UNCHANGED <<disk, syncing, dirty, flags>>

\* Any other error ends the stream unsealed and starts another.
CloseHandlesFails ==
    /\ op.pc = "close"
    /\ DropHandles
    /\ IF Resumes /\ enabled /\ ~paused THEN Goto("startOld") ELSE End
    /\ UNCHANGED <<disk, syncing, dirty, flags>>

MutantSeal == \* mutant: the handles of a sealed stream are not given up
    /\ op.pc = "seal"
    /\ Goto(AfterStop)
    /\ open' = op.confirmed
    /\ ledger' = IF op.confirmed THEN [ledger EXCEPT ![identity] = SealedRow(local)]
                 ELSE ledger
    /\ UNCHANGED <<enabled, policy, attempted, age, remote, identity, initialized, local,
                   syncing, dirty, flags, ghosts>>

\* configStore.seal; a failed seal leaves the stream open, hence protected.
Seal ==
    /\ op.pc = "seal"
    /\ Goto(AfterStop)
    /\ \/ op.confirmed /\ ledger' = [ledger EXCEPT ![identity] = SealedRow(local)]
       \/ UNCHANGED ledger
    /\ UNCHANGED <<enabled, policy, attempted, age, remote, replica, syncing, dirty,
                   flags, ghosts>>

-----------------------------------------------------------------------------
(* Configure, PauseForRestore, BackupNow, Close, Stage.                    *)

Configure(want) ==
    /\ Usable
    /\ "configure" \in Menu /\ Free
    /\ op' = [Idle EXCEPT !.kind = "configure", !.pc = "join", !.want = want, !.old = enabled]
    /\ preview' = NoPreview
    /\ UNCHANGED <<disk, replica, syncing, dirty, pins, closed, paused, ghosts>>

PauseForRestore ==
    /\ ~closed
    /\ "pause" \in Menu /\ Free
    /\ op' = [Idle EXCEPT !.kind = "pause", !.pc = "join", !.old = enabled]
    /\ UNCHANGED <<disk, replica, syncing, dirty, flags, ghosts>>

BackupNow ==
    /\ Usable /\ open
    /\ Begin("backupNow", "join")
    /\ UNCHANGED <<disk, replica, syncing, dirty, flags, ghosts>>

Close ==
    /\ ~closed
    /\ Begin("close", "join")
    /\ UNCHANGED <<disk, replica, syncing, dirty, flags, ghosts>>

Persist(on) ==
    /\ enabled' = on
    /\ UNCHANGED <<policy, attempted, ledger, age, remote>>

MutantSave == \* mutant: the pause is only remembered by the process
    /\ op.pc = "save"
    /\ IF op.kind = "configure" THEN Persist(op.want) ELSE UNCHANGED disk
    /\ IF op.want THEN Goto("start") ELSE End
    /\ paused' = (op.kind = "pause")
    /\ fenced' = IF op.kind = "pause" THEN TRUE ELSE fenced /\ ~op.want
    /\ UNCHANGED <<replica, syncing, dirty, preview, pins, closed, missed, damaged, runs>>

\* store.save: the new configuration, or the pause, is durable before the
\* next step.  PauseForRestore leaves want at FALSE.
Save ==
    /\ op.pc = "save"
    /\ Persist(op.want)
    /\ IF op.want THEN Goto("start") ELSE End
    /\ paused' = (paused \/ op.kind = "pause")
    /\ fenced' = IF op.kind = "pause" THEN TRUE ELSE fenced /\ ~op.want
    /\ UNCHANGED <<replica, syncing, dirty, preview, pins, closed, missed, damaged, runs>>

MutantSaveFails == \* mutant: the worker comes back whatever the configuration was
    /\ op.pc = "save"
    /\ Goto("startOld")
    /\ UNCHANGED <<disk, replica, syncing, dirty, flags, ghosts>>

SaveFails ==
    /\ op.pc = "save"
    /\ IF op.old THEN Goto("startOld") ELSE End
    /\ UNCHANGED <<disk, replica, syncing, dirty, flags, ghosts>>

\* Configure could not start the new configuration and writes the old one back.
Undo ==
    /\ op.pc = "undo"
    /\ Persist(op.old)
    /\ IF op.old THEN Goto("startOld") ELSE End
    /\ UNCHANGED <<replica, syncing, dirty, flags, ghosts>>

UndoFails ==
    /\ op.pc = "undo"
    /\ End
    /\ UNCHANGED <<disk, replica, syncing, dirty, flags, ghosts>>

CloseReturns ==
    /\ op.pc = "closed"
    /\ closed' = TRUE
    /\ End
    /\ UNCHANGED <<disk, replica, syncing, dirty, preview, pins, paused, ghosts>>

MutantStageable(s) == State(s) # "deleted" \* mutant: deleting streams are offered

Stageable(s) == State(s) \notin {"deleting", "deleted"}

\* A candidate restored from s was verified: s is pinned for this session.
Stage(s) ==
    /\ "stage" \in Menu /\ Free /\ ~closed
    /\ Stageable(s) /\ Upto(1) \subseteq remote[s]
    /\ pins' = pins \union {s}
    /\ preview' = NoPreview
    /\ UNCHANGED <<disk, replica, syncing, dirty, op, closed, paused, ghosts>>

\* The process ends, anywhere, and a new one reads the configuration.
Restart ==
    /\ "restart" \in Menu
    /\ op' = IF enabled THEN [Idle EXCEPT !.kind = "boot", !.pc = "startOld"] ELSE Idle
    /\ open' = FALSE /\ identity' = 0 /\ initialized' = FALSE /\ local' = 0
    /\ lastSync' = FALSE /\ worker' = FALSE /\ sync' = "none" /\ dirty' = FALSE
    /\ preview' = NoPreview /\ pins' = {} /\ closed' = FALSE /\ paused' = FALSE
    /\ UNCHANGED <<disk, ghosts>>

-----------------------------------------------------------------------------
(* Retention: the policy, the preview, and the two ways to run a cleanup.  *)

ConfigureRetention(p) ==
    /\ "policy" \in Menu /\ Free /\ Usable
    /\ policy' = p
    /\ preview' = NoPreview
    /\ UNCHANGED <<enabled, attempted, ledger, age, remote, replica, syncing, dirty, op,
                   pins, closed, paused, ghosts>>

PreviewRetention(days) ==
    /\ "preview" \in Menu /\ Free /\ Usable
    /\ op' = [Idle EXCEPT !.kind = "preview", !.pc = "scan", !.days = days]
    /\ UNCHANGED <<disk, replica, syncing, dirty, flags, ghosts>>

Approved == preview.days = policy.days /\ policy.on

\* ExecuteRetention consumes the preview even when it refuses it or cannot
\* write the attempt.
ExecuteRetention ==
    /\ "execute" \in Menu /\ Free /\ Usable /\ preview # NoPreview
    /\ preview' = NoPreview
    /\ \/ /\ Approved
          /\ attempted' = TRUE
          /\ op' = [Idle EXCEPT !.kind = "execute", !.pc = "scan", !.days = policy.days,
                                !.shown = preview]
       \/ UNCHANGED <<attempted, op>>
    /\ UNCHANGED <<enabled, policy, ledger, age, remote, replica, syncing, dirty, pins,
                   closed, paused, ghosts>>

MutantAttempt == UNCHANGED attempted \* mutant: the attempt is not written

\* The attempt is durable before any remote call.
Attempt == attempted' = TRUE

\* The hourly tick; it waits for a preview somebody is looking at.
BackgroundCleanup ==
    /\ "background" \in Menu /\ Free /\ Usable /\ preview = NoPreview
    /\ policy.on /\ ~attempted
    /\ Attempt
    /\ op' = [Idle EXCEPT !.kind = "background", !.pc = "scan", !.days = policy.days]
    /\ runs' = runs + 1
    /\ UNCHANGED <<enabled, policy, ledger, age, remote, replica, syncing, dirty, flags,
                   missed, damaged, fenced>>

\* Why scanRetentionLocked gives up: objects of a deleted stream, or a sealed
\* stream whose identity is gone.
Inconsistent(s) ==
    /\ remote[s] # {}
    /\ \/ State(s) = "deleted"
       \/ State(s) = "sealed" /\ Identity \notin remote[s]

NewestSealed ==
    LET S == {s \in Streams : State(s) = "sealed" /\ ~Current(s)}
    IN  {s \in S : Cardinality({t \in S : t > s}) < 2}

Ready(verified) == Cardinality(verified) >= 2

MutantEligible(s, verified, days) == \* mutant: a stream without objects has nothing to delete
    /\ ~Current(s) /\ s \notin pins
    /\ State(s) \in {"sealed", "deleting"}
    /\ s \notin verified /\ remote[s] # {}
    /\ Ready(verified) /\ Expired(s, days)

\* planRetention.
Eligible(s, verified, days) ==
    /\ ~Current(s) /\ s \notin pins
    /\ State(s) \in {"sealed", "deleting"}
    /\ s \notin verified
    /\ remote[s] # {} \/ State(s) = "deleting"
    /\ Ready(verified)
    /\ Expired(s, days)

Plan(verified, days) == {s \in Streams : Eligible(s, verified, days)}

\* The newest two sealed streams are restored to temporary databases; each
\* restore may fail for reasons of its own.
ScanSucceeds(verified) ==
    /\ op.pc = "scan"
    /\ verified \subseteq {s \in NewestSealed : Restorable(s)}
    /\ \A s \in Streams : ~Inconsistent(s)
    /\ LET plan == Plan(verified, op.days) IN
         IF op.kind = "preview"
         THEN /\ preview' = [days |-> op.days, eligible |-> plan, print |-> Snapshot]
              /\ End
         ELSE /\ \/ op.kind = "background"
                 \/ Snapshot = op.shown.print /\ plan = op.shown.eligible
              /\ op' = [op EXCEPT !.pc = "recheck", !.todo = plan, !.print = Snapshot]
              /\ UNCHANGED preview
    /\ UNCHANGED <<disk, replica, syncing, dirty, pins, closed, paused, ghosts>>

\* A remote call failed or answered nonsense, a preview was stale, the five
\* minutes passed, or CancelCleanup was called (by Configure, PauseForRestore,
\* Close or the user): the cleanup stops where it is.
CleanupStops ==
    /\ op.pc \in {"scan", "recheck", "delete"}
    /\ End
    /\ UNCHANGED <<disk, replica, syncing, dirty, flags, ghosts>>

MutantRecheckPasses == TRUE \* mutant: the inventory is not read again

RecheckPasses == Snapshot = op.print

\* executePlanLocked reads the whole inventory again before it touches anything.
Recheck ==
    /\ op.pc = "recheck" /\ RecheckPasses
    /\ Goto("delete")
    /\ UNCHANGED <<disk, replica, syncing, dirty, flags, ghosts>>

Target == op.target

\* The manifest is durable before the first object is deleted.
MarkDeleting(s) ==
    /\ op.pc = "delete" /\ Target = 0 /\ s \in op.todo
    /\ ~Current(s) /\ s \notin pins
    /\ ledger' = IF State(s) = "sealed"
                 THEN [ledger EXCEPT ![s].state = "deleting", ![s].manifest = remote[s]]
                 ELSE ledger
    /\ op' = [op EXCEPT !.target = s]
    /\ UNCHANGED <<enabled, policy, attempted, age, remote, replica, syncing, dirty,
                   flags, ghosts>>

Remaining == remote[Target]

\* Data first, stream.json last.
NextObject == IF Remaining = {Identity} THEN Identity ELSE Min(Remaining \ {Identity})

\* The response of a delete may be lost: the object is gone, the cleanup stops.
DeleteObject(answered) ==
    /\ op.pc = "delete" /\ Target # 0 /\ Remaining # {}
    /\ Remaining \subseteq ledger[Target].manifest
    /\ remote' = [remote EXCEPT ![Target] = @ \ {NextObject}]
    /\ IF answered THEN UNCHANGED op ELSE End
    /\ Keep /\ UNCHANGED <<replica, syncing, dirty, flags, ghosts>>

MutantGone == Remaining \subseteq {Identity} \* mutant: only the data is confirmed absent

Gone == Remaining = {}

Tombstone ==
    /\ op.pc = "delete" /\ Target # 0 /\ Gone
    /\ ledger' = [ledger EXCEPT ![Target].state = "deleted", ![Target].manifest = {}]
    /\ op' = [op EXCEPT !.target = 0, !.todo = @ \ {Target}]
    /\ UNCHANGED <<enabled, policy, attempted, age, remote, replica, syncing, dirty,
                   flags, ghosts>>

FinishCleanup ==
    /\ op.pc = "delete" /\ Target = 0 /\ op.todo = {}
    /\ End
    /\ UNCHANGED <<disk, replica, syncing, dirty, flags, ghosts>>

-----------------------------------------------------------------------------
(* The world.                                                              *)

\* Fifteen minutes pass.
PreviewExpires ==
    /\ preview # NoPreview
    /\ preview' = NoPreview
    /\ UNCHANGED <<disk, replica, syncing, dirty, op, pins, closed, paused, ghosts>>

\* A day or a month passes.  A cleanup takes five minutes at most, so none is
\* under way a day after it started.
TimePasses(month) ==
    /\ Free
    /\ attempted' = FALSE /\ runs' = 0 /\ preview' = NoPreview
    /\ age' = IF month
              THEN [s \in Streams |-> IF State(s) \in {"sealed", "deleting"} /\ age[s] < 2
                                      THEN age[s] + 1 ELSE age[s]]
              ELSE age
    /\ UNCHANGED <<enabled, policy, ledger, remote, replica, syncing, dirty, op, pins,
                   closed, paused, missed, damaged, fenced>>

\* Storage loses an object.  Between the recheck and the end of a cleanup the
\* code cannot notice: continuous-backup.md asks that nobody else touches the
\* streams then.
Damage(s, o) ==
    /\ Cardinality(damaged) < MaxDamage /\ s \notin damaged
    /\ op.pc # "delete"
    /\ State(s) = "sealed" /\ o \in remote[s]
    /\ remote' = [remote EXCEPT ![s] = @ \ {o}]
    /\ damaged' = damaged \union {s}
    /\ Keep /\ UNCHANGED <<replica, syncing, dirty, op, flags, missed, fenced, runs>>

Next ==
    \/ WorkerSyncs \/ EnsureIdentity \/ Initialize \/ Capture \/ UploadNext
    \/ SyncConfirms \/ SyncFails \/ AppWrites
    \/ StreamStarts \/ StartFails
    \/ JoinWorker \/ Drain \/ DrainFails \/ FinalConfirms \/ FinalFails
    \/ CloseHandles \/ CloseHandlesFails \/ Seal
    \/ \E want \in BOOLEAN : Configure(want)
    \/ PauseForRestore \/ BackupNow \/ Close
    \/ Save \/ SaveFails \/ Undo \/ UndoFails \/ CloseReturns
    \/ \E s \in Streams : Stage(s)
    \/ Restart
    \/ \E p \in Policies : ConfigureRetention(p)
    \/ \E days \in Periods : PreviewRetention(days)
    \/ ExecuteRetention \/ BackgroundCleanup
    \/ \E verified \in SUBSET Streams : ScanSucceeds(verified)
    \/ CleanupStops \/ Recheck
    \/ \E s \in Streams : MarkDeleting(s)
    \/ \E answered \in BOOLEAN : DeleteObject(answered)
    \/ Tombstone \/ FinishCleanup
    \/ PreviewExpires
    \/ \E month \in BOOLEAN : TimePasses(month)
    \/ \E s \in Streams, o \in Objects : Damage(s, o)

Spec == Init /\ [][Next]_vars

\* Storage, the control database and the scheduler recover: a step that can
\* succeed again and again, through failures and restarts, succeeds once.
SyncFairness ==
    /\ SF_vars(WorkerSyncs) /\ SF_vars(EnsureIdentity \/ Initialize \/ Capture)
    /\ SF_vars(UploadNext) /\ WF_vars(SyncConfirms \/ SyncFails)
    /\ WF_vars(JoinWorker \/ Drain \/ DrainFails \/ FinalConfirms \/ FinalFails
               \/ CloseHandles \/ Seal \/ Save \/ SaveFails \/ Undo \/ UndoFails
               \/ StreamStarts \/ StartFails)

CleanupFairness ==
    /\ SF_vars(BackgroundCleanup)
    /\ SF_vars(/\ op.kind = "background"
               /\ \E verified \in SUBSET Streams : Ready(verified) /\ ScanSucceeds(verified))
    /\ SF_vars(op.todo # {} /\ Recheck)
    /\ SF_vars(\E s \in Streams : MarkDeleting(s))
    /\ SF_vars(DeleteObject(TRUE) \/ Tombstone)
    /\ WF_vars(CleanupStops) /\ WF_vars(PreviewExpires) /\ SF_vars(TimePasses(FALSE))

FairSyncSpec    == Spec /\ SyncFairness
FairCleanupSpec == Spec /\ CleanupFairness

-----------------------------------------------------------------------------
(* Properties.                                                             *)

Rows == [state : {"none", "open", "sealed", "deleting", "deleted"},
         finalTx : 0 .. MaxTx, manifest : SUBSET Objects]
Prints == [records : [Streams -> Rows], objects : [Streams -> SUBSET Objects]]
Previews == [days : Periods \union {0}, eligible : SUBSET Streams, print : Prints]
Kinds == {"idle", "boot", "configure", "pause", "backupNow", "close", "preview", "execute",
          "background"}
Labels == {"idle", "join", "sync", "drain", "final", "close", "seal", "save", "start",
           "startOld", "undo", "closed", "scan", "recheck", "delete"}
OpRecords == [kind : Kinds, pc : Labels, want : BOOLEAN, old : BOOLEAN, confirmed : BOOLEAN,
              days : Periods \union {0}, shown : Previews, print : Prints,
              todo : SUBSET Streams, target : 0 .. MaxStreams]

DiskTypeOK ==
    /\ enabled \in BOOLEAN /\ policy \in Policies /\ attempted \in BOOLEAN
    /\ ledger \in [Streams -> Rows] /\ remote \in [Streams -> SUBSET Objects]
    /\ age \in [Streams -> 0 .. 2]
ProcessTypeOK ==
    /\ open \in BOOLEAN /\ identity \in 0 .. MaxStreams /\ initialized \in BOOLEAN
    /\ local \in 0 .. MaxTx /\ dirty \in BOOLEAN /\ lastSync \in BOOLEAN /\ worker \in BOOLEAN
    /\ sync \in {"none", "identity", "init", "capture", "upload"}
    /\ op \in OpRecords /\ preview \in Previews
    /\ pins \subseteq Streams /\ closed \in BOOLEAN /\ paused \in BOOLEAN
GhostTypeOK ==
    missed \subseteq Streams /\ damaged \subseteq Streams /\ fenced \in BOOLEAN /\ runs \in Nat

\* Every variable of the manager, the control database and storage has a value
\* of its type; a sync runs only while the handles are open.
TypeOK ==
    /\ DiskTypeOK /\ ProcessTypeOK /\ GhostTypeOK
    /\ worker \/ sync # "none" => open

\* A stream that stopLocked sealed holds every change that was committed while
\* it was replicated: its identity and all its transactions are in storage, and
\* nothing was pending when the handles were closed.
SealedIsComplete ==
    \A s \in Streams \ damaged :
        State(s) = "sealed" => s \notin missed /\ Restorable(s) /\ ~Current(s)

\* stream.json is created before the first LTX file (sync) and deleted after
\* the last (deleteStreamLocked): whatever a crash interrupts, a stream with
\* data can be recognised.
IdentityBrackets ==
    \A s \in Streams \ damaged : remote[s] # {} => Identity \in remote[s]

\* PauseForRestore holds across the end of the process: until the user enables
\* the backup again nothing is replicated, so the restored database is never
\* taken for a continuation of the old one.
RestorePauseHolds == fenced => ~enabled /\ (Free => ~open /\ ~worker /\ sync = "none")

\* When the configuration says disabled and no operation is under way, no
\* worker, handle or sync is left, whichever step of Configure failed.
DisabledIsQuiet == ~enabled /\ Free => ~open /\ ~worker /\ sync = "none"

\* A stream whose recovery point was staged in this session is neither deleted
\* nor being deleted (Stage and planRetention exclude each other).
PinnedKept == \A s \in pins : State(s) \notin {"deleting", "deleted"}

\* A tombstone is written only when storage is empty, and a stream being
\* deleted holds nothing outside its manifest.
DeletedMeansGone ==
    \A s \in Streams :
        /\ State(s) = "deleted" => remote[s] = {}
        /\ State(s) = "deleting" => remote[s] \subseteq ledger[s].manifest

\* The background cleanup touches storage at most once in 24 hours, also when
\* the process dies and starts again in between.
OncePerDay == runs <= 1

\* An object disappears only from a stream durably marked for deletion, listed
\* in its manifest, beside two newer sealed streams that can be restored, and
\* when the user runs the cleanup, from a stream the preview showed.
SafeDeletion ==
    [][\A s \in Streams :
         \A o \in remote[s] \ remote'[s] :
            damaged' = damaged =>
              /\ State(s) = "deleting" /\ o \in ledger[s].manifest /\ ~Current(s)
              /\ Cardinality({t \in Streams : t > s /\ State(t) = "sealed" /\ Restorable(t)}) >= 2
              /\ op.kind = "execute" => s \in op.shown.eligible]_vars

\* Nothing is ever added to a stream that was sealed, and its record only moves
\* on: sealed, deleting, deleted.
SealedIsFrozen ==
    [][\A s \in Streams :
         /\ State(s) \in {"sealed", "deleting", "deleted"} =>
              /\ remote'[s] \subseteq remote[s]
              /\ ledger'[s].finalTx = ledger[s].finalTx
              /\ ledger'[s].state \in {State(s), "deleting", "deleted"}
         /\ State(s) = "deleted" => ledger'[s].state = "deleted"]_vars

\* A stream that was marked is deleted to the end, by later daily cleanups if
\* need be, unless the policy is switched off or the store loses objects of
\* the streams that are to survive.
DeletionFinishes ==
    \A s \in Streams :
        (State(s) = "deleting" /\ policy.on)
            ~> (State(s) = "deleted" \/ ~policy.on \/ damaged # {})

\* A change committed while the worker runs reaches storage, through failing
\* syncs and reconfigurations, unless the stream is closed, a restore pauses it
\* or the process is ending.
BackupCatchesUp ==
    (open /\ dirty /\ worker)
        ~> (\/ ~open \/ closed \/ paused \/ op.kind \in {"pause", "close"}
            \/ ~dirty /\ Missing = {})
=============================================================================
