# NestworthGo: TLA+ specifications and proofs

NestworthGo is a local-first net-worth ledger: one process, one SQLite database, and around
it a desktop window, a mobile web API, an MCP server for agents, market data workers, local
backups, and a continuous cloud backup. This directory models the parts of it that several
goroutines, or a crash, can reach in an order nobody wrote a test for.

## 1. Inventory

| part | state it keeps | operations | talks to |
|---|---|---|---|
| write gate (`application/write_coordinator.go`, `exclusive.go`) | `exclusive`, `shuttingDown`, `writers`, `revision`, `nonce`; `Service.changeMu`, `Service.refreshEpoch` | ordinary, preview, snapshot and exclusive permits, nested permits, quiesce for shutdown | every mutation of the application |
| ledger changes (`change_service.go`, `change_batch.go`, `change_mutation.go`) | the two receipt tables of SQLite | preview with token, guarded record, batch, fix, undo, replay, inspection of a receipt | write gate, activity ledger |
| activity ledger (`domain/change.go`, `domain/activity_replay.go`, `historical_entry.go`, `history_changes.go`, `sqlite/change_repository.go`) | activities and effects (facts), current values, event rows, targets of value updates (derived) | record now, back-date, batch, undo, fix, rebuild | write gate, snapshots |
| closed-day snapshots (`historical_snapshot.go`, `snapshot_coverage.go`, `sqlite/snapshot_repository.go`, `sqlite/market_history_repository.go`) | one row per closed day, the dirty range, the input generation, the resolver policy | invalidate, plan, load a batch, save a day, complete a range | every writer of facts, write gate |
| market data workers (`refresh.go`, `precious_metal.go`, `marketdata_sync*.go`, `mobile_market.go`) | jobs, coverage, captured epochs | refresh, history sync, cancel and wait | providers, write gate |
| local backup (`backup_service.go`, `infrastructure/backup/container.go`) | a package file | create, inspect | write gate, SQLite snapshot |
| restore (`application/recovery.go`, `infrastructure/backup/{install,journal,files}.go`) | pending previews; the restore journal and the file groups beside the database | inspect, confirm, install, reconcile at startup | write gate, every worker (through the before-restore hook), SQLite |
| continuous backup (`infrastructure/continuousbackup`) | configuration, stream ledger, retention progress | start, sync, seal, pause for restore, retention preview and execution | R2 object store, restore |
| SQLite layer (`infrastructure/sqlite`) | schema version, source tracking epoch, review projections | open, upgrade with recovery copies, transactions | all of the above |
| reconciliation sessions, investment review projections | sessions, items, published projections | create, refresh, link, publish | ledger, source epoch |
| MCP server, assistant runtime, mobile API | operations, receipts, reviews, sessions, generations | plan, review, commit, revoke, pair | application services |
| startup and shutdown (`cmd/nestworth/main.go`) | the process | reconcile, open, blocked startup, deferred shutdown | all of the above |
| domain, valuation, gain, analysis | none (pure) | - | - |
| settings, providers, Wails adapters, frontend, QA commands | files, user interface | - | - |

What is hard: callers queue on one condition variable while a backup drains them; a provider
answers after the world changed; a client submits a plan that is no longer true; a client repeats
a change whose answer was lost; a fact is entered before facts that were computed without it; a
day is revalued while its inputs move; a restore waits for workers that may wait for it; a
database is three files that a crash can separate.
The complete list, with line numbers and the properties that cover each entry, is under
`hazards` in `PROJECT.json`.

What makes each part correct, in short: the gate admits one owner at a time, a guarded change
commits on exactly what its preview showed, and late results die at the fence; an identity
commits once and its client is told the truth; what is stored beside the activities is what
their replay gives; a snapshot that is no longer true is known to be dirty; a restore ends with
one whole database, the old or the new; a sealed cloud stream is complete, and a cleanup deletes
only expired streams beside two that were just restored.

## 2. Modules

| module | models | role |
|---|---|---|
| `WriteCoordinator` | the write gate, `changeMu`, `refreshEpoch`, and the operations through them: guarded previews and changes, mobile reads, market workers, backup, restore, cloud reconfiguration, shutdown, process restart | core component, composed of several source files |
| `LedgerGate` | what the gate promises: one owner, tokens that are refused once the ledger moved | abstract specification |
| `WriteCoordinatorProofs` | - | theorems about `WriteCoordinator`: types, exclusion, tokens |
| `WriteFenceProofs` | - | theorems about its fences: late results, restore, shutdown |
| `WriteGateRefinement` | - | theorem: `WriteCoordinator` implements `LedgerGate` |
| `ChangeReceipts` | guarded and unguarded recording, batches, fixes, undos, their receipts and replays, restarts | component |
| `OnceLedger` | what receipts promise: an identity is decided once, and clients are told only what was decided | abstract specification |
| `ChangeReceiptsProofs` | - | theorems about `ChangeReceipts` |
| `ActivityLedger` | every change builder, the economic timeline and its replay, back-dating, batches, undo and fix | component |
| `ActivityLedgerProofs` | - | theorems about `ActivityLedger` |
| `HistorySnapshots` | closed-day snapshots, the dirty range, three kinds of rebuild job, writers of facts | component |
| `HistorySnapshotsProofs` | - | theorems about `HistorySnapshots` |
| `RestoreJournal` | `InstallRestore`, the journal, `ReconcileOnStartup`, file groups | component |
| `RestoreJournalProofs` | - | theorems about `RestoreJournal` |
| `ContinuousBackup` | the cloud backup `Manager` and the retention cleanup | component |
| `ContinuousBackupProofs` | - | theorems about `ContinuousBackup` |
| `MC*` | - | instances for TLC: symmetry sets, and the commands and accounts of the ledger |

The models meet where the code does. `WriteCoordinator` shows that what runs inside the gate
runs alone; `ChangeReceipts` has a gate of one owner for that reason, `ActivityLedger` makes each
locked call one step, and `HistorySnapshots` lets only the jobs that do hold the gate exclude
others. `ChangeReceipts` counts activities, `ActivityLedger` says what they do.

### WriteCoordinator

A member of `Procs` is a goroutine; `op` is the operation it was called with and `pc` where it
is. One step is one critical section of the coordinator's mutex, one `changeMu` operation or
one database access, so every interleaving the Go scheduler can produce between them is a
behaviour. `cond.Wait` is the set `asleep`, which only `Broadcast` empties: a missing wake-up is
a visible error. The database is a version number: a mutation may make a new one
(`MayMutate`), a restored replacement always is one.

`AcquireGranted/Waits/Refused`, `ReleasePermit`, `AcquireExclusive`, `DrainWaits/Done`,
`ReleaseExclusive` and `Quiesce*` are the methods of `write_coordinator.go`;
`BumpsRevision` is its rule for which releases advance the revision. `PreviewRead`,
`PreviewToken`, `RecordCheck`, `RecordCommit` are the token protocol of `change_service.go`;
`Nested*` the permits found in the context. `ProviderAnswers`, `PersistCheck`, `Persist`,
`NextTarget`, `RememberPreference` and `RepriceMetals` are a market worker; `CancelAll` and
`CancelWait` are how a restore and a shutdown get rid of it. `RestoreQuiesce`, `RestoreKeep` and
`RestoreFailsEarly` are `ConfirmRestore`, with its rule that a restore that touched the session
keeps the gate for good. `Restart` is a new process, with a new nonce and clients that still
hold old tokens.

### ChangeReceipts

A plan is an identity, a command and a token; a copy of it in flight is a slot. `SubmitGuarded`
and `SubmitForm` are the entry points with and without a token, `Acquire` is `changeMu` and the
gate, `Check` is the order that matters in all four handlers: the receipt tables are read first,
so that a repeated request is answered from its receipt whatever happened to its token, then the
token, then the command itself. `Commit` stores activities, receipt and revision together;
`Rebuild` is the revaluation of closed days after a fix or an undo, which may fail after the
commit; `Reply` may be lost. `Inspect` is `InspectChangeReceipt`, `Restart` a new process: the
tables survive, slots and tokens do not. Single changes and batches have one table each and one
identity space, which is `Other` in the model.

### ActivityLedger

`acts` are the facts and never change. `PreviewChange` is the builder of each kind of change,
with its refusals; `ReplayMoneyEffects` is the replay of the timeline, in which a value update
becomes whatever effect leads to its target and a reversal mirrors what its original has become.
`RecordNow`, `RecordEarlier`, `RecordBatch`, `UndoChange` and `FixChange` are the service calls with
everything their transaction stores; `RebuildDerivedData` recomputes current values. Amounts are
integers, so rounding is outside the model and sign, order and refusal are inside it. A loop over
effects or activities is a recursive function of the position it has reached (`Running`,
`Replayed`, `Balances`).

### HistorySnapshots

What a snapshot of a day would contain is a counter, `content`; a row is true when it has that
number. A writer reads its clock (`BeginChange`, `FetchHistory`) and commits later
(`CommitChange`, `CommitCorrection`, `CommitHistory`), widening the dirty range and advancing the
generation in the same step. A job plans (`PlanCoverage`, `PlanRange`, `PlanDirty`), loads a chunk
of facts with its generation, saves it day by day under that generation, and completes the range;
it may be cancelled anywhere. `Tick` is midnight. `MidnightInWrite` says whether midnight may fall
between a writer's clock and its commit, and `Skipped` which civil dates do not exist.

### RestoreJournal

The state is the directory: for each place (live, staging, safety and failed copies of each
restore) which of the three files exists and to which ledger version it belongs. Each rename,
removal and journal write is a step, may fail (`MaxFaults`), and may be the last of its process
(`Crash`). `MoveOne`, `MoveDone` and `MoveUndo` are the group moves with their rollback;
`Prepare` to `WriteInstalled` is `InstallRestore`; `Reconcile*`, `Verify*`, `Reset`,
`WriteVerified`, `Finalize`, `Quarantine`, `*Rollback`, `FinishRecovery` and `RemoveJournal` are
the startup path. Opening a group with SQLite creates sidecars and closing the last connection
folds them into the main file, which is why a main file without its WAL is a lost transaction
and not merely a missing file.

### ContinuousBackup

`op` is the operation that holds `Manager.op` and the point it reached; the worker's
synchronisation (`sync`) and the application's writes run beside it. Any remote call or control
database write may fail: each step has a failing twin, or the whole cleanup stops
(`CleanupStops`, which also stands for `CancelCleanup` and the five-minute budget). `JoinWorker`
to `Seal` is `stopLocked`, shared by `Configure`, `PauseForRestore` and `Close`; `Save`, `Undo`
and `StreamStarts` are the rest of `Configure` and the pause. `ScanSucceeds`, `Recheck`,
`MarkDeleting`, `DeleteObject` and `Tombstone` are `scanRetentionLocked`, `executePlanLocked` and
`deleteStreamLocked`; a delete whose response is lost is `DeleteObject(FALSE)`. Streams are
numbered by creation, which is also the order of their seals; the age of a seal is 0, 1 (past
30 days) or 2 (past 90), and storage may lose an object of a sealed stream (`Damage`) at any time
but between the inventory recheck and the end of a deletion, which the developer guide excludes
("No other app, lifecycle rule or external writer should modify locally owned stream prefixes
during cleanup").

## 3. Runs

| run | bounds | shows |
|---|---|---|
| `gate_guarded` | 2 goroutines, 2 revisions, 1 epoch, 1 restart | `TypeOK`, `GuardedCommit`, `CurrentTokenCertifies`, and that the gate implements `LedgerGate` (`ImplementsLedgerGate`); no deadlock |
| `gate_fences` | 3 goroutines, 2 revisions, 2 epochs, 2 passes per worker | `MutualExclusion`, `NoLateResult`, `ClosedMeansDrained`, `NoWriteAfterFence` |
| `gate_live` | 3 goroutines, 1 restore at a time, 1 revision, 2 passes per worker, fair | `ExclusiveIsGranted`, `RestoreJoinsWorkers`, `ShutdownCompletes`, `ShutdownRefusesWaiters` |
| `restore_crash` | 2 restores, 3 crashes, 2 faults, fair | `NothingLost`, `OpensWhole`, `CrashesAreRecovered`, `RestoreSettles` |
| `restore_rotation` | 2 restores, 1 crash, no fault | `RotatedBeforeResume` is violated: see 6 |
| `cloud_streams` | 2 streams of 2 transactions, restarts and failures unbounded, fair | `TypeOK`, `SealedIsComplete`, `IdentityBrackets`, `RestorePauseHolds`, `DisabledIsQuiet`, `SealedIsFrozen`, `BackupCatchesUp` |
| `cloud_retention` | 3 sealed streams, 1 lost object, fair | `PinnedKept`, `DeletedMeansGone`, `OncePerDay`, `SafeDeletion`, `DeletionFinishes` |
| `receipts` | 2 copies, 1 identity, 4 commands (change, batch, fix and undo of one activity), 1 restart | `AtMostOnce`, `ReversedOnce`, `DoneMeansRebuilt`, `CompletedIsKnown`, and that the tables implement `OnceLedger` (`ImplementsOnce`); no deadlock |
| `ledger` | 1 asset, 1 debt, 2 brokers with one holding each, 2 currencies, 2 instants, 3 changes of 16 commands | `CurrentIsReplay`, `HistoryReplays`, `ReversalsCancel`, `EventRowsReplayed` |
| `ledger_rows` | the same, value updates and money only | `EventRowsMatch` is violated: see 6 |
| `snapshots` | 2 jobs, 1 writer, chunks of 1 day, 3 days, 2 writes | `StaleIsDirty`, `GenerationIsEvidence`, `CoverageDelivers`; no deadlock |
| `snapshots_midnight` | 1 job, 1 writer that midnight may overtake | `HistoryInvalidates` is violated: see 6 |

Why the bounds are enough to meet the interesting cases.

* Gate: three goroutines are one inside, one draining or quitting, and one waiting or late; the
  theorems below lift the safety core to any number. A token goes stale with one revision and
  could become current again only with a second or a restart. A worker's first pass stores a
  result; the second is the next target, the metal price, or the preference write that asks for
  the permit and then `changeMu`, so that a restore meets a worker at each of them. In `gate_live`
  the database keeps its version (`MaxVersion = 0`): no guard of its operations reads it. Requests
  for the exclusive permit race each other in `gate_fences`; in `gate_live` one restore races the
  shutdown (`MaxExclusive = 1`).
* Restore: two restores let one supersede or follow another, and three crashes let a recovery
  die twice. The theorems lift the three safety properties to any number of restores, crashes and
  failing calls, `NothingLost` as long as no restore supersedes an unfinished one; for superseded
  ones TLC also found no loss with four restores, three crashes and two faults. With three
  faults there is one (section 6), which is why `NothingLost` excludes that case.
* Cloud: three sealed streams are the two survivors and one that may be deleted, and damage to a
  survivor must stop that deletion; two transactions are one confirmed and one pending. The
  theorems lift every safety property to any number of streams and transactions. Two halves are
  left to them: `cloud_streams` has no cleanup, so that `IdentityBrackets` during a removal and
  `SealedIsFrozen` for a stream marked for deletion are met only in `StreamsAreRecognised` and
  `SealedStreamsAreFrozen`, and with more than one deletable stream `SafeDeletion` only in
  `DeletionIsSafe`.
* Receipts: two copies under one identity are a request and its retry, or a change and a batch
  that claim the same identity; the theorems lift this to any number. The fix and the undo of the
  run have one target; that a reversal is itself never reversed is met only in
  `ReversedAtMostOnce`.
* Ledger: three changes are a fact, its reversal, and a third one dated before, between or after;
  two instants make ties and strict order. The theorems lift this to histories of any length.
* Snapshots: two jobs are one that saves with an old batch and one that completes the range
  meanwhile; three days are two closed and the current one. The theorems lift this too.

Each property has a mutant of the code's logic, recorded in `PROJECT.json`, that violates it
within the same bounds. The runs `gate_fences`, `gate_live`, `restore_*` and `ledger*` do not check
deadlock: a process that shut down, a directory that settled and a ledger at its bound do stop.

### Fairness

* Gate: weak fairness for every goroutine's own steps (the Go scheduler is fair to runnable
  goroutines, providers have timeouts), strong fairness for taking `changeMu` (`sync.Mutex` hands
  over to a starving waiter after a millisecond). Clients need not call anything.
* Restore: weak fairness for the process's steps, for starting it again, and for the user
  quitting when the application only offers a restart.
* Cloud synchronisation: strong fairness for the worker's tick, for the steps that reach storage
  and for the upload (a call that can succeed again and again, through failures, eventually
  does); weak fairness for operations and for a sync to return (its ten-second context).
* Cloud cleanup: the same for the steps of a background cleanup, the hourly tick and the passing
  of days. Restarts and failures may go on for ever, but not exactly at each of those steps.

Nothing promises a writer the gate: `Broadcast` wakes all and newcomers compete, so no property
says an ordinary write is eventually granted.

## 4. Proofs

### The write gate

`WriteCoordinatorProofs` proves, for every set of goroutines, every menu and all bounds
(`BoundsAssumption`, `ProcsAssumption`, `MenuAssumption`):

* `TypeCorrect` and `Exclusion`. `MutualExclusion` is not inductive: that nobody else is inside
  follows only from what the counter and the flag mean. `IndInv` adds `PermitInv` (while a
  goroutine holds the ordinary permit, `writers` is 1 and no other goroutine holds it) and
  `ExclusiveInv` (while one drains or holds the exclusive permit, `exclusive` is set and it is the
  only one, and past the drain no ordinary permit is out).
* `GuardedCommits` and `TokensCertify`. A token may be current while a writer has already changed
  the database and not yet bumped the revision at its release; what saves the protocol is that
  such a writer is still inside. `TokenInv` says so: `OpInv` (some labels belong to some
  operations), `IssuedInv` (no token is from the future), `DirtyInv` (a current token that saw
  another database means a goroutine is leaving that will bump the revision), `FreshInv` (what a
  preview read and a commit relies on has not changed).

Each invariant part has one lemma with one step per action; `StepInv` and `TokensKept` put them
together, and the theorems combine them with `PTL`.

`WriteFenceProofs` builds on `IndInv`:

* `LateResultsDie` (`NoLateResult`). A worker compares `refreshEpoch` with the value it captured
  before it asked the provider. That this is enough needs a count: `CountInv` says that since the
  capture the epoch has moved at least as often as exclusive work began, so that an unchanged
  epoch at the check means none has begun; what begins after the check waits in its drain for
  this very writer.
* `ClosedWhenDrained` (`ClosedMeansDrained`) and `NothingWrittenAfterFence` (the action property
  `NoWriteAfterFence`). `ShutInv` says that once a shutdown has drained the writers none is left and
  its flag stays, and `ClosedInv` that the database was closed by a restore that keeps the gate or
  by a shutdown; `ExclusiveInv` covers the restore's side.

`WriteGateRefinement` proves `GateImplementsLedgerGate` (`ImplementsLedgerGate`). The abstract owner is
whoever is inside, the abstract view what a client's plan has seen. `RoleInv` says
that the ordinary permit is held for ordinary operations and the exclusive one for exclusive
ones; with it, every step of the coordinator is an entry, a read, a write, a
compare-and-set, a departure, a hand-over or a restart of `LedgerGate`, or leaves owner, views and
database alone.

### Receipts

`ChangeReceiptsProofs` proves, for every set of copies, identities and commands and all bounds
(`ReceiptConstants`):

* `CommittedOnce` (`AtMostOnce`), `ReversedAtMostOnce` (`ReversedOnce`) and `ToldTheTruth`: a receipt
  shown to a client belongs to the transaction that committed its identity and payload.
* `CorrectionsDoneAreRebuilt` (`DoneMeansRebuilt`) and `CompletedChangesAreKnown`, the action property
  `CompletedIsKnown`: a copy of a committed change is answered as such, however old its token.
  The latter assumes that a batch's payload is never a single command's (`BatchPayloadsDiffer`):
  both are digests of an encoding that names its kind (`wailsapi/history/command.go`,
  `mcpserver/batch_tools.go`).
* `ReceiptsImplementOnce`: the specification implements `OnceLedger` (`ImplementsOnce`). It assumes
  that no payload is the word "none", by which the model marks an empty row.

`AtMostOnce` is not inductive: the commit must know that its identity is in neither table, which
was read a step earlier. `RInv` says so for a copy between check and commit (`SlotFine`, kept
because no other copy is inside), that the tables list exactly the commits that have an identity
(`KeysAreTrue`, `CommitsAreKeyed`), that reversals point into the ledger (`ReversalsAreStored`), and
that clients know only commits (`ReceiptsAreTrue`). For a correction it adds that from its commit to
its answer nobody else is inside to dirty the days it rebuilt, and for recognition that each
commit with an identity is listed in the table of its kind and in no other (`KeyedInOwnTable`) and that a copy has
no answer before it is about to reply (`Unanswered`). For the refinement an identity is decided with
the payload of its only commit; a commit is a `Decide`, an answer or an inspection a `Tell`, and
everything else a stutter.

### Activity ledger

`ActivityLedgerProofs` proves `CurrentValuesAreReplay` (`CurrentIsReplay`), `HistoryAlwaysReplays`
(`HistoryReplays`), `ReversalsAlwaysCancel` (`ReversalsCancel`) and `EventRowsAreReplayed`
(`EventRowsReplayed`) for any accounts, holdings, currencies and Starting point, any menu, and
histories of any length over any number of instants. `LedgerAssumption` only says that commands
and the Starting point name things that exist, and that a holding belongs to a broker account.

* Induction. A replay is defined by recursion along the timeline. `Inductive` is induction over a
  set: a set of naturals that contains 0 and with every n also n + 1 is `Nat`, because `Nat` is
  well founded. With it the recursive functions are shown to satisfy their defining equations
  (`RunningDef`, `BalancesDef`, `ReplayedDef`).
* What a replay computes. `IsReplay` says it without recursion: a recorded change keeps its
  effects, an observation moves its account to its target, and an undo takes back what its
  original contributes in this replay. `ReplayFacts` shows that `ReplayMoneyEffects` is that.
  `ReversalsCancel` follows from it (`UndoCancels`).
* Locality. A commit stores new current values only for the endpoints of its own effects, so a
  placed or replaced activity must not move any other balance, through however many value
  updates and reversals behind it. `Simulation` runs two replays side by side and shows that they
  agree on every endpoint that the difference does not touch; `InsertLocal` and `ReplaceLocal`
  are its two uses.
* The invariant. None of the properties is inductive: the next step depends on the form of
  what is stored, on reversals standing behind their originals, and on the current values, on
  which `RecordNow` builds without a replay. `LInv` says that the economic activities have an order
  `s` in which `Ledger` holds: the history is well formed and each event row set has the endpoints
  of its activity (`Sound`), the stored current values are the final balances of the replay, the
  replay is accepted, and the rows of contributing activities hold its balances (`Shown`).
  `TimelineOrder` shows that the timeline the repository reads, by rank, is that order.
* The steps. The builder lemmas (`Made`, `Built`) say that an accepted command is a list of
  effects in different roles whose money moves (`Plain`), or one observation (`Single`). Each action has its
  lemma, from `InitOrder` to `RecordBatchOrder`. A batch records the effects of the final replay
  instead of those it previewed, and `Alike` says why no later replay can tell them apart. A fix
  puts its replacement at its original's place (`FixOrder`, `FixLine`), and the undo of a value
  update without effect is recorded as a zero remeasurement (`StillFacts`, `UndoneList`).

`EventRowsReplayed` excludes reversals that have no effect in the replay; for those the code does
leave old rows behind (section 6).

### Snapshots

`HistorySnapshotsProofs` proves `StaleRowsAreKnown` (`StaleIsDirty`), `GenerationsAreEvidence`
(`GenerationIsEvidence`) and `CoverageIsDelivered` (`CoverageDelivers`) for any number of days, jobs,
writers and changes and any chunk size (`SnapshotAssumption`, `ActorAssumption`), under
`PlainDays`: every civil date exists and writers commit on the day of their clock. Without either
condition the code does lose a stale day (section 6), so neither can be dropped.

A completion narrows the dirty range on the word of a job that planned long ago, which is what
makes `StaleIsDirty` hard. The invariant `IInv` adds, for each job, that as long as the generation
is that of its batch the facts it loaded are still the facts (`BatchIsTrue`), and as long as it is
that of its plan every day of its range is either still to be done or has a true row
(`PlanHolds`). The lemmas about `Marks` say that every writer covers all the days it changes,
`CompletedRange` what completing a range may clear, `Steady` and `JobKept` that a step of one
job keeps what is said of the others.

### Restore

`RestoreJournalProofs` proves, for every number of restores, crashes and failing calls and every
combination of files to begin with (`RestoreBounds`):

* `RestoreTypes`: the journal names a restore that was started, and a move is between places of
  the directory.
* `NoLedgerIsLost`: `NothingLost` as long as no restore was begun over an unfinished one.
* `WholeDatabaseOpens` (`OpensWhole`, which has the same condition) and `CrashesRecover`
  (`CrashesAreRecovered`).

None of them is inductive, because whether the next rename is safe depends on which files the
steps before it, perhaps of a process that died, have already moved. `JInv` has four layers:

* where files may be at all, whatever fails: a main file is in one place (`MainsInv`), staging and
  unused places hold nothing that is in use (`StagingInv`, `UnusedInv`), the staged main file is there
  until it is installed (`StagedInv`), each step belongs to certain journal states and contents of
  the live group (`JournalInv`, `LiveInv`), and a move in progress has moved what it says and came
  from its own caller (`MoveInv`);
* `KeepIfNew`: unless a restore superseded another, every file that is needed is somewhere, in the
  group of its main file and never in one that a later step removes (`GroupsInv`);
* `ShapeIf`: what the live, staging, safety and failed groups hold in each journal state, settled,
  prepared, swapped or rolling back (`SettledShape`, `PreparedShape`, `SwappedShape`, `RollShape`). It
  is kept while nothing was superseded, whatever fails, and with superseded restores as long as
  no call fails;
* `CalmIf`: with no failing call, every branch of `ReconcileOnStartup` finds what it needs.

The hypothesis of `NoLedgerIsLost` cannot simply be dropped: section 6 has the counterexample.

### Cloud backup

`ContinuousBackupProofs` proves every safety property of the manager for any number of streams,
transactions, restarts and failures: `BackupTypes`, `SealedStreamsAreComplete`, `StreamsAreRecognised`,
`PauseIsDurable`, `DisabledManagerIsQuiet`, `StagedStreamsStay`, `TombstonesAreTrue`, `CleanupOncePerDay`,
and the action properties `SealedStreamsAreFrozen` and `DeletionIsSafe`.

`CInv` consists of these properties and of what they rest on: which operation can be at which
point (`PathInv`), when worker and handles are open (`HandleInv`), that a pause leaves the backup
disabled (`FenceInv`), what has been captured and uploaded of the current stream at each point of a
sync and a stop (`StreamInv`), that a marked stream has two newer sealed ones (`DeletingInv`), that the
day's background run has left its mark (`DayInv`), and that the plan of a cleanup is still right
while it is executed (`CleanupInv`). The last is the core of `SafeDeletion`: from the recheck of the
inventory to the last delete two newer streams stay sealed and whole (`PlanFine`, `Survives`), which
no check at the delete repeats.

Every proof of this section has one lemma per action and puts them together with `PTL`.

### Only model-checked

* Every liveness property: liveness under fairness is out of the prover's reach.
* `NothingLost` after a superseded restore with one or two failing calls: the order in which the
  groups of two unfinished restores can be mixed up is explored by TLC only.

## 5. Not modelled

Listed with reasons under `components` in `PROJECT.json`. Within the modelled parts:

* Gate: admission of market data jobs (planned).
* Receipts: the hash of a command stands for the command; guards of reconciliation sessions.
* Ledger: decimals and rounding, archived accounts, holdings created by a trade, position
  imports, products, and the guards of managed accounts and reconciliation sessions.
* Snapshots: what a snapshot contains; the completion watermark, which no operation reads.
* Restore: power loss (`syncDir` is best effort; a crash here is the death of the process),
  journals of older versions without `original_present`, unparsable journals, the merge of
  settings. `OpensWhole` exempts a directory that held sidecars without a main file to begin
  with, and a live group left behind by a superseded journal.
* Cloud backup: a change of account or bucket, streams of unknown owners (never eligible), the
  advisory progress row, local metadata files, a clock that goes backwards.

Most of the repository's lines are not modelled at all: decimal valuation, gain and analysis,
wire types, adapters, providers and user interface keep no state that a second actor or a crash
could find half done, and the repository's own tests reach them well. The stateful parts still
missing are in the plan.

## 6. Findings and observations

`restore_rotation` (finding): `docs/design/investment-review.md` says that a restore rotates the
source epoch before reads resume. A second restore over an unfinished one overwrites its journal;
if the process dies before the second restore's first rename, startup finishes it as "nothing
happened" and opens the first replacement, whose source tracking was never reset.

`ledger_rows` (finding): `sqlite/change_repository.go` says that replay updates event rows with the
correction. A value update is undone, and a change is back-dated before it that already leads to
the updated value. The update and its reversal now have no effect, and only the undo path falls
back on recorded endpoints: back-dating, batches and fixes leave the reversal's old row in place.
The stored balance after that activity is wrong, although current values are right.

`snapshots_midnight` (finding): `sqlite/market_history_repository.go` says that the dirty range is
raised to the last closed day. It is the last closed day at `FetchedAt`, read before the worker
waits for the gate. If midnight passes and another job snapshots the day that ended, the commit
changes that day without marking it.

Observations that no property of a run states:

* With `Skipped = {2}`, `LastDay = 5` and `MaxChunk = 3` TLC finds `StaleIsDirty` violated: `dirty_from`
  can come to rest on a civil date that does not exist (a date-line jump), which no save ever
  consumes, and completing past it clears days that are still pending.

* Three failing calls after a superseded restore lose sidecars (`RestoreJournal` with
  `MaxRestores = 2`, `MaxCrashes = 1`, `MaxFaults = 3` and `Kept` as invariant). A restore begun over an
  unfinished journal takes the sidecars that the first one left behind into its own safety
  group; when its installation and then the undo of that fail too, the rollback
  (`resumeSafetyRollback`, `resumeFileGroupMove` in `journal.go`) puts them beside the main file of
  the first replacement, and the next connection overwrites them.
* With no open session (blocked startup) no lock serialises two `ConfirmRestore` calls.
* `acquireExclusive` does not look at `shuttingDown` again after draining, and
  `QuiesceWritesForShutdown` waits for writers, not for a backup that holds the gate.
* `PreviewProductOperation` blocks on `changeMu` for as long as a failed restore keeps it.
* `beginPreviewRead` leaves no permit in the context: a nested entry would wait for itself.
* When a configuration cannot be started and undoing it fails too, or a restart of the old
  stream fails, the cloud backup stays enabled without a worker until the next change or start.
* A row whose stream never opened, or whose process died, stays "open" and is never cleaned up,
  as the developer guide says of crash-abandoned streams.
* One sealed stream whose `stream.json` is lost stops every later cleanup of its target.

## 7. Plan

Next modules, in this order:

1. Market data jobs: admission and single flight (`mobile_market.go`, `marketdata_sync.go`),
   cancel against completion, coverage; composed with `HistorySnapshots`.
2. Recovery previews: the two-entry, single-use, expiring table of `recovery.go`, composed with
   `RestoreJournal`'s `InstallRestore`.
3. Schema upgrade with recovery copies (`sqlite/upgrade_v21.go`, `upgrade_v22.go`), crashes
   included.
4. Reconciliation sessions and review publication against a source epoch that moves.
5. MCP operations and host review, assistant runtime generations, mobile session revocation.

Next theorems: `NothingLost` for superseded restores with at most two failing calls, which needs the
shapes of two interleaved restores; `StaleIsDirty` with skipped dates once the range they can
lose is described; then the safety properties of each module above as it is written.
