-------------------------- MODULE HistorySnapshots --------------------------
(***************************************************************************)
(* Closed-day valuation snapshots and their durable dirty range.           *)
(*                                                                         *)
(* A closed local day has at most one current snapshot row.  Facts that    *)
(* change a closed day (activities, corrections, quotes, market history, a *)
(* new resolver policy) do not touch the row: in the same transaction they *)
(* widen one dirty range and advance the input generation.  Rows are then  *)
(* rebuilt by jobs of three kinds, in chunks that load one batch of facts  *)
(* and save day by day, each save guarded by the generation of its batch:  *)
(*   "coverage"  ensureSnapshotCoverage, for a requested range of days,    *)
(*               inside the write gate from plan to completion;            *)
(*   "dirty"     RebuildDirtySnapshots, after a sync or an import, which   *)
(*               takes the gate only for each save and completion ("ready" *)
(*               while it repairs holes and outdated rows outside the      *)
(*               range);                                                   *)
(*   "range"     RebuildHistoricalSnapshots for dates the user gives.      *)
(* A day is an integer, 1 the day of the Starting point; what a snapshot   *)
(* of day d would contain is the counter content[d].  The completion       *)
(* watermark of the state row is left out: no operation reads it.          *)
(***************************************************************************)
EXTENDS Integers

CONSTANTS
    Jobs,           \* concurrent rebuild jobs
    Writers,        \* concurrent changes of the facts
    Skipped,        \* civil dates that do not exist in the household timezone
    MaxChunk,       \* days of one rebuild batch (31 in the code)
    LastDay,        \* the last value of today
    MaxWrites,      \* changes of the facts
    MidnightInWrite \* the day may end between a writer's clock and its commit

ASSUME SnapshotAssumption ==
    /\ MaxChunk \in Nat \ {0} /\ LastDay \in Nat \ {0} /\ MaxWrites \in Nat
    /\ Skipped \subseteq Nat \ {0, 1} /\ MidnightInWrite \in BOOLEAN

None == 0 - 1

ASSUME ActorAssumption == None \notin Jobs \cup Writers /\ Jobs \cap Writers = {}

Days == 1 .. LastDay

VARIABLES
    today,          \* the household's local date
    content,        \* what each day is worth by the facts now stored
    snap,           \* daily_valuation_snapshots: the latest revision of a day
    state,          \* history_snapshot_state
    job, clock, gate, writes

vars == <<today, content, snap, state, job, clock, gate, writes>>

----------------------------------------------------------------------------
(* The row of history_snapshot_state and its updates *)

Closed == 1 .. today - 1

NoSnapshot == [content |-> None, gen |-> None, policy |-> "earlier"]

Exists(d) == snap[d].content # None

Larger(a, b) == IF a > b THEN a ELSE b

Clamped(d) == Larger(d, 1)

InRange(s, d) == /\ s.dirtyFrom # None /\ d >= s.dirtyFrom
                 /\ s.dirtyTo = None \/ d <= s.dirtyTo

MutantWiden(to, yesterday) == to

(* An existing upper bound grows to the last closed day. *)
Widen(to, yesterday) == IF to # None /\ to < yesterday THEN yesterday ELSE to

AtLeast(to, bound) == IF to = None \/ to < bound THEN bound ELSE to

MutantMarkHistoryDirty(s, d, asOf) ==
    IF Clamped(d) >= asOf \/ InRange(s, Clamped(d)) THEN s
    ELSE [s EXCEPT !.dirtyFrom = Clamped(d), !.dirtyTo = Widen(@, asOf - 1),
                   !.gen = @ + 1]

(* A fact of date d; asOf is the writer's date. *)
markHistoryDirty(s, d, asOf) ==
    IF Clamped(d) >= asOf THEN s
    ELSE [s EXCEPT
            !.dirtyFrom = IF @ = None \/ @ > Clamped(d) THEN Clamped(d) ELSE @,
            !.dirtyTo = Widen(@, asOf - 1),
            !.gen = @ + 1]

(* A correction commits the reversal and its replacement. *)
markCorrection(s, d, e, asOf) ==
    LET marked == markHistoryDirty(markHistoryDirty(s, d, asOf), e, asOf)
    IN  IF marked.dirtyFrom = None THEN marked
        ELSE [marked EXCEPT !.dirtyTo = AtLeast(@, asOf - 1)]

expandDirtyToLocalBound(hi, asOf) == Larger(hi, Clamped(asOf - 1))

(* Market history of the dates lo to hi. *)
bumpHistoryInputGeneration(s, lo, hi, asOf) ==
    LET marked == markHistoryDirty(s, lo, asOf)
    IN  [marked EXCEPT
            !.dirtyTo = AtLeast(@, expandDirtyToLocalBound(hi, asOf)),
            !.gen = IF marked = s THEN @ + 1 ELSE @]

(* One day saved: only a matching prefix of the dirty range is consumed. *)
markDailySnapshotCompleted(s, d) ==
    [s EXCEPT !.dirtyFrom = IF @ = d THEN d + 1 ELSE @]

(* A job has rebuilt every day from dirty_from to target. *)
completeDailySnapshotRange(s, target) ==
    LET cleared == [s EXCEPT !.dirtyFrom = None, !.dirtyTo = None]
    IN  IF s.dirtyFrom = None \/ (s.dirtyTo # None /\ s.dirtyTo <= target)
        THEN cleared
        ELSE IF s.dirtyFrom > target THEN s
        ELSE IF s.dirtyTo # None THEN [s EXCEPT !.dirtyFrom = target + 1]
        ELSE cleared

----------------------------------------------------------------------------
Idle == [kind |-> "idle", pc |-> "idle", plan |-> None, from |-> None,
         left |-> None, right |-> None, todo |-> {}, chunk |-> {},
         end |-> None, batch |-> None, loaded |-> [d \in Days |-> None]]

Init ==
    /\ today = 1
    /\ content = [d \in Days |-> 0]
    /\ snap = [d \in Days |-> NoSnapshot]
    /\ state = [dirtyFrom |-> None, dirtyTo |-> None, gen |-> 0]
    /\ job = [j \in Jobs |-> Idle]
    /\ clock = [w \in Writers |-> None]
    /\ gate = None
    /\ writes = 0

----------------------------------------------------------------------------
(* Changes of the facts *)

Affects(d) == [e \in Days |-> IF e >= Clamped(d) THEN content[e] + 1
                              ELSE content[e]]

(* A change enters the gate and reads the clock inside it. *)
BeginChange(w) ==
    /\ clock[w] = None /\ gate = None /\ writes < MaxWrites
    /\ clock' = [clock EXCEPT ![w] = today]
    /\ gate' = w
    /\ writes' = writes + 1
    /\ UNCHANGED <<today, content, snap, state, job>>

EndWrite(w) ==
    /\ clock' = [clock EXCEPT ![w] = None]
    /\ gate' = None
    /\ UNCHANGED <<today, snap, job, writes>>

(* An activity, an observation, a quote or a preference of date d. *)
CommitChange(w, d) ==
    /\ gate = w /\ d <= clock[w]
    /\ content' = Affects(d)
    /\ state' = markHistoryDirty(state, d, clock[w])
    /\ EndWrite(w)

(* A correction that moves the activity of date d to date e. *)
CommitCorrection(w, d, e) ==
    /\ gate = w /\ d >= 1 /\ e >= 1 /\ d <= clock[w] /\ e <= clock[w]
    /\ content' = Affects(IF d < e THEN d ELSE e)
    /\ state' = markCorrection(state, d, e, clock[w])
    /\ EndWrite(w)

(* A fetched market history carries the time of its fetch to the gate. *)
FetchHistory(w) ==
    /\ clock[w] = None /\ writes < MaxWrites
    /\ clock' = [clock EXCEPT ![w] = today]
    /\ writes' = writes + 1
    /\ UNCHANGED <<today, content, snap, state, job, gate>>

CommitHistory(w, lo, hi) ==
    /\ clock[w] # None /\ gate = None /\ lo <= hi /\ hi <= clock[w]
    /\ content' = Affects(lo)
    /\ state' = bumpHistoryInputGeneration(state, lo, hi, clock[w])
    /\ EndWrite(w)

(* The writer fails before its transaction commits. *)
AbandonWrite(w) ==
    /\ clock[w] # None
    /\ clock' = [clock EXCEPT ![w] = None]
    /\ gate' = IF gate = w THEN None ELSE gate
    /\ UNCHANGED <<today, content, snap, state, job, writes>>

(* Midnight in the household's timezone. *)
Tick ==
    /\ today < LastDay
    /\ MidnightInWrite \/ \A w \in Writers : clock[w] = None
    /\ today' = today + 1
    /\ UNCHANGED <<content, snap, state, job, clock, gate, writes>>

(* The database is opened by a build with another resolver policy.  Every  *)
(* stored snapshot is marked incomplete and takes the new generation.      *)
ensureCurrentHistoricalResolverPolicy ==
    /\ writes < MaxWrites
    /\ writes' = writes + 1
    /\ content' = [d \in Days |-> content[d] + 1]
    /\ state' = [state EXCEPT
                    !.dirtyFrom = 1,
                    !.dirtyTo = Clamped(AtLeast(@, today - 1)),
                    !.gen = @ + 1]
    /\ snap' = [d \in Days |->
                  IF Exists(d)
                  THEN [snap[d] EXCEPT !.gen = state.gen + 1, !.policy = "earlier"]
                  ELSE NoSnapshot]
    /\ job' = [j \in Jobs |-> Idle]
    /\ clock' = [w \in Writers |-> None]
    /\ gate' = None
    /\ UNCHANGED today

----------------------------------------------------------------------------
(* Rebuild jobs *)

Holds(j) == gate \in {None, j}

(* The job ends, with or without an error, and leaves the gate. *)
Leaves(j) ==
    /\ job' = [job EXCEPT ![j] = Idle]
    /\ gate' = IF gate = j THEN None ELSE gate

Outdated(d) == ~Exists(d) \/ snap[d].policy # "current"

MutantNeedsRebuild(d, left) ==
    \/ Outdated(d)
    \/ /\ InRange(state, d)
       /\ ~(state.gen > 0 /\ state.dirtyFrom < left)

(* A day of a request that begins at left. *)
NeedsRebuild(d, left) ==
    \/ Outdated(d)
    \/ /\ InRange(state, d)
       /\ ~(state.gen > 0 /\ state.dirtyFrom < left /\ snap[d].gen = state.gen)

(* ensureSnapshotCoverage plans from the rows and the dirty range. *)
PlanCoverage(j, left, right) ==
    /\ job[j] = Idle /\ gate = None
    /\ left <= right /\ right \in Closed
    /\ gate' = j
    /\ job' = [job EXCEPT ![j] =
                 [Idle EXCEPT !.kind = "coverage", !.pc = "load",
                              !.plan = state.gen, !.from = state.dirtyFrom,
                              !.left = left, !.right = right,
                              !.todo = {d \in left .. right : NeedsRebuild(d, left)}]]
    /\ UNCHANGED <<today, content, snap, state, clock, writes>>

(* RebuildHistoricalSnapshots as the user's own request. *)
PlanRange(j, left, right) ==
    /\ job[j] = Idle
    /\ left <= right /\ right \in Closed /\ right - left < MaxChunk
    /\ job' = [job EXCEPT ![j] =
                 [Idle EXCEPT !.kind = "range", !.pc = "load", !.todo = left .. right]]
    /\ UNCHANGED <<today, content, snap, state, clock, gate, writes>>

(* dirtySnapshotRange: RebuildDirtySnapshots reads the state and the date. *)
PlanDirty(j) ==
    /\ job[j] = Idle /\ today > 1
    /\ LET to == IF state.dirtyTo # None /\ state.dirtyTo < today - 1
                 THEN state.dirtyTo ELSE today - 1
       IN  job' = [job EXCEPT ![j] =
                     [Idle EXCEPT !.kind = "ready", !.pc = "health",
                                  !.plan = state.gen,
                                  !.left = IF state.dirtyFrom = None THEN to + 1
                                           ELSE Clamped(state.dirtyFrom),
                                  !.right = to, !.end = today - 1]]
    /\ UNCHANGED <<today, content, snap, state, clock, gate, writes>>

(* readySnapshotDates: holes and outdated rows outside the dirty range. *)
incompleteSnapshotHealth(j) ==
    /\ job[j].pc = "health"
    /\ job' = [job EXCEPT ![j].pc = "load",
                          ![j].todo = {d \in 1 .. job[j].end : Outdated(d)}
                                        \ (job[j].left .. job[j].right)]
    /\ UNCHANGED <<today, content, snap, state, clock, gate, writes>>

(* The first days of todo that follow each other, at most MaxChunk. *)
IsFirstChunk(todo, first, last) ==
    /\ first .. last \subseteq todo /\ \A d \in todo : first <= d
    /\ last - first < MaxChunk
    /\ last - first = MaxChunk - 1 \/ last + 1 \notin todo

(* LoadHistoricalSnapshotBatch: facts and generation in one transaction. *)
LoadHistoricalSnapshotBatch(j, first, last) ==
    /\ job[j].pc = "load" /\ first \in job[j].todo /\ last \in job[j].todo
    /\ IsFirstChunk(job[j].todo, first, last)
    /\ job' = [job EXCEPT ![j] =
                 [@ EXCEPT !.pc = "save", !.chunk = (first .. last) \ Skipped,
                           !.todo = job[j].todo \ (first .. last), !.end = last,
                           !.batch = state.gen,
                           !.loaded = [d \in Days |->
                                         IF d \in first .. last THEN content[d]
                                         ELSE None]]]
    /\ UNCHANGED <<today, content, snap, state, clock, gate, writes>>

(* The guard in the transaction of every save. *)
SameGeneration(j) == state.gen = job[j].batch

(* The first remaining day of the batch, or the error of a moved input. *)
BuildDailyValuationSnapshot(j, d) ==
    /\ job[j].pc = "save" /\ Holds(j)
    /\ d \in job[j].chunk /\ \A e \in job[j].chunk : d <= e
    /\ \/ /\ SameGeneration(j)
          /\ snap' = [snap EXCEPT ![d] =
                        [content |-> job[j].loaded[d], gen |-> job[j].batch,
                         policy |-> "current"]]
          /\ state' = markDailySnapshotCompleted(state, d)
          /\ job' = [job EXCEPT ![j].chunk = @ \ {d}]
          /\ UNCHANGED gate
       \/ /\ ~SameGeneration(j)
          /\ Leaves(j)
          /\ UNCHANGED <<snap, state>>
    /\ UNCHANGED <<today, content, clock, writes>>

(* A dirty chunk is completed at the generation of the plan; other jobs    *)
(* go on to their next batch.                                              *)
EndChunk(j) ==
    /\ job[j].pc = "save" /\ job[j].chunk = {}
    /\ IF job[j].kind = "dirty"
       THEN /\ Holds(j)
            /\ \/ /\ state.gen = job[j].plan
                  /\ state' = completeDailySnapshotRange(state, job[j].end)
                  /\ IF job[j].todo = {} THEN Leaves(j)
                     ELSE /\ job' = [job EXCEPT ![j] =
                                       [@ EXCEPT !.pc = "check", !.end = None,
                                                 !.batch = None, !.loaded = Idle.loaded]]
                          /\ UNCHANGED gate
               \/ /\ state.gen # job[j].plan
                  /\ Leaves(j)
                  /\ UNCHANGED state
       ELSE /\ job' = [job EXCEPT ![j] =
                          [@ EXCEPT !.pc = "load", !.end = None, !.batch = None,
                                    !.loaded = Idle.loaded]]
            /\ UNCHANGED <<state, gate>>
    /\ UNCHANGED <<today, content, snap, clock, writes>>

(* RebuildDirtySnapshots before its first and before each further chunk. *)
CheckGeneration(j) ==
    /\ job[j].pc = "check"
    /\ IF state.gen = job[j].plan
       THEN /\ job' = [job EXCEPT ![j].pc = "load"]
            /\ UNCHANGED gate
       ELSE Leaves(j)
    /\ UNCHANGED <<today, content, snap, state, clock, writes>>

(* The repaired days are done: go on with the dirty range, if there is one. *)
EndReady(j) ==
    /\ job[j].kind = "ready" /\ job[j].pc = "load" /\ job[j].todo = {}
    /\ IF state.gen = job[j].plan /\ job[j].left <= job[j].right
       THEN /\ job' = [job EXCEPT ![j].kind = "dirty", ![j].pc = "check",
                                  ![j].todo = job[j].left .. job[j].right]
            /\ UNCHANGED gate
       ELSE Leaves(j)
    /\ UNCHANGED <<today, content, snap, state, clock, writes>>

EndRange(j) ==
    /\ job[j].kind = "range" /\ job[j].pc = "load" /\ job[j].todo = {}
    /\ Leaves(j)
    /\ UNCHANGED <<today, content, snap, state, clock, writes>>

(* The request succeeds when the generation of its plan still stands; the  *)
(* range is completed only when it covered the dirty prefix of the plan.   *)
Succeeds(j) ==
    /\ job[j].kind = "coverage" /\ job[j].pc = "load" /\ job[j].todo = {}
    /\ state.gen = job[j].plan

EndCoverage(j) ==
    /\ job[j].kind = "coverage" /\ job[j].pc = "load" /\ job[j].todo = {}
    /\ state' = IF Succeeds(j) /\ job[j].from # None
                     /\ job[j].from \in job[j].left .. job[j].right
                THEN completeDailySnapshotRange(state, job[j].right)
                ELSE state
    /\ Leaves(j)
    /\ UNCHANGED <<today, content, snap, clock, writes>>

(* The context is cancelled, the gate refuses the job, or it dies. *)
Cancel(j) ==
    /\ job[j] # Idle
    /\ Leaves(j)
    /\ UNCHANGED <<today, content, snap, state, clock, writes>>

(* RebuildDerivedData replaces every row in one transaction; it keeps the  *)
(* gate from its batch to the transaction, so that both are one step.      *)
RebuildDerivedData ==
    /\ gate = None
    /\ snap' = [d \in Days |->
                  IF d \in Closed \ Skipped
                  THEN [content |-> content[d], gen |-> state.gen,
                        policy |-> "current"]
                  ELSE NoSnapshot]
    /\ state' = [state EXCEPT !.dirtyFrom = None, !.dirtyTo = None]
    /\ UNCHANGED <<today, content, job, clock, gate, writes>>

----------------------------------------------------------------------------
Write ==
    \E w \in Writers :
        \/ BeginChange(w)
        \/ FetchHistory(w)
        \/ AbandonWrite(w)
        \/ \E d \in 0 .. LastDay : CommitChange(w, d)
        \/ \E d, e \in Days : CommitCorrection(w, d, e)
        \/ \E lo, hi \in 0 .. LastDay : CommitHistory(w, lo, hi)

JobStep(j) ==
    \/ PlanDirty(j)
    \/ \E left, right \in Days : PlanCoverage(j, left, right)
    \/ \E left, right \in Days : PlanRange(j, left, right)
    \/ incompleteSnapshotHealth(j)
    \/ \E first, last \in Days : LoadHistoricalSnapshotBatch(j, first, last)
    \/ \E d \in Days : BuildDailyValuationSnapshot(j, d)
    \/ EndChunk(j)
    \/ CheckGeneration(j)
    \/ EndReady(j)
    \/ EndRange(j)
    \/ EndCoverage(j)
    \/ Cancel(j)

Next ==
    \/ Write
    \/ \E j \in Jobs : JobStep(j)
    \/ RebuildDerivedData
    \/ ensureCurrentHistoricalResolverPolicy
    \/ Tick

Spec == Init /\ [][Next]_vars

----------------------------------------------------------------------------
(* Properties *)

True(d) == snap[d].content = content[d]

(* A stored snapshot that no longer agrees with the facts is known to be   *)
(* stale: its day lies in the durable dirty range, or the row carries an   *)
(* old policy.  Saves, completions of a chunk, widening and re-marking in  *)
(* any interleaving never drop a stale day from the range.                 *)
StaleIsDirty ==
    \A d \in Closed : Exists(d) /\ ~True(d) => InRange(state, d) \/ Outdated(d)

(* The generation stored in a row is evidence: a row of the current        *)
(* generation and policy agrees with the facts, even inside the dirty      *)
(* range.  ensureSnapshotCoverage reuses such rows without a rebuild.      *)
GenerationIsEvidence ==
    \A d \in Closed :
        ~Outdated(d) /\ snap[d].gen = state.gen => True(d)

(* A request for coverage that succeeds leaves a true snapshot for every   *)
(* day it asked for, whatever ran before it and beside it.                 *)
CoverageDelivers ==
    [][\A j \in Jobs :
          Succeeds(j) /\ EndCoverage(j)
          => \A d \in (job[j].left .. job[j].right) \ Skipped :
                 ~Outdated(d) /\ True(d)]_vars

(* What expandDirtyToLocalBound is for: market history that changes a day  *)
(* leaves every stored snapshot it makes stale, the days it is carried     *)
(* forward to included, in the dirty range.                                *)
HistoryInvalidates ==
    [][(\E w \in Writers : \E lo, hi \in 0 .. LastDay : CommitHistory(w, lo, hi))
       => \A d \in Closed : ~Outdated(d) /\ snap[d].content # content'[d]
                              => InRange(state', d)]_vars
=============================================================================
