----------------------- MODULE HistorySnapshotsProofs -----------------------
(***************************************************************************)
(* Proofs about HistorySnapshots, for any number of days, jobs, writers    *)
(* and changes, any chunk size and any interleaving.  They hold for a      *)
(* timezone in which every civil date exists and for writers that commit   *)
(* on the day of their clock: the two cases left out are the ones in which *)
(* the code does lose a stale day.                                         *)
(***************************************************************************)
EXTENDS HistorySnapshots, TLAPS

----------------------------------------------------------------------------
(* The inductive invariant *)

Kinds == {"idle", "coverage", "range", "ready", "dirty"}

Phases == {"idle", "health", "load", "save", "check"}

Row == [content : Int, gen : Int, policy : {"current", "earlier"}]

LowerBound == {None} \cup (Nat \ {0})

UpperBound == {None} \cup Nat

StateRow == [dirtyFrom : LowerBound, dirtyTo : UpperBound, gen : Nat]

JobRow == [kind : Kinds, pc : Phases, plan : Int, from : Int, left : Int,
           right : Int, todo : SUBSET Int, chunk : SUBSET Int, end : Int,
           batch : Int, loaded : [Days -> Int]]

TypeOK ==
    /\ today \in Days
    /\ content \in [Days -> Nat]
    /\ snap \in [Days -> Row]
    /\ state \in StateRow
    /\ job \in [Jobs -> JobRow]
    /\ clock \in [Writers -> Int]

(* A writer's clock is today's date. *)
ClockIsNow == \A w \in Writers : clock[w] \in {None, today}

(* Only closed days have a row, and no row is of a later generation. *)
RowsAreClosed ==
    \A d \in Days : (d >= today => ~Exists(d)) /\ snap[d].gen <= state.gen

Pending(j) == job[j].todo \cup job[j].chunk

Planned == {"coverage", "ready", "dirty"}

Fresh(d) == ~Outdated(d) /\ True(d)

(* A job works on closed days, in ascending order, and a coverage request  *)
(* keeps the gate.                                                         *)
JobShape(j) ==
    /\ Pending(j) \subseteq 1 .. today - 1
    /\ job[j].pc # "save" => job[j].chunk = {}
    /\ \A d \in job[j].chunk, e \in job[j].todo : d < e
    /\ job[j].kind = "coverage" => gate = j
    /\ job[j].pc = "save" => job[j].batch <= state.gen
    /\ job[j].kind \in Planned
       => job[j].plan <= state.gen /\ job[j].left >= 1 /\ job[j].right < today
    /\ job[j].pc = "health" => job[j].kind = "ready" /\ job[j].end < today
    /\ job[j].kind = "dirty" => Pending(j) \subseteq job[j].left .. job[j].right
    /\ job[j].kind = "dirty" /\ job[j].pc = "save"
       => job[j].end <= job[j].right /\ \A d \in job[j].todo : d > job[j].end

(* A batch whose generation stands still agrees with the facts. *)
BatchIsTrue(j) ==
    job[j].pc = "save" /\ job[j].batch = state.gen
    => \A d \in job[j].chunk : job[j].loaded[d] = content[d]

(* The first day a job's plan found dirty. *)
PlanFrom(j) == IF job[j].kind = "coverage" THEN job[j].from ELSE job[j].left

(* While the generation of the plan stands, the dirty range only shrinks   *)
(* from below, every day of the job that is not pending is fresh, and an   *)
(* unbounded range has all its days of the job pending.                    *)
PlanHolds(j) ==
    job[j].plan = state.gen
    => /\ job[j].kind \in Planned
          => state.dirtyFrom = None \/ state.dirtyFrom >= PlanFrom(j)
       /\ job[j].kind \in {"coverage", "dirty"}
          => /\ \A d \in job[j].left .. job[j].right : d \in Pending(j) \/ Fresh(d)
             /\ /\ PlanFrom(j) >= job[j].left
                /\ state.dirtyTo = None /\ state.dirtyFrom # None
                => \A d \in state.dirtyFrom .. job[j].right : d \in Pending(j)

JobFine(j) == JobShape(j) /\ BatchIsTrue(j) /\ PlanHolds(j)

IInv ==
    /\ TypeOK
    /\ ClockIsNow
    /\ RowsAreClosed
    /\ StaleIsDirty
    /\ GenerationIsEvidence
    /\ \A j \in Jobs : JobFine(j)
----------------------------------------------------------------------------
(* Marking the dirty range *)

(* The row t that a writer of day a makes of s loses no closed day of s,   *)
(* holds every closed day from c on, and has a new generation if there is  *)
(* such a day.                                                             *)
Marks(s, t, c, a) ==
    /\ t \in StateRow
    /\ t.gen >= s.gen
    /\ \A d \in 1 .. a - 1 : InRange(s, d) \/ d >= c => InRange(t, d)
    /\ t.gen = s.gen => /\ c >= a
                        /\ t.dirtyFrom = s.dirtyFrom
                        /\ t.dirtyTo = None => s.dirtyTo = None

(* The fields of the row. *)
LEMMA RowFields ==
    ASSUME NEW s \in StateRow
    PROVE  s.dirtyFrom \in LowerBound /\ s.dirtyTo \in UpperBound /\ s.gen \in Nat
  BY DEF StateRow

(* markHistoryDirty marks a closed day and everything after it, and leaves *)
(* the row alone when the day is still open.                               *)
LEMMA MarkedChange ==
    ASSUME NEW s \in StateRow, NEW d \in Int, NEW a \in Nat \ {0}
    PROVE  Marks(s, markHistoryDirty(s, d, a), Clamped(d), a)
<1>0. /\ s.dirtyFrom \in LowerBound /\ s.dirtyTo \in UpperBound /\ s.gen \in Nat
      /\ Clamped(d) \in Nat \ {0}
  BY RowFields DEF Clamped, Larger
<1>1. CASE Clamped(d) >= a
  <2>1. markHistoryDirty(s, d, a) = s
    BY <1>1 DEF markHistoryDirty
  <2> QED
    BY <1>0, <1>1, <2>1 DEF Marks, LowerBound, UpperBound
<1>2. CASE ~(Clamped(d) >= a)
  <2> DEFINE f == IF s.dirtyFrom = None \/ s.dirtyFrom > Clamped(d) THEN Clamped(d)
                  ELSE s.dirtyFrom
             to == Widen(s.dirtyTo, a - 1)
             t == [s EXCEPT !.dirtyFrom = f, !.dirtyTo = to, !.gen = s.gen + 1]
  <2>1. markHistoryDirty(s, d, a) = t
    BY <1>2 DEF markHistoryDirty
  <2>2. /\ f \in LowerBound /\ f # None /\ f <= Clamped(d)
        /\ s.dirtyFrom # None => f <= s.dirtyFrom
    BY <1>0 DEF None, LowerBound
  <2>3. to \in UpperBound /\ (to = None \/ to >= a - 1)
    BY <1>0 DEF Widen, None, UpperBound
  <2> HIDE DEF f, to
  <2>4. s.gen + 1 \in Nat
    BY <1>0
  <2>5. t \in StateRow /\ t.dirtyFrom = f /\ t.dirtyTo = to /\ t.gen = s.gen + 1
    BY <2>2, <2>3, <2>4 DEF StateRow
  <2> HIDE DEF t
  <2>6. \A e \in 1 .. a - 1 : InRange(s, e) \/ e >= Clamped(d) => InRange(t, e)
    BY <1>0, <2>2, <2>3, <2>5 DEF InRange, None, LowerBound, UpperBound
  <2> QED
    BY <1>0, <2>1, <2>5, <2>6 DEF Marks
<1> QED
  BY <1>1, <1>2

(* A correction marks the earlier of its two days. *)
LEMMA MarkedCorrection ==
    ASSUME NEW s \in StateRow, NEW d \in Int, NEW e \in Int, NEW a \in Nat \ {0}
    PROVE  Marks(s, markCorrection(s, d, e, a), Clamped(IF d < e THEN d ELSE e), a)
<1> DEFINE t == markHistoryDirty(s, d, a)
           u == markHistoryDirty(t, e, a)
           v == markCorrection(s, d, e, a)
           c == Clamped(IF d < e THEN d ELSE e)
<1>1. Marks(s, t, Clamped(d), a)
  BY MarkedChange
<1>2. Marks(t, u, Clamped(e), a)
  <2>1. t \in StateRow
    BY <1>1 DEF Marks
  <2> HIDE DEF t
  <2> QED
    BY <2>1, MarkedChange
<1>3. c \in Int /\ (c = Clamped(d) \/ c = Clamped(e))
      /\ Clamped(d) \in Int /\ Clamped(e) \in Int
      /\ c <= Clamped(d) /\ c <= Clamped(e)
  BY DEF Clamped, Larger
<1>4. v = IF u.dirtyFrom = None THEN u
          ELSE [u EXCEPT !.dirtyTo = AtLeast(u.dirtyTo, a - 1)]
  BY DEF markCorrection
<1> HIDE DEF t, u, v, c
<1>5. Marks(s, u, c, a)
  BY <1>1, <1>2, <1>3 DEF Marks, StateRow, InRange, None
<1>6. u \in StateRow /\ u.dirtyFrom \in LowerBound /\ u.dirtyTo \in UpperBound
      /\ u.gen \in Nat
  BY <1>5, RowFields DEF Marks
<1> DEFINE to == AtLeast(u.dirtyTo, a - 1)
<1>7. to \in UpperBound /\ to # None /\ to >= a - 1
  BY <1>6 DEF AtLeast, None, UpperBound
<1> HIDE DEF to
<1>8. /\ v \in StateRow /\ v.gen = u.gen /\ v.dirtyFrom = u.dirtyFrom
      /\ \/ u.dirtyFrom = None /\ v.dirtyTo = u.dirtyTo
         \/ u.dirtyFrom # None /\ v.dirtyTo = to
  <2>1. CASE u.dirtyFrom = None
    <3>1. v = u
      BY <1>4, <2>1
    <3> QED
      BY <1>6, <2>1, <3>1
  <2>2. CASE u.dirtyFrom # None
    <3>1. v = [u EXCEPT !.dirtyTo = to]
      BY <1>4, <2>2 DEF to
    <3> QED
      BY <1>6, <1>7, <2>2, <3>1 DEF StateRow
  <2> QED
    BY <2>1, <2>2
<1>9. \A x \in 1 .. a - 1 : InRange(u, x) => InRange(v, x)
  BY <1>6, <1>7, <1>8 DEF None, InRange, LowerBound, UpperBound
<1>10. Marks(s, v, c, a)
  BY <1>5, <1>7, <1>8, <1>9 DEF Marks
<1> QED
  BY <1>10 DEF c, v

(* Market history marks from its first date to the writer's last closed    *)
(* day, and always takes a new generation.                                 *)
LEMMA MarkedHistory ==
    ASSUME NEW s \in StateRow, NEW lo \in Int, NEW hi \in Int, NEW a \in Nat \ {0}
    PROVE  Marks(s, bumpHistoryInputGeneration(s, lo, hi, a), Clamped(lo), a)
<1> DEFINE t == markHistoryDirty(s, lo, a)
           b == expandDirtyToLocalBound(hi, a)
           to == AtLeast(t.dirtyTo, b)
           g == IF t = s THEN t.gen + 1 ELSE t.gen
           v == [t EXCEPT !.dirtyTo = to, !.gen = g]
<1>1. Marks(s, t, Clamped(lo), a)
  BY MarkedChange
<1>2. bumpHistoryInputGeneration(s, lo, hi, a) = v
  BY DEF bumpHistoryInputGeneration
<1>3. b \in Nat /\ b >= a - 1
  BY DEF expandDirtyToLocalBound, Larger, Clamped
<1>4. t.gen = s.gen => t = s
  <2>1. CASE Clamped(lo) >= a
    BY <2>1 DEF markHistoryDirty
  <2>2. CASE ~(Clamped(lo) >= a)
    <3>1. Clamped(lo) < a
      BY <2>2 DEF Clamped, Larger
    <3>2. t.gen # s.gen
      BY <1>1, <3>1 DEF Marks, Clamped, Larger
    <3> QED
      BY <3>2
  <2> QED
    BY <2>1, <2>2
<1> HIDE DEF t, b
<1>5. /\ t \in StateRow /\ t.dirtyFrom \in LowerBound /\ t.dirtyTo \in UpperBound
      /\ t.gen \in Nat /\ s.gen \in Nat /\ t.gen >= s.gen
  BY <1>1, RowFields DEF Marks
<1>6. to \in UpperBound /\ to >= b /\ to >= t.dirtyTo /\ to # None
  BY <1>3, <1>5 DEF AtLeast, None, UpperBound
<1>7. g \in Nat /\ g > s.gen
  BY <1>4, <1>5
<1> HIDE DEF to, g
<1>8. v \in StateRow /\ v.dirtyFrom = t.dirtyFrom /\ v.dirtyTo = to /\ v.gen = g
  BY <1>5, <1>6, <1>7 DEF StateRow
<1> HIDE DEF v
<1>9. \A x \in 1 .. a - 1 : InRange(t, x) => InRange(v, x)
  BY <1>3, <1>5, <1>6, <1>8 DEF InRange, None, LowerBound, UpperBound
<1>10. \A x \in 1 .. a - 1 : InRange(s, x) \/ x >= Clamped(lo) => InRange(v, x)
  BY <1>1, <1>9 DEF Marks
<1> QED
  BY <1>2, <1>5, <1>7, <1>8, <1>10 DEF Marks

(* Completing a range removes only days the job has rebuilt, unless the    *)
(* range is unbounded and begins at or below the target.                   *)
LEMMA CompletedRange ==
    ASSUME NEW s \in StateRow, NEW target \in Int, NEW lo \in Int,
           s.dirtyFrom = None \/ s.dirtyFrom >= lo,
           ~(s.dirtyTo = None /\ s.dirtyFrom # None /\ s.dirtyFrom <= target)
    PROVE  LET t == completeDailySnapshotRange(s, target)
           IN  /\ t \in StateRow /\ t.gen = s.gen
               /\ t.dirtyFrom = None
                  \/ (s.dirtyFrom # None /\ t.dirtyFrom >= s.dirtyFrom)
               /\ t.dirtyFrom # None /\ t.dirtyTo = None => s.dirtyTo = None
               /\ \A d \in Int : InRange(s, d) /\ ~InRange(t, d) => d \in lo .. target
<1> DEFINE t == completeDailySnapshotRange(s, target)
<1>0. s.dirtyFrom \in LowerBound /\ s.dirtyTo \in UpperBound /\ s.gen \in Nat
  BY RowFields
<1>1. CASE s.dirtyFrom = None \/ (s.dirtyTo # None /\ s.dirtyTo <= target)
  <2>1. t = [s EXCEPT !.dirtyFrom = None, !.dirtyTo = None]
    BY <1>1 DEF completeDailySnapshotRange
  <2>2. t \in StateRow /\ t.dirtyFrom = None /\ t.dirtyTo = None /\ t.gen = s.gen
    <3>1. None \in LowerBound /\ None \in UpperBound
      BY DEF LowerBound, UpperBound
    <3> HIDE DEF t
    <3> QED
      BY <2>1, <3>1 DEF StateRow
  <2> HIDE DEF t
  <2>3. \A d \in Int : InRange(s, d) => d \in lo .. target
    BY <1>0, <1>1 DEF InRange, None, LowerBound, UpperBound
  <2> QED
    BY <2>2, <2>3 DEF t
<1>2. CASE /\ ~(s.dirtyFrom = None \/ (s.dirtyTo # None /\ s.dirtyTo <= target))
           /\ s.dirtyFrom > target
  <2>1. t = s
    BY <1>2 DEF completeDailySnapshotRange
  <2> HIDE DEF t
  <2> QED
    BY <1>0, <1>2, <2>1 DEF LowerBound, None, t
<1>3. CASE /\ ~(s.dirtyFrom = None \/ (s.dirtyTo # None /\ s.dirtyTo <= target))
           /\ ~(s.dirtyFrom > target)
  <2>1. s.dirtyTo # None /\ s.dirtyFrom \in Nat \ {0} /\ s.dirtyFrom <= target
        /\ target + 1 \in LowerBound
    BY <1>0, <1>3 DEF LowerBound, None
  <2>2. t = [s EXCEPT !.dirtyFrom = target + 1]
    BY <1>3, <2>1 DEF completeDailySnapshotRange
  <2>3. t \in StateRow /\ t.dirtyFrom = target + 1 /\ t.dirtyTo = s.dirtyTo
        /\ t.gen = s.gen
    <3> HIDE DEF t
    <3> QED
      BY <2>1, <2>2 DEF StateRow
  <2> HIDE DEF t
  <2>4. \A d \in Int : InRange(s, d) /\ ~InRange(t, d) => d \in lo .. target
    BY <1>0, <2>1, <2>3 DEF InRange, None, UpperBound
  <2> QED
    BY <1>0, <2>1, <2>3, <2>4 DEF t, LowerBound, None
<1> QED
  BY <1>1, <1>2, <1>3

----------------------------------------------------------------------------
(* Steps seen from a job that does not take them *)

(* The fields of a job have their types. *)
LEMMA JobFields ==
    ASSUME TypeOK, NEW j \in Jobs
    PROVE  /\ job[j].kind \in Kinds /\ job[j].pc \in Phases
           /\ job[j].plan \in Int /\ job[j].from \in Int /\ job[j].left \in Int
           /\ job[j].right \in Int /\ job[j].end \in Int /\ job[j].batch \in Int
           /\ job[j].todo \in SUBSET Int /\ job[j].chunk \in SUBSET Int
           /\ job[j].loaded \in [Days -> Int]
  BY DEF TypeOK, JobRow

(* So do the fields of history_snapshot_state. *)
LEMMA StateFields ==
    ASSUME TypeOK
    PROVE  /\ state.dirtyFrom \in LowerBound /\ state.dirtyTo \in UpperBound
           /\ state.gen \in Nat /\ today \in Days /\ LastDay \in Nat \ {0}
  BY SnapshotAssumption DEF TypeOK, StateRow

(* A step that keeps the generation changes no closed day, loses no fresh  *)
(* row, and only raises the lower end of the dirty range.                  *)
Steady ==
    /\ \A d \in Days : d < today => /\ content'[d] = content[d]
                                    /\ Fresh(d) => Fresh(d)'
    /\ \/ state'.dirtyFrom = None
       \/ state.dirtyFrom # None /\ state'.dirtyFrom >= state.dirtyFrom
    /\ state'.dirtyFrom # None /\ state'.dirtyTo = None => state.dirtyTo = None

SamePlan(i) ==
    /\ job'[i].kind = job[i].kind /\ job'[i].plan = job[i].plan
    /\ job'[i].from = job[i].from /\ job'[i].left = job[i].left
    /\ job'[i].right = job[i].right /\ job'[i].todo = job[i].todo
    /\ job'[i].chunk = job[i].chunk

(* What a job has planned survives the step of another: a new generation ends the plan. *)
LEMMA PlanKept ==
    ASSUME TypeOK, TypeOK', NEW i \in Jobs, JobFine(i), SamePlan(i),
           state'.gen >= state.gen, state'.gen = state.gen => Steady
    PROVE  PlanHolds(i)'
<1>1. /\ job[i].plan \in Int /\ job[i].from \in Int /\ job[i].left \in Int
      /\ job[i].right \in Int
  BY JobFields
<1>2. /\ state.dirtyFrom \in LowerBound /\ state.dirtyTo \in UpperBound
      /\ state.gen \in Nat /\ today \in Days /\ LastDay \in Nat \ {0}
  BY StateFields
<1>3. /\ state'.dirtyFrom \in LowerBound /\ state'.dirtyTo \in UpperBound
      /\ state'.gen \in Nat
  BY DEF TypeOK, StateRow
<1>4. Pending(i)' = Pending(i) /\ PlanFrom(i)' = PlanFrom(i)
  BY DEF Pending, PlanFrom, SamePlan
<1> SUFFICES ASSUME job[i].plan = state'.gen, job[i].kind \in Planned
             PROVE  PlanHolds(i)'
  BY DEF PlanHolds, Planned, SamePlan
<1>5. state'.gen = state.gen /\ job[i].left >= 1 /\ job[i].right < today
  BY <1>1, <1>2, <1>3 DEF JobFine, JobShape
<1>6. PlanFrom(i) \in Int
  BY <1>1 DEF PlanFrom
<1>7. state'.dirtyFrom = None \/ state'.dirtyFrom >= PlanFrom(i)
  BY <1>2, <1>3, <1>5, <1>6 DEF JobFine, PlanHolds, Steady, LowerBound, None
<1>8. ASSUME job[i].kind \in {"coverage", "dirty"}, NEW d \in job[i].left .. job[i].right
      PROVE  d \in Pending(i) \/ Fresh(d)'
  <2>1. d \in Days /\ d < today
    BY <1>1, <1>2, <1>5 DEF Days
  <2> QED
    BY <1>5, <1>8, <2>1 DEF JobFine, PlanHolds, Steady
<1>9. ASSUME job[i].kind \in {"coverage", "dirty"}, PlanFrom(i) >= job[i].left,
             state'.dirtyTo = None, state'.dirtyFrom # None,
             NEW d \in state'.dirtyFrom .. job[i].right
      PROVE  d \in Pending(i)
  <2>1. state.dirtyTo = None /\ state.dirtyFrom # None
        /\ state'.dirtyFrom >= state.dirtyFrom
    BY <1>5, <1>9 DEF Steady
  <2>2. d \in state.dirtyFrom .. job[i].right
    BY <1>1, <1>2, <1>3, <1>9, <2>1 DEF LowerBound, None
  <2> QED
    BY <1>5, <1>9, <2>1, <2>2 DEF JobFine, PlanHolds
<1> QED
  BY <1>4, <1>7, <1>8, <1>9 DEF PlanHolds, SamePlan

(* Whatever another actor does, a job keeps its part of the invariant if   *)
(* the step is steady or takes a new generation.                           *)
LEMMA JobKept ==
    ASSUME TypeOK, TypeOK', NEW i \in Jobs, JobFine(i), job'[i] = job[i],
           today' >= today, state'.gen >= state.gen,
           job[i].kind = "coverage" => gate' = i,
           state'.gen = state.gen => Steady
    PROVE  JobFine(i)'
<1>1. /\ job[i].plan \in Int /\ job[i].from \in Int /\ job[i].left \in Int
      /\ job[i].right \in Int /\ job[i].end \in Int /\ job[i].batch \in Int
      /\ job[i].todo \in SUBSET Int /\ job[i].chunk \in SUBSET Int
  BY JobFields
<1>2. /\ state.dirtyFrom \in LowerBound /\ state.dirtyTo \in UpperBound
      /\ state.gen \in Nat /\ today \in Days /\ LastDay \in Nat \ {0}
  BY StateFields
<1>3. /\ state'.dirtyFrom \in LowerBound /\ state'.dirtyTo \in UpperBound
      /\ state'.gen \in Nat /\ today' \in Days
  BY DEF TypeOK, StateRow
<1>4. Pending(i)' = Pending(i) /\ PlanFrom(i)' = PlanFrom(i)
  BY DEF Pending, PlanFrom
<1>5. JobShape(i)'
  BY <1>1, <1>2, <1>3, <1>4 DEF JobFine, JobShape, Days
<1>6. BatchIsTrue(i)'
  <2> SUFFICES ASSUME job[i].pc = "save", job[i].batch = state'.gen,
                      NEW d \in job[i].chunk
               PROVE  job[i].loaded[d] = content'[d]
    BY DEF BatchIsTrue
  <2>1. d \in Pending(i) /\ d \in 1 .. today - 1 /\ job[i].batch <= state.gen
    BY DEF JobFine, JobShape, Pending
  <2>2. d \in Days /\ d < today /\ state'.gen = state.gen
    BY <1>1, <1>2, <1>3, <2>1 DEF Days
  <2> QED
    BY <2>2 DEF JobFine, BatchIsTrue, Steady
<1>7. PlanHolds(i)'
  BY PlanKept DEF SamePlan
<1> QED
  BY <1>5, <1>6, <1>7 DEF JobFine

----------------------------------------------------------------------------
(* The steps of writers *)

(* While a writer or nobody holds the gate, no coverage request is under way. *)
LEMMA NoCoverage ==
    ASSUME IInv, gate = None \/ gate \in Writers, NEW i \in Jobs
    PROVE  job[i].kind # "coverage"
  BY ActorAssumption DEF IInv, JobFine, JobShape

(* A commit that marks what it changes keeps the invariant.  Rows of the   *)
(* earlier generation stop being evidence, and the days it changes are in  *)
(* the range.                                                              *)
LEMMA CommitKeeps ==
    ASSUME IInv, NEW w \in Writers, NEW lo \in Int,
           gate = None \/ gate = w, content' = Affects(lo),
           Marks(state, state', Clamped(lo), today),
           clock' = [clock EXCEPT ![w] = None], UNCHANGED <<today, snap, job>>
    PROVE  IInv'
<1>1. TypeOK /\ RowsAreClosed /\ StaleIsDirty /\ GenerationIsEvidence /\ ClockIsNow
  BY DEF IInv
<1>2. /\ state.dirtyFrom \in LowerBound /\ state.dirtyTo \in UpperBound
      /\ state.gen \in Nat /\ today \in Days /\ LastDay \in Nat \ {0}
  BY <1>1, StateFields
<1>3. /\ state' \in StateRow /\ state'.gen \in Nat /\ state'.gen >= state.gen
      /\ state'.dirtyFrom \in LowerBound /\ state'.dirtyTo \in UpperBound
  BY RowFields DEF Marks
<1>4. Clamped(lo) \in Int
  BY DEF Clamped, Larger
<1>5. /\ content' \in [Days -> Nat]
      /\ \A d \in Days : content'[d] = content[d] \/ d >= Clamped(lo)
  BY <1>1, <1>4 DEF Affects, TypeOK, Days
<1>6. TypeOK'
  BY <1>1, <1>3, <1>5 DEF TypeOK, None
<1>7. ClockIsNow'
  BY <1>1 DEF ClockIsNow, TypeOK
<1>8. \A d \in Days : Exists(d)' = Exists(d) /\ Outdated(d)' = Outdated(d)
  BY DEF Exists, Outdated
<1>9. RowsAreClosed'
  <2>1. \A d \in Days : snap[d].gen \in Int
    BY <1>1 DEF TypeOK, Row
  <2> QED
    BY <1>1, <1>2, <1>3, <1>8, <2>1 DEF RowsAreClosed
<1>10. \A d \in 1 .. today - 1 : InRange(state, d) \/ d >= Clamped(lo) => InRange(state', d)
  BY DEF Marks
<1>11. StaleIsDirty'
  <2> SUFFICES ASSUME NEW d \in Closed, Exists(d)', ~True(d)'
               PROVE  InRange(state', d) \/ Outdated(d)'
    BY DEF StaleIsDirty, Closed
  <2>1. d \in Days /\ d \in 1 .. today - 1
    BY <1>2 DEF Closed, Days
  <2>2. CASE content'[d] = content[d]
    BY <1>1, <1>8, <1>10, <2>1, <2>2 DEF StaleIsDirty, True
  <2> QED
    BY <1>5, <1>10, <2>1, <2>2
<1>12. state'.gen = state.gen => Steady
  <2> SUFFICES ASSUME state'.gen = state.gen
               PROVE  Steady
    OBVIOUS
  <2>1. /\ Clamped(lo) >= today /\ state'.dirtyFrom = state.dirtyFrom
        /\ state'.dirtyTo = None => state.dirtyTo = None
    BY DEF Marks
  <2>2. \A d \in Days : d < today => content'[d] = content[d]
    BY <1>2, <1>4, <1>5, <2>1 DEF Days
  <2>3. \A d \in Days : d < today => (Fresh(d) => Fresh(d)')
    BY <1>8, <2>2 DEF Fresh, True
  <2> QED
    BY <1>2, <2>1, <2>2, <2>3 DEF Steady, LowerBound, None
<1>13. GenerationIsEvidence'
  <2> SUFFICES ASSUME NEW d \in Closed, ~Outdated(d)', snap[d].gen = state'.gen
               PROVE  True(d)'
    BY DEF GenerationIsEvidence, Closed
  <2>1. d \in Days /\ d < today /\ snap[d].gen <= state.gen
    BY <1>1, <1>2 DEF Closed, Days, RowsAreClosed
  <2>2. state'.gen = state.gen
    BY <1>2, <1>3, <2>1
  <2> QED
    BY <1>1, <1>8, <1>12, <2>1, <2>2 DEF GenerationIsEvidence, Steady, True
<1>14. \A i \in Jobs : JobFine(i)'
  <2> SUFFICES ASSUME NEW i \in Jobs
               PROVE  JobFine(i)'
    OBVIOUS
  <2>1. job[i].kind # "coverage"
    BY NoCoverage
  <2>2. JobFine(i) /\ today' >= today /\ job'[i] = job[i]
    BY <1>2 DEF IInv, Days
  <2> QED
    BY <1>1, <1>3, <1>6, <1>12, <2>1, <2>2, JobKept
<1> QED
  BY <1>6, <1>7, <1>9, <1>11, <1>13, <1>14 DEF IInv

(* The steps of a writer keep the invariant. *)
LEMMA WriteKeeps ==
    ASSUME IInv, Write
    PROVE  IInv'
<1>1. PICK w \in Writers :
        \/ BeginChange(w)
        \/ FetchHistory(w)
        \/ AbandonWrite(w)
        \/ \E d \in 0 .. LastDay : CommitChange(w, d)
        \/ \E d, e \in Days : CommitCorrection(w, d, e)
        \/ \E lo, hi \in 0 .. LastDay : CommitHistory(w, lo, hi)
  BY DEF Write
<1>2. /\ state \in StateRow /\ state.gen \in Nat /\ today \in Days /\ today \in Nat \ {0}
      /\ LastDay \in Nat \ {0} /\ clock \in [Writers -> Int]
      /\ clock[w] = None \/ clock[w] = today
  BY StateFields DEF IInv, TypeOK, ClockIsNow, Days
<1>3. CASE BeginChange(w) \/ FetchHistory(w) \/ AbandonWrite(w)
  <2>1. UNCHANGED <<today, content, snap, state, job>>
    BY <1>3 DEF BeginChange, FetchHistory, AbandonWrite
  <2>2. /\ clock' \in [Writers -> Int]
        /\ \A x \in Writers : clock'[x] = clock[x] \/ clock'[x] = None \/ clock'[x] = today
    BY <1>2, <1>3 DEF BeginChange, FetchHistory, AbandonWrite, Days, None
  <2>3. TypeOK' /\ ClockIsNow' /\ RowsAreClosed' /\ StaleIsDirty' /\ GenerationIsEvidence'
    BY <2>1, <2>2 DEF IInv, TypeOK, ClockIsNow, RowsAreClosed, StaleIsDirty,
       GenerationIsEvidence, Exists, Outdated, True, Closed
  <2>4. ASSUME NEW i \in Jobs
        PROVE  JobFine(i)'
    <3>1. job[i].kind = "coverage" => gate = i /\ gate' = i
      <4> SUFFICES ASSUME job[i].kind = "coverage"
                   PROVE  gate = i /\ gate' = i
        OBVIOUS
      <4>1. gate # None /\ gate \notin Writers
        BY NoCoverage
      <4>2. gate = i
        BY DEF IInv, JobFine, JobShape
      <4> QED
        BY <1>3, <4>1, <4>2 DEF BeginChange, FetchHistory, AbandonWrite
    <3>2. Steady
      <4>1. \A d \in Days : Fresh(d)' = Fresh(d)
        BY <2>1 DEF Fresh, Outdated, Exists, True
      <4>2. state.dirtyFrom \in LowerBound
        BY RowFields, <1>2
      <4> QED
        BY <2>1, <4>1, <4>2 DEF Steady, LowerBound, None
    <3> QED
      BY <1>2, <2>1, <2>3, <3>1, <3>2, JobKept DEF IInv
  <2> QED
    BY <2>3, <2>4 DEF IInv
<1>4. ASSUME NEW d \in 0 .. LastDay, CommitChange(w, d)
      PROVE  IInv'
  <2>1. clock[w] = today /\ d \in Int
    BY <1>2, <1>4 DEF CommitChange, None
  <2>2. Marks(state, state', Clamped(d), today)
    BY <1>2, <1>4, <2>1, MarkedChange DEF CommitChange
  <2> QED
    BY <1>4, <2>1, <2>2, CommitKeeps DEF CommitChange, EndWrite
<1>5. ASSUME NEW d \in Days, NEW e \in Days, CommitCorrection(w, d, e)
      PROVE  IInv'
  <2> DEFINE lo == IF d < e THEN d ELSE e
  <2>1. clock[w] = today /\ d \in Int /\ e \in Int /\ lo \in Int
    BY <1>2, <1>5 DEF CommitCorrection, None, Days
  <2>2. Marks(state, state', Clamped(lo), today)
    BY <1>2, <1>5, <2>1, MarkedCorrection DEF CommitCorrection
  <2>3. content' = Affects(lo)
    BY <1>5 DEF CommitCorrection
  <2> HIDE DEF lo
  <2> QED
    BY <1>5, <2>1, <2>2, <2>3, CommitKeeps DEF CommitCorrection, EndWrite
<1>6. ASSUME NEW lo \in 0 .. LastDay, NEW hi \in 0 .. LastDay, CommitHistory(w, lo, hi)
      PROVE  IInv'
  <2>1. clock[w] = today /\ lo \in Int /\ hi \in Int
    BY <1>2, <1>6 DEF CommitHistory
  <2>2. Marks(state, state', Clamped(lo), today)
    BY <1>2, <1>6, <2>1, MarkedHistory DEF CommitHistory
  <2> QED
    BY <1>6, <2>1, <2>2, CommitKeeps DEF CommitHistory, EndWrite
<1> QED
  BY <1>1, <1>3, <1>4, <1>5, <1>6

----------------------------------------------------------------------------
(* The steps of jobs that change neither rows nor facts *)

(* What the step of job j leaves to the other jobs. *)
OthersKept(j) ==
    /\ job' \in [Jobs -> JobRow]
    /\ \A i \in Jobs \ {j} : job'[i] = job[i] /\ (gate = i => gate' = i)

(* A step that only moves one job keeps the invariant if that job stays fine. *)
LEMMA JobStepKeeps ==
    ASSUME IInv, NEW j \in Jobs, UNCHANGED <<today, content, snap, state, clock>>,
           OthersKept(j), JobFine(j)'
    PROVE  IInv'
<1>1. TypeOK' /\ ClockIsNow' /\ RowsAreClosed' /\ StaleIsDirty' /\ GenerationIsEvidence'
  BY DEF IInv, TypeOK, ClockIsNow, RowsAreClosed, StaleIsDirty,
     GenerationIsEvidence, Exists, Outdated, True, Closed, OthersKept
<1>2. Steady
  <2>1. \A d \in Days : Fresh(d)' = Fresh(d)
    BY DEF Fresh, Outdated, Exists, True
  <2>2. state.dirtyFrom \in LowerBound
    BY StateFields DEF IInv
  <2> QED
    BY <2>1, <2>2 DEF Steady, LowerBound, None
<1>3. ASSUME NEW i \in Jobs \ {j}
      PROVE  JobFine(i)'
  <2>1. job[i].kind = "coverage" => gate' = i
    BY DEF IInv, JobFine, JobShape, OthersKept
  <2>2. today' >= today /\ state'.gen >= state.gen
    BY StateFields DEF IInv, Days
  <2> QED
    BY <1>1, <1>2, <2>1, <2>2, JobKept DEF IInv, OthersKept
<1> QED
  BY <1>1, <1>3 DEF IInv

(* The idle job is a job. *)
LEMMA IdleType == Idle \in JobRow
<1>1. [d \in Days |-> None] \in [Days -> Int]
  BY DEF None
<1>2. None \in Int
  BY DEF None
<1> QED
  BY <1>1, <1>2 DEF Idle, JobRow, Kinds, Phases

(* A job that leaves has nothing pending. *)
LEMMA Left ==
    ASSUME TypeOK, TypeOK', NEW j \in Jobs, Leaves(j)
    PROVE  OthersKept(j) /\ JobFine(j)'
<1>1. OthersKept(j) /\ job'[j] = Idle
  BY IdleType DEF Leaves, OthersKept, TypeOK
<1>2. /\ job'[j].kind = "idle" /\ job'[j].pc = "idle"
      /\ job'[j].todo = {} /\ job'[j].chunk = {}
  BY <1>1 DEF Idle
<1> QED
  BY <1>1, <1>2 DEF JobFine, JobShape, BatchIsTrue, PlanHolds, Planned, Pending

(* A job that leaves keeps the invariant. *)
LEMMA LeavesKeeps ==
    ASSUME IInv, NEW j \in Jobs, Leaves(j),
           UNCHANGED <<today, content, snap, state, clock>>
    PROVE  IInv'
<1>1. TypeOK'
  BY IdleType DEF IInv, TypeOK, Leaves
<1> QED
  BY <1>1, Left, JobStepKeeps DEF IInv

(* The plan of a coverage request holds: a day it leaves out has a row that *)
(* is outside the dirty range or of the current generation, and true.      *)
LEMMA PlanCoverageKeeps ==
    ASSUME IInv, NEW j \in Jobs, NEW left \in Days, NEW right \in Days,
           PlanCoverage(j, left, right)
    PROVE  IInv'
<1> DEFINE todo == {d \in left .. right : NeedsRebuild(d, left)}
           r == [Idle EXCEPT !.kind = "coverage", !.pc = "load",
                             !.plan = state.gen, !.from = state.dirtyFrom,
                             !.left = left, !.right = right, !.todo = todo]
<1>1. /\ state.dirtyFrom \in LowerBound /\ state.dirtyTo \in UpperBound
      /\ state.gen \in Nat /\ today \in Days /\ LastDay \in Nat \ {0}
  BY StateFields DEF IInv
<1>2. /\ left \in Int /\ right \in Int /\ left >= 1 /\ right < today /\ today \in Int
      /\ right \in Closed /\ left <= right
  BY <1>1 DEF PlanCoverage, Closed, Days
<1>3. todo \in SUBSET Int /\ state.dirtyFrom \in Int /\ state.gen \in Int
  BY <1>1, <1>2 DEF LowerBound, None
<1>4. todo \subseteq left .. right
  OBVIOUS
<1>5. job' = [job EXCEPT ![j] = r] /\ gate' = j /\ gate = None
  BY DEF PlanCoverage
<1>6. \A d \in left .. right : d \in todo \/ Fresh(d)
  <2> SUFFICES ASSUME NEW d \in left .. right, ~NeedsRebuild(d, left)
               PROVE  Fresh(d)
    OBVIOUS
  <2>1. d \in Closed
    BY <1>1, <1>2 DEF Closed
  <2>2. ~Outdated(d) /\ Exists(d)
    BY DEF NeedsRebuild, Outdated
  <2>3. ~InRange(state, d) \/ snap[d].gen = state.gen
    BY DEF NeedsRebuild
  <2> QED
    BY <2>1, <2>2, <2>3 DEF IInv, StaleIsDirty, GenerationIsEvidence, Fresh
<1>7. ASSUME state.dirtyFrom >= left, state.dirtyTo = None, state.dirtyFrom # None,
             NEW d \in state.dirtyFrom .. right
      PROVE  d \in todo
  <2>1. d \in left .. right /\ ~(state.dirtyFrom < left) /\ d >= state.dirtyFrom
    BY <1>2, <1>3, <1>7
  <2> QED
    BY <1>7, <2>1 DEF NeedsRebuild, InRange
<1> HIDE DEF todo
<1>8. /\ r \in JobRow /\ r.kind = "coverage" /\ r.pc = "load" /\ r.plan = state.gen
      /\ r.from = state.dirtyFrom /\ r.left = left /\ r.right = right
      /\ r.todo = todo /\ r.chunk = {}
  BY <1>2, <1>3, IdleType DEF JobRow, Idle, Kinds, Phases
<1> HIDE DEF r
<1>9. OthersKept(j) /\ job'[j] = r
  BY <1>5, <1>8, ActorAssumption DEF OthersKept, IInv, TypeOK
<1>10. UNCHANGED <<today, content, snap, state, clock>>
  BY DEF PlanCoverage
<1>11. JobShape(j)'
  BY <1>1, <1>2, <1>3, <1>4, <1>5, <1>8, <1>9, <1>10 DEF JobShape, Pending, Planned
<1>12. BatchIsTrue(j)'
  BY <1>8, <1>9 DEF BatchIsTrue
<1>13. PlanHolds(j)'
  <2>1. \A d \in Days : Fresh(d)' = Fresh(d)
    BY <1>10 DEF Fresh, Outdated, Exists, True
  <2>2. \A d \in left .. right : d \in Days
    BY <1>1, <1>2 DEF Days
  <2>3. Pending(j)' = todo /\ PlanFrom(j)' = state.dirtyFrom
    BY <1>8, <1>9 DEF Pending, PlanFrom
  <2> QED
    BY <1>3, <1>6, <1>7, <1>8, <1>9, <1>10, <2>1, <2>2, <2>3 DEF PlanHolds
<1> QED
  BY <1>9, <1>10, <1>11, <1>12, <1>13, JobStepKeeps DEF JobFine

(* Planning an explicit range keeps the invariant. *)
LEMMA PlanRangeKeeps ==
    ASSUME IInv, NEW j \in Jobs, NEW left \in Days, NEW right \in Days,
           PlanRange(j, left, right)
    PROVE  IInv'
<1> DEFINE r == [Idle EXCEPT !.kind = "range", !.pc = "load", !.todo = left .. right]
<1>1. left \in Int /\ right \in Int /\ left >= 1 /\ right < today /\ today \in Int
  BY StateFields DEF PlanRange, Closed, Days, IInv
<1>2. left .. right \in SUBSET Int
  BY <1>1
<1>3. r \in JobRow /\ r.kind = "range" /\ r.pc = "load" /\ r.todo = left .. right
      /\ r.chunk = {}
  BY <1>2, IdleType DEF JobRow, Idle, Kinds, Phases
<1>4. job' = [job EXCEPT ![j] = r] /\ UNCHANGED <<today, content, snap, state, clock, gate>>
  BY DEF PlanRange
<1> HIDE DEF r
<1>5. OthersKept(j) /\ job'[j] = r
  BY <1>3, <1>4 DEF OthersKept, IInv, TypeOK
<1>6. JobFine(j)'
  BY <1>1, <1>3, <1>4, <1>5
     DEF JobFine, JobShape, BatchIsTrue, PlanHolds, Pending, Planned
<1> QED
  BY <1>4, <1>5, <1>6, JobStepKeeps

(* Planning the dirty range keeps the invariant. *)
LEMMA PlanDirtyKeeps ==
    ASSUME IInv, NEW j \in Jobs, PlanDirty(j)
    PROVE  IInv'
<1> DEFINE to == IF state.dirtyTo # None /\ state.dirtyTo < today - 1
                 THEN state.dirtyTo ELSE today - 1
           left == IF state.dirtyFrom = None THEN to + 1 ELSE Clamped(state.dirtyFrom)
           r == [Idle EXCEPT !.kind = "ready", !.pc = "health", !.plan = state.gen,
                             !.left = left, !.right = to, !.end = today - 1]
<1>1. /\ state.dirtyFrom \in LowerBound /\ state.dirtyTo \in UpperBound
      /\ state.gen \in Nat /\ today \in Days /\ LastDay \in Nat \ {0}
  BY StateFields DEF IInv
<1>2. today \in Int /\ to \in Int /\ to >= 0 /\ to < today
  BY <1>1 DEF UpperBound, None, Days, PlanDirty
<1> HIDE DEF to
<1>3. /\ left \in Int /\ left >= 1
      /\ state.dirtyFrom = None \/ state.dirtyFrom >= left
  BY <1>1, <1>2 DEF LowerBound, None, Clamped, Larger
<1> HIDE DEF left
<1>4. today - 1 \in Int /\ today - 1 < today /\ state.gen \in Int
  BY <1>1, <1>2
<1>5. job' = [job EXCEPT ![j] = r] /\ UNCHANGED <<today, content, snap, state, clock, gate>>
  BY DEF PlanDirty, left, to
<1>6. /\ r \in JobRow /\ r.kind = "ready" /\ r.pc = "health" /\ r.plan = state.gen
      /\ r.left = left /\ r.right = to /\ r.end = today - 1 /\ r.todo = {} /\ r.chunk = {}
  BY <1>2, <1>3, <1>4, IdleType DEF JobRow, Idle, Kinds, Phases
<1> HIDE DEF r
<1>7. OthersKept(j) /\ job'[j] = r
  BY <1>5, <1>6 DEF OthersKept, IInv, TypeOK
<1>8. JobShape(j)' /\ BatchIsTrue(j)'
  BY <1>2, <1>3, <1>4, <1>5, <1>6, <1>7 DEF JobShape, BatchIsTrue, Pending, Planned
<1>9. PlanHolds(j)'
  BY <1>3, <1>5, <1>6, <1>7 DEF PlanHolds, PlanFrom
<1> QED
  BY <1>5, <1>7, <1>8, <1>9, JobStepKeeps DEF JobFine

(* Collecting the incomplete rows keeps the invariant. *)
LEMMA HealthKeeps ==
    ASSUME IInv, NEW j \in Jobs, incompleteSnapshotHealth(j)
    PROVE  IInv'
<1> DEFINE todo == {d \in 1 .. job[j].end : Outdated(d)} \ (job[j].left .. job[j].right)
<1>0. TypeOK /\ JobFine(j)
  BY DEF IInv
<1>1. /\ state.gen \in Nat /\ today \in Int /\ job[j] \in JobRow /\ job[j].end \in Int
      /\ job[j].pc = "health" /\ job[j].kind = "ready" /\ job[j].chunk = {}
      /\ job[j].end < today
  BY <1>0, StateFields, JobFields
     DEF TypeOK, Days, incompleteSnapshotHealth, JobFine, JobShape
<1>2. todo \in SUBSET Int /\ todo \subseteq 1 .. today - 1
  BY <1>1
<1> HIDE DEF todo
<1>3. /\ job' = [job EXCEPT ![j] = [job[j] EXCEPT !.pc = "load", !.todo = todo]]
      /\ UNCHANGED <<today, content, snap, state, clock, gate>>
  BY DEF incompleteSnapshotHealth, todo
<1> DEFINE r == [job[j] EXCEPT !.pc = "load", !.todo = todo]
<1>4. /\ r \in JobRow /\ r.pc = "load" /\ r.kind = "ready" /\ r.todo = todo /\ r.chunk = {}
      /\ r.plan = job[j].plan /\ r.left = job[j].left /\ r.right = job[j].right
  BY <1>1, <1>2 DEF JobRow, Phases
<1> HIDE DEF r
<1>5. OthersKept(j) /\ job'[j] = r
  BY <1>0, <1>3, <1>4 DEF OthersKept, TypeOK, r
<1>6. JobShape(j)' /\ BatchIsTrue(j)'
  BY <1>0, <1>1, <1>2, <1>3, <1>4, <1>5
     DEF JobFine, JobShape, BatchIsTrue, Pending, Planned
<1>7. PlanHolds(j)'
  BY <1>0, <1>1, <1>3, <1>4, <1>5 DEF JobFine, PlanHolds, PlanFrom, Planned
<1> QED
  BY <1>3, <1>5, <1>6, <1>7, JobStepKeeps DEF JobFine

(* The batch takes the first days of todo: they stay pending, in order. *)
LEMMA LoadKeeps ==
    ASSUME IInv, Skipped = {}, NEW j \in Jobs, NEW first \in Days, NEW last \in Days,
           LoadHistoricalSnapshotBatch(j, first, last)
    PROVE  IInv'
<1> DEFINE chunk == (first .. last) \ Skipped
           todo == job[j].todo \ (first .. last)
           loaded == [d \in Days |-> IF d \in first .. last THEN content[d] ELSE None]
           r == [job[j] EXCEPT !.pc = "save", !.chunk = chunk, !.todo = todo,
                               !.end = last, !.batch = state.gen, !.loaded = loaded]
<1>0. TypeOK /\ JobFine(j)
  BY DEF IInv
<1>1. /\ state.gen \in Nat /\ today \in Int /\ job[j] \in JobRow
      /\ job[j].todo \in SUBSET Int /\ job[j].left \in Int /\ job[j].right \in Int
      /\ job[j].pc = "load" /\ job[j].chunk = {} /\ LastDay \in Nat
      /\ first \in Int /\ last \in Int
  BY <1>0, StateFields, JobFields
     DEF TypeOK, Days, LoadHistoricalSnapshotBatch, JobFine, JobShape
<1>2. /\ chunk \subseteq job[j].todo /\ \A d \in job[j].todo : first <= d
      /\ last \in job[j].todo
  BY DEF LoadHistoricalSnapshotBatch, IsFirstChunk
<1>3. /\ chunk \in SUBSET Int /\ todo \in SUBSET Int /\ last \in Int /\ state.gen \in Int
      /\ chunk \cup todo = job[j].todo
      /\ \A e \in todo : e > last
      /\ \A d \in chunk, e \in todo : d < e
  BY <1>1, <1>2
<1>4. loaded \in [Days -> Int] /\ \A d \in chunk : loaded[d] = content[d]
  BY <1>0, <1>1 DEF TypeOK, None, Days
<1>5. /\ job' = [job EXCEPT ![j] = r]
      /\ UNCHANGED <<today, content, snap, state, clock, gate>>
  BY DEF LoadHistoricalSnapshotBatch
<1> HIDE DEF chunk, todo, loaded
<1>6. /\ r \in JobRow /\ r.pc = "save" /\ r.kind = job[j].kind /\ r.todo = todo
      /\ r.chunk = chunk /\ r.plan = job[j].plan /\ r.left = job[j].left
      /\ r.right = job[j].right /\ r.from = job[j].from /\ r.end = last
      /\ r.batch = state.gen /\ r.loaded = loaded
  BY <1>1, <1>3, <1>4 DEF JobRow, Phases
<1> HIDE DEF r
<1>7. OthersKept(j) /\ job'[j] = r
  BY <1>0, <1>5, <1>6 DEF OthersKept, TypeOK
<1>8. Pending(j) = job[j].todo /\ Pending(j)' = job[j].todo /\ PlanFrom(j)' = PlanFrom(j)
  BY <1>1, <1>3, <1>6, <1>7 DEF Pending, PlanFrom
<1>9. JobShape(j)'
  <2>1. job[j].kind = "dirty" => last <= job[j].right
    BY <1>0, <1>1, <1>2, <1>8 DEF JobFine, JobShape
  <2> QED
    BY <1>0, <1>1, <1>3, <1>5, <1>6, <1>7, <1>8, <2>1 DEF JobFine, JobShape
<1>10. BatchIsTrue(j)'
  BY <1>4, <1>5, <1>6, <1>7 DEF BatchIsTrue
<1>11. PlanHolds(j)'
  <2>1. \A d : Fresh(d)' = Fresh(d)
    BY <1>5 DEF Fresh, Outdated, Exists, True
  <2> QED
    BY <1>0, <1>5, <1>6, <1>7, <1>8, <2>1 DEF JobFine, PlanHolds
<1> QED
  BY <1>5, <1>7, <1>9, <1>10, <1>11, JobStepKeeps DEF JobFine

(* A job that only moves on to its next batch. *)
LEMMA MovesOn ==
    ASSUME IInv, NEW j \in Jobs, job[j].chunk = {}, OthersKept(j),
           job'[j].kind = job[j].kind, job'[j].pc = "load",
           job'[j].plan = job[j].plan, job'[j].from = job[j].from,
           job'[j].left = job[j].left, job'[j].right = job[j].right,
           job'[j].todo = job[j].todo, job'[j].chunk = {},
           UNCHANGED <<today, content, snap, state, clock, gate>>
    PROVE  IInv'
<1>1. JobFine(j)
  BY DEF IInv
<1>2. Pending(j)' = Pending(j) /\ PlanFrom(j)' = PlanFrom(j)
  BY DEF Pending, PlanFrom
<1>3. JobShape(j)' /\ BatchIsTrue(j)'
  BY <1>1, <1>2 DEF JobFine, JobShape, BatchIsTrue
<1>4. PlanHolds(j)'
  <2>1. \A d : Fresh(d)' = Fresh(d)
    BY DEF Fresh, Outdated, Exists, True
  <2> QED
    BY <1>1, <1>2, <2>1 DEF JobFine, PlanHolds
<1> QED
  BY <1>3, <1>4, JobStepKeeps DEF JobFine

(* Comparing the generation before a chunk keeps the invariant. *)
LEMMA CheckGenerationKeeps ==
    ASSUME IInv, NEW j \in Jobs, CheckGeneration(j)
    PROVE  IInv'
<1>1. CASE state.gen = job[j].plan
  <2>1. /\ job' = [job EXCEPT ![j] = [job[j] EXCEPT !.pc = "load"]]
        /\ UNCHANGED <<today, content, snap, state, clock, gate>>
    BY <1>1 DEF CheckGeneration
  <2>2. job[j] \in JobRow /\ job[j].chunk = {}
    BY DEF IInv, TypeOK, CheckGeneration, JobFine, JobShape
  <2> DEFINE r == [job[j] EXCEPT !.pc = "load"]
  <2>3. /\ r \in JobRow /\ r.kind = job[j].kind /\ r.pc = "load"
        /\ r.plan = job[j].plan /\ r.from = job[j].from /\ r.left = job[j].left
        /\ r.right = job[j].right /\ r.todo = job[j].todo /\ r.chunk = {}
    BY <2>2 DEF JobRow, Phases
  <2> HIDE DEF r
  <2>4. OthersKept(j) /\ job'[j] = r
    BY <2>1, <2>3 DEF OthersKept, IInv, TypeOK, r
  <2> QED
    BY <2>1, <2>2, <2>3, <2>4, MovesOn
<1>2. CASE ~(state.gen = job[j].plan)
  BY <1>2, LeavesKeeps DEF CheckGeneration
<1> QED
  BY <1>1, <1>2

(* The dirty part starts with all its days pending. *)
LEMMA EndReadyKeeps ==
    ASSUME IInv, NEW j \in Jobs, EndReady(j)
    PROVE  IInv'
<1>1. CASE state.gen = job[j].plan /\ job[j].left <= job[j].right
  <2> DEFINE todo == job[j].left .. job[j].right
             r == [job[j] EXCEPT !.kind = "dirty", !.pc = "check", !.todo = todo]
  <2>0. TypeOK /\ JobFine(j)
    BY DEF IInv
  <2>1. /\ job[j] \in JobRow /\ job[j].left \in Int /\ job[j].right \in Int
        /\ today \in Int /\ state.gen \in Nat /\ state.dirtyFrom \in LowerBound
        /\ job[j].kind = "ready" /\ job[j].pc = "load" /\ job[j].chunk = {}
        /\ job[j].left >= 1 /\ job[j].right < today
    BY <2>0, JobFields, StateFields
       DEF TypeOK, Days, EndReady, JobFine, JobShape, Planned
  <2>2. /\ job' = [job EXCEPT ![j] = r]
        /\ UNCHANGED <<today, content, snap, state, clock, gate>>
    BY <1>1 DEF EndReady
  <2>3. todo \in SUBSET Int /\ todo \subseteq 1 .. today - 1
    BY <2>1
  <2> HIDE DEF todo
  <2>4. /\ r \in JobRow /\ r.kind = "dirty" /\ r.pc = "check" /\ r.todo = todo
        /\ r.chunk = {} /\ r.plan = job[j].plan /\ r.left = job[j].left
        /\ r.right = job[j].right
    BY <2>1, <2>3 DEF JobRow, Kinds, Phases
  <2> HIDE DEF r
  <2>5. OthersKept(j) /\ job'[j] = r
    BY <2>0, <2>2, <2>4 DEF OthersKept, TypeOK
  <2>6. Pending(j)' = todo /\ PlanFrom(j)' = job[j].left /\ PlanFrom(j) = job[j].left
    BY <2>1, <2>4, <2>5 DEF Pending, PlanFrom
  <2>7. JobShape(j)' /\ BatchIsTrue(j)'
    BY <2>0, <2>1, <2>2, <2>3, <2>4, <2>5, <2>6
       DEF JobFine, JobShape, BatchIsTrue, Planned, todo
  <2>8. PlanHolds(j)'
    <3>1. state.dirtyFrom = None \/ state.dirtyFrom >= job[j].left
      BY <1>1, <2>0, <2>1, <2>6 DEF JobFine, PlanHolds, Planned
    <3>2. state.dirtyFrom # None
          => \A d \in state.dirtyFrom .. job[j].right : d \in todo
      BY <2>1, <3>1 DEF LowerBound, None, todo
    <3> QED
      BY <2>2, <2>4, <2>5, <2>6, <3>1, <3>2 DEF PlanHolds, todo
  <2> QED
    BY <2>2, <2>5, <2>7, <2>8, JobStepKeeps DEF JobFine
<1>2. CASE ~(state.gen = job[j].plan /\ job[j].left <= job[j].right)
  BY <1>2, LeavesKeeps DEF EndReady
<1> QED
  BY <1>1, <1>2

----------------------------------------------------------------------------
(* Saving a day *)

(* The saved row is true, because its batch is of the current generation;  *)
(* only the first day of the dirty range is consumed, and it is that row's. *)
LEMMA SaveKeeps ==
    ASSUME IInv, NEW j \in Jobs, NEW d \in Days, BuildDailyValuationSnapshot(j, d)
    PROVE  IInv'
<1>1. CASE ~SameGeneration(j)
  BY <1>1, LeavesKeeps DEF BuildDailyValuationSnapshot
<1>2. CASE SameGeneration(j)
  <2> DEFINE row == [content |-> job[j].loaded[d], gen |-> job[j].batch,
                     policy |-> "current"]
             f == IF state.dirtyFrom = d THEN d + 1 ELSE state.dirtyFrom
             chunk == job[j].chunk \ {d}
             r == [job[j] EXCEPT !.chunk = chunk]
  <2>0. TypeOK /\ JobFine(j)
    BY DEF IInv
  <2>1. /\ job[j].pc = "save" /\ d \in job[j].chunk /\ \A e \in job[j].chunk : d <= e
        /\ state.gen = job[j].batch
    BY <1>2 DEF BuildDailyValuationSnapshot, SameGeneration
  <2>2. /\ snap' = [snap EXCEPT ![d] = row]
        /\ state' = [state EXCEPT !.dirtyFrom = f]
        /\ job' = [job EXCEPT ![j] = r]
        /\ UNCHANGED <<today, content, clock, gate>>
    BY <1>2 DEF BuildDailyValuationSnapshot, markDailySnapshotCompleted
  <2>3. /\ job[j] \in JobRow /\ job[j].batch \in Int /\ job[j].loaded \in [Days -> Int]
        /\ job[j].todo \in SUBSET Int /\ job[j].chunk \in SUBSET Int
        /\ job[j].left \in Int /\ job[j].right \in Int /\ job[j].from \in Int
        /\ PlanFrom(j) \in Int
    BY <2>0, JobFields DEF TypeOK, PlanFrom
  <2>4. /\ state \in StateRow /\ state.dirtyFrom \in LowerBound
        /\ state.dirtyTo \in UpperBound
        /\ state.gen \in Nat /\ today \in Days /\ LastDay \in Nat \ {0} /\ d \in Int
        /\ today \in Int /\ d >= 1
    BY <2>0, StateFields DEF TypeOK, Days
  <2>5. d < today /\ job[j].loaded[d] = content[d]
    BY <2>0, <2>1, <2>3, <2>4 DEF JobFine, JobShape, BatchIsTrue, Pending
  <2>6. row \in Row /\ row.content = content[d] /\ row.gen = state.gen
        /\ row.policy = "current"
    BY <2>1, <2>3, <2>5 DEF Row
  <2>7. f \in LowerBound /\ chunk \in SUBSET Int
        /\ (f = None \/ (state.dirtyFrom # None /\ f >= state.dirtyFrom))
    BY <2>3, <2>4 DEF LowerBound, None
  <2> HIDE DEF row, f, chunk
  <2>8. /\ state' \in StateRow /\ state'.dirtyFrom = f /\ state'.dirtyTo = state.dirtyTo
        /\ state'.gen = state.gen
    BY <2>2, <2>4, <2>7 DEF StateRow
  <2>9. /\ r \in JobRow /\ r.kind = job[j].kind /\ r.pc = job[j].pc
        /\ r.plan = job[j].plan /\ r.from = job[j].from /\ r.left = job[j].left
        /\ r.right = job[j].right /\ r.todo = job[j].todo /\ r.chunk = chunk
        /\ r.end = job[j].end /\ r.batch = job[j].batch /\ r.loaded = job[j].loaded
    BY <2>3, <2>7 DEF JobRow
  <2> HIDE DEF r
  <2>10. OthersKept(j) /\ job'[j] = r
    BY <2>0, <2>2, <2>9 DEF OthersKept, TypeOK
  <2>11. /\ snap' \in [Days -> Row] /\ snap'[d] = row
         /\ \A e \in Days : e # d => snap'[e] = snap[e]
    BY <2>0, <2>2, <2>6 DEF TypeOK
  <2>12. TypeOK'
    BY <2>0, <2>2, <2>8, <2>10, <2>11 DEF TypeOK, OthersKept
  <2>13. /\ \A e \in Days : e # d => /\ Exists(e)' = Exists(e)
                                     /\ Outdated(e)' = Outdated(e)
                                     /\ True(e)' = True(e)
         /\ Fresh(d)' /\ True(d)'
    <3>1. content[d] # None
      BY <2>0 DEF TypeOK, None
    <3> QED
      BY <2>2, <2>6, <2>11, <3>1 DEF Fresh, Exists, Outdated, True
  <2>14. ClockIsNow' /\ RowsAreClosed'
    <3>1. ClockIsNow'
      BY <2>2 DEF IInv, ClockIsNow
    <3>2. ASSUME NEW e \in Days
          PROVE  (e >= today => ~Exists(e)') /\ snap'[e].gen <= state'.gen
      <4>1. CASE e = d
        BY <2>4, <2>5, <2>6, <2>8, <2>11, <4>1
      <4>2. CASE e # d
        BY <2>8, <2>11, <2>13, <4>2 DEF IInv, RowsAreClosed
      <4> QED
        BY <4>1, <4>2
    <3> QED
      BY <2>2, <3>1, <3>2 DEF RowsAreClosed
  <2>15. StaleIsDirty'
    <3> SUFFICES ASSUME NEW e \in Closed, Exists(e)', ~True(e)'
                 PROVE  InRange(state', e) \/ Outdated(e)'
      BY <2>2 DEF StaleIsDirty, Closed
    <3>1. e \in Days /\ e # d /\ e \in Int
      BY <2>4, <2>13 DEF Closed, Days
    <3>2. InRange(state, e) \/ Outdated(e)
      BY <2>13, <3>1 DEF IInv, StaleIsDirty
    <3>3. InRange(state, e) => InRange(state', e)
      BY <2>4, <2>8, <3>1 DEF InRange, f, LowerBound, None
    <3> QED
      BY <2>13, <3>1, <3>2, <3>3
  <2>16. GenerationIsEvidence'
    <3> SUFFICES ASSUME NEW e \in Closed, ~Outdated(e)', snap'[e].gen = state'.gen
                 PROVE  True(e)'
      BY <2>2 DEF GenerationIsEvidence, Closed
    <3>1. e \in Days
      BY <2>4 DEF Closed, Days
    <3> QED
      BY <2>8, <2>11, <2>13, <3>1 DEF IInv, GenerationIsEvidence
  <2>17. Steady
    BY <2>2, <2>7, <2>8, <2>13 DEF Steady, Fresh
  <2>18. ASSUME NEW i \in Jobs \ {j}
         PROVE  JobFine(i)'
    <3>1. job[i].kind = "coverage" => gate' = i
      BY <2>2 DEF IInv, JobFine, JobShape
    <3>2. today' >= today /\ state'.gen >= state.gen
      BY <2>2, <2>4, <2>8
    <3> QED
      BY <2>12, <2>17, <2>10, <3>1, <3>2, JobKept DEF IInv, OthersKept
  <2>19. JobFine(j)'
    <3>1. Pending(j)' \subseteq Pending(j) /\ Pending(j) \ {d} \subseteq Pending(j)'
          /\ PlanFrom(j)' = PlanFrom(j)
      BY <2>9, <2>10 DEF Pending, PlanFrom, chunk
    <3>2. JobShape(j)'
      BY <2>0, <2>2, <2>8, <2>9, <2>10, <3>1 DEF JobFine, JobShape, chunk
    <3>3. BatchIsTrue(j)'
      BY <2>0, <2>2, <2>8, <2>9, <2>10 DEF JobFine, BatchIsTrue, chunk
    <3>4. PlanHolds(j)'
      <4> SUFFICES ASSUME job[j].plan = state.gen, job[j].kind \in Planned
                   PROVE  PlanHolds(j)'
        BY <2>8, <2>9, <2>10 DEF PlanHolds, Planned
      <4>1. state'.dirtyFrom = None \/ state'.dirtyFrom >= PlanFrom(j)
        BY <2>0, <2>3, <2>4, <2>7, <2>8 DEF JobFine, PlanHolds, LowerBound, None
      <4>2. job[j].left >= 1 /\ job[j].right < today
        BY <2>0 DEF JobFine, JobShape
      <4>3. ASSUME job[j].kind \in {"coverage", "dirty"},
                   NEW e \in job[j].left .. job[j].right
            PROVE  e \in Pending(j)' \/ Fresh(e)'
        <5>1. e \in Days
          BY <2>3, <2>4, <4>2 DEF Days
        <5>2. e \in Pending(j) \/ Fresh(e)
          BY <2>0, <4>3 DEF JobFine, PlanHolds
        <5> QED
          BY <2>13, <3>1, <5>1, <5>2 DEF Fresh
      <4>4. ASSUME job[j].kind \in {"coverage", "dirty"}, PlanFrom(j) >= job[j].left,
                   state'.dirtyTo = None, state'.dirtyFrom # None,
                   NEW e \in state'.dirtyFrom .. job[j].right
            PROVE  e \in Pending(j)'
        <5>1. /\ state.dirtyTo = None /\ state.dirtyFrom # None
              /\ \A x \in state.dirtyFrom .. job[j].right : x \in Pending(j)
          BY <2>0, <2>7, <2>8, <4>4 DEF JobFine, PlanHolds
        <5>2. \A x \in Pending(j) : d <= x
          BY <2>0, <2>1, <2>3, <2>4 DEF JobFine, JobShape, Pending
        <5>3. e \in state.dirtyFrom .. job[j].right /\ e \in Int
          BY <2>3, <2>4, <2>7, <2>8, <4>4, <5>1 DEF LowerBound, None
        <5>4. e # d
          <6>1. CASE state.dirtyFrom = d
            BY <2>4, <2>8, <4>4, <5>3, <6>1 DEF f
          <6>2. CASE state.dirtyFrom # d
            <7>1. state.dirtyFrom \in state.dirtyFrom .. job[j].right
              BY <2>3, <2>4, <5>1, <5>3 DEF LowerBound, None
            <7>2. d < state.dirtyFrom
              BY <2>4, <5>1, <5>2, <6>2, <7>1 DEF LowerBound, None
            <7> QED
              BY <2>3, <2>4, <5>1, <5>3, <7>2 DEF LowerBound, None
          <6> QED
            BY <6>1, <6>2
        <5> QED
          BY <3>1, <5>1, <5>3, <5>4
      <4> QED
        BY <2>9, <2>10, <3>1, <4>1, <4>3, <4>4 DEF PlanHolds
    <3> QED
      BY <3>2, <3>3, <3>4 DEF JobFine
  <2> QED
    BY <2>12, <2>14, <2>15, <2>16, <2>18, <2>19 DEF IInv
<1> QED
  BY <1>1, <1>2

----------------------------------------------------------------------------
(* Completing a range *)

(* A completion from lo to target, by a job that has rebuilt those days    *)
(* and found no unbounded range among them.                                *)
LEMMA Completion ==
    ASSUME IInv, NEW j \in Jobs, NEW lo \in Int, NEW target \in Int,
           state' = completeDailySnapshotRange(state, target),
           state.dirtyFrom = None \/ state.dirtyFrom >= lo,
           ~(state.dirtyTo = None /\ state.dirtyFrom # None /\ state.dirtyFrom <= target),
           \A d \in lo .. target : Fresh(d),
           UNCHANGED <<today, content, snap, clock>>, OthersKept(j)
    PROVE  TypeOK' /\ Steady /\ state'.gen = state.gen /\ (JobFine(j)' => IInv')
<1>1. TypeOK /\ state \in StateRow
  BY DEF IInv, TypeOK
<1>2. /\ state' \in StateRow /\ state'.gen = state.gen
      /\ \/ state'.dirtyFrom = None
         \/ state.dirtyFrom # None /\ state'.dirtyFrom >= state.dirtyFrom
      /\ state'.dirtyFrom # None /\ state'.dirtyTo = None => state.dirtyTo = None
      /\ \A d \in Int : InRange(state, d) /\ ~InRange(state', d) => d \in lo .. target
  BY <1>1, CompletedRange
<1>3. TypeOK'
  BY <1>1, <1>2 DEF TypeOK, OthersKept
<1>4. \A d : /\ Exists(d)' = Exists(d) /\ Outdated(d)' = Outdated(d)
             /\ True(d)' = True(d) /\ Fresh(d)' = Fresh(d)
  BY DEF Exists, Outdated, True, Fresh
<1>5. Steady
  BY <1>2, <1>4 DEF Steady
<1>6. ClockIsNow' /\ RowsAreClosed' /\ GenerationIsEvidence'
  BY <1>2, <1>4 DEF IInv, ClockIsNow, RowsAreClosed, GenerationIsEvidence, Closed
<1>7. StaleIsDirty'
  <2> SUFFICES ASSUME NEW d \in Closed, Exists(d)', ~True(d)'
               PROVE  InRange(state', d) \/ Outdated(d)'
    BY DEF StaleIsDirty, Closed
  <2>1. d \in Int
    BY <1>1, StateFields DEF Closed, Days
  <2>2. InRange(state, d) \/ Outdated(d)
    BY <1>4 DEF IInv, StaleIsDirty
  <2>3. d \notin lo .. target
    BY <1>4 DEF Fresh
  <2> QED
    BY <1>2, <1>4, <2>1, <2>2, <2>3
<1>8. ASSUME NEW i \in Jobs \ {j}
      PROVE  JobFine(i)'
  <2>1. job[i].kind = "coverage" => gate' = i
    BY DEF IInv, JobFine, JobShape, OthersKept
  <2>2. today' >= today /\ state'.gen >= state.gen
    BY <1>1, <1>2, StateFields DEF Days
  <2> QED
    BY <1>1, <1>3, <1>5, <2>1, <2>2, JobKept DEF IInv, OthersKept
<1> QED
  BY <1>2, <1>3, <1>5, <1>6, <1>7, <1>8 DEF IInv

(* The chunk of a dirty job ends where its pending days begin, so that     *)
(* everything from the first dirty day of the plan to its end is fresh.    *)
LEMMA EndChunkKeeps ==
    ASSUME IInv, NEW j \in Jobs, EndChunk(j)
    PROVE  IInv'
<1>0. TypeOK /\ JobFine(j)
  BY DEF IInv
<1>1. /\ job[j] \in JobRow /\ job[j].left \in Int /\ job[j].right \in Int
      /\ job[j].end \in Int /\ job[j].todo \in SUBSET Int /\ today \in Int
      /\ state.gen \in Nat /\ state.dirtyFrom \in LowerBound
      /\ job[j].pc = "save" /\ job[j].chunk = {}
  BY <1>0, JobFields, StateFields DEF TypeOK, Days, EndChunk
<1>2. None \in Int /\ Idle.loaded \in [Days -> Int]
  BY DEF None, Idle
<1>3. CASE job[j].kind # "dirty"
  <2> DEFINE r == [job[j] EXCEPT !.pc = "load", !.end = None, !.batch = None,
                                 !.loaded = Idle.loaded]
  <2>1. /\ job' = [job EXCEPT ![j] = r]
        /\ UNCHANGED <<today, content, snap, state, clock, gate>>
    BY <1>3 DEF EndChunk
  <2>2. /\ r \in JobRow /\ r.kind = job[j].kind /\ r.pc = "load"
        /\ r.plan = job[j].plan /\ r.from = job[j].from /\ r.left = job[j].left
        /\ r.right = job[j].right /\ r.todo = job[j].todo /\ r.chunk = {}
    BY <1>1, <1>2 DEF JobRow, Phases
  <2> HIDE DEF r
  <2>3. OthersKept(j) /\ job'[j] = r
    BY <1>0, <2>1, <2>2 DEF OthersKept, TypeOK
  <2> QED
    BY <1>1, <2>1, <2>2, <2>3, MovesOn
<1>4. CASE job[j].kind = "dirty" /\ state.gen # job[j].plan
  BY <1>4, LeavesKeeps DEF EndChunk
<1>5. CASE job[j].kind = "dirty" /\ state.gen = job[j].plan
  <2>1. /\ state' = completeDailySnapshotRange(state, job[j].end)
        /\ UNCHANGED <<today, content, snap, clock>>
    BY <1>5 DEF EndChunk
  <2>2. /\ job[j].end <= job[j].right /\ \A d \in job[j].todo : d > job[j].end
        /\ Pending(j) = job[j].todo /\ PlanFrom(j) = job[j].left
    BY <1>0, <1>1, <1>5 DEF JobFine, JobShape, Pending, PlanFrom
  <2>3. /\ state.dirtyFrom = None \/ state.dirtyFrom >= job[j].left
        /\ \A d \in job[j].left .. job[j].right : d \in job[j].todo \/ Fresh(d)
        /\ state.dirtyTo = None /\ state.dirtyFrom # None
           => \A d \in state.dirtyFrom .. job[j].right : d \in job[j].todo
    BY <1>0, <1>1, <1>5, <2>2 DEF JobFine, PlanHolds, Planned
  <2>4. \A d \in job[j].left .. job[j].end : Fresh(d)
    BY <1>1, <2>2, <2>3
  <2>5. ~(/\ state.dirtyTo = None /\ state.dirtyFrom # None
          /\ state.dirtyFrom <= job[j].end)
    BY <1>1, <2>2, <2>3 DEF LowerBound, None
  <2>6. CASE job[j].todo = {}
    <3>1. Leaves(j)
      BY <1>5, <2>6 DEF EndChunk
    <3>2. OthersKept(j)
      BY <1>0, <3>1, IdleType DEF Leaves, OthersKept, TypeOK
    <3>3. TypeOK' /\ (JobFine(j)' => IInv')
      BY <1>1, <2>1, <2>3, <2>4, <2>5, <3>2, Completion
    <3> QED
      BY <1>0, <3>1, <3>3, Left
  <2>7. CASE job[j].todo # {}
    <3> DEFINE r == [job[j] EXCEPT !.pc = "check", !.end = None, !.batch = None,
                                   !.loaded = Idle.loaded]
    <3>1. job' = [job EXCEPT ![j] = r] /\ gate' = gate
      BY <1>5, <2>7 DEF EndChunk
    <3>2. /\ r \in JobRow /\ r.kind = job[j].kind /\ r.pc = "check"
          /\ r.plan = job[j].plan /\ r.from = job[j].from /\ r.left = job[j].left
          /\ r.right = job[j].right /\ r.todo = job[j].todo /\ r.chunk = {}
      BY <1>1, <1>2 DEF JobRow, Phases
    <3> HIDE DEF r
    <3>3. OthersKept(j) /\ job'[j] = r
      BY <1>0, <3>1, <3>2 DEF OthersKept, TypeOK
    <3>4. TypeOK' /\ Steady /\ state'.gen = state.gen /\ (JobFine(j)' => IInv')
      BY <1>1, <2>1, <2>3, <2>4, <2>5, <3>3, Completion
    <3>5. SamePlan(j) /\ Pending(j)' = Pending(j)
      BY <1>1, <3>2, <3>3 DEF SamePlan, Pending
    <3>6. PlanHolds(j)'
      BY <1>0, <1>1, <3>4, <3>5, PlanKept
    <3>7. JobShape(j)' /\ BatchIsTrue(j)'
      BY <1>0, <1>1, <1>5, <2>1, <3>1, <3>2, <3>3, <3>4, <3>5
         DEF JobFine, JobShape, BatchIsTrue
    <3> QED
      BY <3>4, <3>6, <3>7 DEF JobFine
  <2> QED
    BY <2>6, <2>7
<1> QED
  BY <1>3, <1>4, <1>5

(* A successful coverage request has nothing pending: every day it asked   *)
(* for is fresh.                                                           *)
LEMMA CoveredDays ==
    ASSUME IInv, NEW j \in Jobs, Succeeds(j)
    PROVE  /\ Pending(j) = {} /\ job[j].plan = state.gen
           /\ \A d \in job[j].left .. job[j].right : Fresh(d)
<1>1. Pending(j) = {} /\ job[j].kind = "coverage" /\ job[j].plan = state.gen
  BY DEF IInv, JobFine, JobShape, Succeeds, Pending
<1> QED
  BY <1>1 DEF IInv, JobFine, PlanHolds

(* Advancing the dirty range after a coverage request keeps the invariant. *)
LEMMA EndCoverageKeeps ==
    ASSUME IInv, NEW j \in Jobs, EndCoverage(j)
    PROVE  IInv'
<1> DEFINE Completes == /\ Succeeds(j) /\ job[j].from # None
                        /\ job[j].from \in job[j].left .. job[j].right
<1>0. TypeOK /\ JobFine(j) /\ Leaves(j)
  BY DEF IInv, EndCoverage
<1>1. UNCHANGED <<today, content, snap, clock>>
  BY DEF EndCoverage
<1>2. CASE ~Completes
  <2>1. state' = state
    BY <1>2 DEF EndCoverage
  <2> QED
    BY <1>0, <1>1, <2>1, LeavesKeeps
<1>3. CASE Completes
  <2>1. state' = completeDailySnapshotRange(state, job[j].right)
    BY <1>3 DEF EndCoverage
  <2>2. /\ job[j].left \in Int /\ job[j].right \in Int /\ job[j].from \in Int
        /\ state.dirtyFrom \in LowerBound /\ state.gen \in Nat
    BY <1>0, JobFields, StateFields
  <2>3. /\ Pending(j) = {} /\ \A d \in job[j].left .. job[j].right : Fresh(d)
        /\ job[j].plan = state.gen
    BY <1>3, CoveredDays
  <2>4. job[j].kind = "coverage" /\ PlanFrom(j) = job[j].from /\ job[j].from >= job[j].left
    BY <1>3, <2>2 DEF Succeeds, PlanFrom
  <2>5. state.dirtyFrom = None \/ state.dirtyFrom >= job[j].left
    BY <1>0, <2>2, <2>3, <2>4 DEF JobFine, PlanHolds, Planned, LowerBound, None
  <2>6. ~(/\ state.dirtyTo = None /\ state.dirtyFrom # None
          /\ state.dirtyFrom <= job[j].right)
    <3> SUFFICES ASSUME state.dirtyTo = None, state.dirtyFrom # None,
                        state.dirtyFrom <= job[j].right
                 PROVE  FALSE
      OBVIOUS
    <3>1. \A d \in state.dirtyFrom .. job[j].right : d \in Pending(j)
      BY <1>0, <2>2, <2>3, <2>4 DEF JobFine, PlanHolds
    <3>2. state.dirtyFrom \in state.dirtyFrom .. job[j].right
      BY <2>2 DEF LowerBound, None
    <3> QED
      BY <2>3, <3>1, <3>2
  <2>7. OthersKept(j)
    BY <1>0, IdleType DEF Leaves, OthersKept, TypeOK
  <2>8. TypeOK' /\ (JobFine(j)' => IInv')
    BY <1>1, <2>1, <2>2, <2>3, <2>5, <2>6, <2>7, Completion
  <2> QED
    BY <1>0, <2>8, Left
<1> QED
  BY <1>2, <1>3

----------------------------------------------------------------------------
(* Steps that touch every row *)

(* RebuildDerivedData keeps the invariant. *)
LEMMA RebuildKeeps ==
    ASSUME IInv, Skipped = {}, RebuildDerivedData
    PROVE  IInv'
<1>1. TypeOK /\ state \in StateRow
  BY DEF IInv, TypeOK
<1>2. /\ state.gen \in Nat /\ today \in Days /\ today \in Int /\ LastDay \in Nat \ {0}
  BY <1>1, StateFields DEF Days
<1>3. gate = None /\ UNCHANGED <<today, content, job, clock, gate>>
  BY DEF RebuildDerivedData
<1>4. state' \in StateRow /\ state'.dirtyFrom = None /\ state'.gen = state.gen
  <2>1. None \in LowerBound /\ None \in UpperBound
    BY DEF LowerBound, UpperBound
  <2>2. state' = [state EXCEPT !.dirtyFrom = None, !.dirtyTo = None]
    BY DEF RebuildDerivedData
  <2> QED
    BY <1>1, <2>1, <2>2 DEF StateRow
<1>5. snap' = [d \in Days |->
                 IF d \in Closed
                 THEN [content |-> content[d], gen |-> state.gen, policy |-> "current"]
                 ELSE NoSnapshot]
  BY Closed \ Skipped = Closed DEF RebuildDerivedData
<1>6. /\ snap' \in [Days -> Row]
      /\ \A d \in Days : snap'[d].gen <= state.gen
  <2>1. NoSnapshot \in Row /\ NoSnapshot.gen <= state.gen
    BY <1>2 DEF NoSnapshot, Row, None
  <2>2. ASSUME NEW d \in Days
        PROVE  LET row == [content |-> content[d], gen |-> state.gen, policy |-> "current"]
               IN  row \in Row /\ row.gen <= state.gen
    BY <1>1, <1>2 DEF Row, TypeOK
  <2> QED
    BY <1>5, <2>1, <2>2
<1>7. /\ \A d \in Days : d \in Closed => Fresh(d)' /\ True(d)'
      /\ \A d \in Days : d >= today => ~Exists(d)'
  <2>1. \A d \in Days : content[d] # None
    BY <1>1 DEF TypeOK, None
  <2>2. \A d \in Days : d >= today => d \notin Closed
    BY <1>2 DEF Closed, Days
  <2> QED
    BY <1>3, <1>5, <2>1, <2>2 DEF Fresh, True, Outdated, Exists, NoSnapshot
<1>8. \A d : d \in Closed <=> d \in Days /\ d < today
  BY <1>2 DEF Closed, Days
<1>9. TypeOK' /\ ClockIsNow' /\ RowsAreClosed'
  BY <1>1, <1>3, <1>4, <1>6, <1>7 DEF IInv, TypeOK, ClockIsNow, RowsAreClosed
<1>10. StaleIsDirty' /\ GenerationIsEvidence'
  BY <1>3, <1>7, <1>8 DEF StaleIsDirty, GenerationIsEvidence, Closed
<1>11. Steady
  BY <1>3, <1>4, <1>7, <1>8 DEF Steady
<1>12. ASSUME NEW i \in Jobs
       PROVE  JobFine(i)'
  <2>1. job[i].kind # "coverage" /\ JobFine(i)
    BY <1>3, NoCoverage DEF IInv
  <2> QED
    BY <1>1, <1>2, <1>3, <1>4, <1>9, <1>11, <2>1, JobKept
<1> QED
  BY <1>9, <1>10, <1>12 DEF IInv

(* A new resolver policy, which marks every day, keeps the invariant. *)
LEMMA PolicyKeeps ==
    ASSUME IInv, ensureCurrentHistoricalResolverPolicy
    PROVE  IInv'
<1>1. TypeOK /\ state \in StateRow
  BY DEF IInv, TypeOK
<1>2. /\ state.gen \in Nat /\ today \in Days /\ LastDay \in Nat \ {0}
      /\ state.dirtyTo \in UpperBound
  BY <1>1, StateFields
<1> DEFINE to == Clamped(AtLeast(state.dirtyTo, today - 1))
<1>3. to \in UpperBound /\ 1 \in LowerBound /\ state.gen + 1 \in Nat
  BY <1>2 DEF Clamped, Larger, AtLeast, UpperBound, LowerBound, None, Days
<1>4. state' = [state EXCEPT !.dirtyFrom = 1, !.dirtyTo = to, !.gen = state.gen + 1]
  BY DEF ensureCurrentHistoricalResolverPolicy
<1> HIDE DEF to
<1>5. state' \in StateRow /\ state'.gen = state.gen + 1
  BY <1>1, <1>3, <1>4 DEF StateRow
<1>6. content' \in [Days -> Nat]
  <2>1. content' = [d \in Days |-> content[d] + 1]
    BY DEF ensureCurrentHistoricalResolverPolicy
  <2>2. \A d \in Days : content[d] + 1 \in Nat
    BY <1>1 DEF TypeOK
  <2> QED
    BY <2>1, <2>2
<1>7. ASSUME NEW d \in Days
      PROVE  /\ snap'[d] \in Row /\ snap'[d].policy = "earlier"
             /\ snap'[d].content = snap[d].content
             /\ snap'[d].gen <= state'.gen
  <2>1. snap[d] \in Row
    BY <1>1 DEF TypeOK
  <2>2. CASE Exists(d)
    <3> DEFINE g == state.gen + 1
    <3>1. snap'[d] = [snap[d] EXCEPT !.gen = g, !.policy = "earlier"]
      BY <2>2 DEF ensureCurrentHistoricalResolverPolicy
    <3>2. g \in Int /\ state'.gen = g
      BY <1>3, <1>5
    <3> HIDE DEF g
    <3>3. /\ snap'[d] \in Row /\ snap'[d].policy = "earlier"
          /\ snap'[d].content = snap[d].content /\ snap'[d].gen = g
      BY <2>1, <3>1, <3>2 DEF Row
    <3> QED
      BY <3>2, <3>3
  <2>3. CASE ~Exists(d)
    <3>1. snap'[d] = NoSnapshot /\ snap[d].content = None
      BY <2>3 DEF ensureCurrentHistoricalResolverPolicy, Exists
    <3> QED
      BY <1>2, <1>5, <3>1 DEF NoSnapshot, Row, None
  <2> QED
    BY <2>2, <2>3
<1>8. snap' \in [Days -> Row]
  <2>1. snap' = [d \in Days |-> snap'[d]]
    BY DEF ensureCurrentHistoricalResolverPolicy
  <2> QED
    BY <1>7, <2>1
<1>9. /\ job' = [j \in Jobs |-> Idle] /\ clock' = [w \in Writers |-> None]
      /\ today' = today
  BY DEF ensureCurrentHistoricalResolverPolicy
<1>10. \A d \in Days : Outdated(d)' /\ (Exists(d)' => Exists(d))
  BY <1>7 DEF Outdated, Exists
<1>11. \A d \in Closed : d \in Days
  BY <1>2 DEF Closed, Days
<1>12. TypeOK' /\ ClockIsNow'
  <2>1. None \in Int
    BY DEF None
  <2> QED
    BY <1>1, <1>5, <1>6, <1>8, <1>9, <2>1, IdleType DEF TypeOK, ClockIsNow
<1>13. RowsAreClosed'
  BY <1>7, <1>9, <1>10 DEF IInv, RowsAreClosed
<1>14. StaleIsDirty' /\ GenerationIsEvidence'
  BY <1>9, <1>10, <1>11 DEF StaleIsDirty, GenerationIsEvidence, Closed
<1>15. ASSUME NEW i \in Jobs
       PROVE  JobFine(i)'
  <2>1. /\ job'[i].kind = "idle" /\ job'[i].pc = "idle"
        /\ job'[i].todo = {} /\ job'[i].chunk = {}
    BY <1>9 DEF Idle
  <2> QED
    BY <2>1 DEF JobFine, JobShape, BatchIsTrue, PlanHolds, Planned, Pending
<1> QED
  BY <1>12, <1>13, <1>14, <1>15 DEF IInv

(* The day that closes has no row yet. *)
LEMMA TickKeeps ==
    ASSUME IInv, ~MidnightInWrite, Tick
    PROVE  IInv'
<1>1. TypeOK
  BY DEF IInv
<1>2. /\ state.gen \in Nat /\ today \in Days /\ LastDay \in Nat \ {0}
      /\ state.dirtyFrom \in LowerBound
  BY <1>1, StateFields
<1>3. /\ today' = today + 1 /\ today' \in Days /\ today' >= today
      /\ \A w \in Writers : clock[w] = None
      /\ UNCHANGED <<content, snap, state, job, clock, gate>>
  BY <1>2 DEF Tick, Days
<1>4. \A d : /\ Exists(d)' = Exists(d) /\ Outdated(d)' = Outdated(d)
             /\ True(d)' = True(d) /\ Fresh(d)' = Fresh(d)
  BY <1>3 DEF Exists, Outdated, True, Fresh
<1>5. TypeOK' /\ ClockIsNow'
  BY <1>1, <1>3 DEF TypeOK, ClockIsNow
<1>6. RowsAreClosed'
  BY <1>2, <1>3, <1>4 DEF IInv, RowsAreClosed, Days
<1>7. \A d \in Closed' : d \in Closed \/ Outdated(d)
  <2> SUFFICES ASSUME NEW d \in Closed'
               PROVE  d \in Closed \/ d = today
    BY <1>2 DEF IInv, RowsAreClosed, Outdated, Days
  <2> QED
    BY <1>2, <1>3 DEF Closed, Days
<1>8. StaleIsDirty' /\ GenerationIsEvidence'
  BY <1>3, <1>4, <1>7 DEF IInv, StaleIsDirty, GenerationIsEvidence
<1>9. Steady
  BY <1>2, <1>3, <1>4 DEF Steady, LowerBound, None
<1>10. ASSUME NEW i \in Jobs
       PROVE  JobFine(i)'
  <2>1. JobFine(i) /\ (job[i].kind = "coverage" => gate' = i)
    BY <1>3 DEF IInv, JobFine, JobShape
  <2> QED
    BY <1>1, <1>2, <1>3, <1>5, <1>9, <2>1, JobKept
<1> QED
  BY <1>5, <1>6, <1>8, <1>10 DEF IInv

----------------------------------------------------------------------------
(* The invariant *)

(* The invariant holds at first. *)
LEMMA InitHolds == Init => IInv
<1> SUFFICES ASSUME Init
             PROVE  IInv
  OBVIOUS
<1>1. LastDay \in Nat \ {0} /\ today = 1 /\ today \in Days
  BY SnapshotAssumption DEF Init, Days
<1>2. state \in StateRow /\ state.gen = 0
  BY DEF Init, StateRow, LowerBound, UpperBound
<1>3. /\ snap \in [Days -> Row]
      /\ \A d \in Days : ~Exists(d) /\ snap[d].gen = None
  <2>1. NoSnapshot \in Row /\ NoSnapshot.gen = None /\ NoSnapshot.content = None
    BY DEF NoSnapshot, Row, None
  <2>2. snap = [d \in Days |-> NoSnapshot]
    BY DEF Init
  <2> HIDE DEF NoSnapshot
  <2> QED
    BY <2>1, <2>2 DEF Exists
<1>4. TypeOK /\ ClockIsNow
  <2>1. None \in Int
    BY DEF None
  <2> QED
    BY <1>1, <1>2, <1>3, <2>1, IdleType DEF Init, TypeOK, ClockIsNow
<1>5. RowsAreClosed
  BY <1>2, <1>3 DEF RowsAreClosed, None
<1>6. StaleIsDirty /\ GenerationIsEvidence
  BY <1>1 DEF StaleIsDirty, GenerationIsEvidence, Closed
<1>7. ASSUME NEW i \in Jobs
      PROVE  JobFine(i)
  <2>1. /\ job[i].kind = "idle" /\ job[i].pc = "idle"
        /\ job[i].todo = {} /\ job[i].chunk = {}
    BY DEF Init, Idle
  <2> QED
    BY <2>1 DEF JobFine, JobShape, BatchIsTrue, PlanHolds, Planned, Pending
<1> QED
  BY <1>4, <1>5, <1>6, <1>7 DEF IInv

(* The steps of a job keep the invariant. *)
LEMMA JobStepsKeep ==
    ASSUME IInv, Skipped = {}, NEW j \in Jobs, JobStep(j)
    PROVE  IInv'
<1>1. CASE EndRange(j)
  BY <1>1, LeavesKeeps DEF EndRange
<1>2. CASE Cancel(j)
  BY <1>2, LeavesKeeps DEF Cancel
<1> QED
  BY <1>1, <1>2, PlanDirtyKeeps, PlanCoverageKeeps, PlanRangeKeeps, HealthKeeps,
     LoadKeeps, SaveKeeps, EndChunkKeeps, CheckGenerationKeeps, EndReadyKeeps,
     EndCoverageKeeps DEF JobStep

(* Every civil date exists, and writers commit on the day of their clock. *)
PlainDays == Skipped = {} /\ ~MidnightInWrite

(* Every step keeps the invariant. *)
LEMMA StepHolds == ASSUME PlainDays PROVE IInv /\ [Next]_vars => IInv'
<1> SUFFICES ASSUME IInv, [Next]_vars
             PROVE  IInv'
  OBVIOUS
<1>1. CASE Next
  BY <1>1, WriteKeeps, JobStepsKeep, RebuildKeeps, PolicyKeeps, TickKeeps
     DEF Next, PlainDays
<1>2. CASE UNCHANGED vars
  BY <1>2 DEF vars, IInv, TypeOK, ClockIsNow, RowsAreClosed, StaleIsDirty,
     GenerationIsEvidence, Exists, Outdated, True, Closed, JobFine, JobShape,
     BatchIsTrue, PlanHolds, PlanFrom, Pending, Fresh
<1> QED
  BY <1>1, <1>2

(* What the code's comments call conservative invalidation: whatever the   *)
(* interleaving of commits, saves, completions and midnights, a row of     *)
(* daily_valuation_snapshots that the facts no longer support lies in the  *)
(* dirty range of history_snapshot_state or is marked as outdated.         *)
THEOREM StaleRowsAreKnown == ASSUME PlainDays PROVE Spec => []StaleIsDirty
<1>1. IInv => StaleIsDirty
  BY DEF IInv
<1> QED
  BY <1>1, InitHolds, StepHolds, PTL DEF Spec

(* A row of the current input generation may be reused without a rebuild,  *)
(* as ensureSnapshotCoverage does: it agrees with the facts.               *)
THEOREM GenerationsAreEvidence == ASSUME PlainDays PROVE Spec => []GenerationIsEvidence
<1>1. IInv => GenerationIsEvidence
  BY DEF IInv
<1> QED
  BY <1>1, InitHolds, StepHolds, PTL DEF Spec

(* A request for coverage that returns without an error has a true row for *)
(* every day it asked for.                                                 *)
THEOREM CoverageIsDelivered == ASSUME PlainDays PROVE Spec => CoverageDelivers
<1> DEFINE Delivers == \A j \in Jobs :
                         Succeeds(j) /\ EndCoverage(j)
                         => \A d \in (job[j].left .. job[j].right) \ Skipped :
                                ~Outdated(d) /\ True(d)
<1>1. IInv => Delivers
  BY CoveredDays DEF Fresh
<1>2. IInv => [Delivers]_vars
  BY <1>1
<1> HIDE DEF Delivers
<1>3. Spec => [][Delivers]_vars
  BY <1>2, InitHolds, StepHolds, PTL DEF Spec
<1> QED
  BY <1>3 DEF CoverageDelivers, Delivers
=============================================================================
