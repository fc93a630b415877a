------------------------- MODULE ChangeReceiptsProofs -------------------------
(***************************************************************************)
(* Proofs about ChangeReceipts, for any number of copies, identities,      *)
(* commands and restarts.                                                  *)
(***************************************************************************)
EXTENDS ChangeReceipts, FiniteSetTheorems, TLAPS

-----------------------------------------------------------------------------
(* The inductive invariant *)

Committed(i, payload, acts) ==
    \E x \in commits : x.id = i /\ x.payload = payload /\ x.acts = acts

(* The receipt tables and the ledger say the same. *)
KeysAreTrue ==
    \A i \in Ids :
        /\ singleKeys[i] # NoReceipt
           => Committed(i, singleKeys[i].payload, singleKeys[i].acts)
        /\ batchKeys[i] # NoReceipt
           => Committed(i, batchKeys[i].payload, batchKeys[i].acts)

CommitsAreKeyed ==
    \A x \in commits :
        x.id # NoId => singleKeys[x.id] # NoReceipt \/ batchKeys[x.id] # NoReceipt

ReversalsAreStored ==
    \A r \in reversals : r.activity <= height /\ r.reverses <= height

(* A copy between its check and its commit sends an identity that neither  *)
(* table knows; a copy that will answer ok has a receipt to show.          *)
SlotFine(s) ==
    /\ slot[s].pc # "free" => slot[s].plan.cmd \in Commands
    /\ slot[s].pc = "commit" /\ slot[s].plan.id # NoId
       => /\ singleKeys[slot[s].plan.id] = NoReceipt
          /\ batchKeys[slot[s].plan.id] = NoReceipt
    /\ /\ slot[s].plan.id # NoId
       /\ slot[s].pc = "rebuild" \/ (slot[s].pc = "reply" /\ slot[s].answer = "ok")
       => Committed(slot[s].plan.id, slot[s].plan.cmd.payload, slot[s].acts)

LedgerFine == KeysAreTrue /\ CommitsAreKeyed /\ AtMostOnce /\ ReversalsAreStored
              /\ ReversedOnce

RInv == TypeOK /\ LedgerFine /\ ReceiptsAreTrue /\ \A s \in Slots : SlotFine(s)

SlotRow == [pc : Inside \union {"free", "queued"}, plan : Plans, acts : SUBSET Nat,
            answer : {"none", "ok", "stale", "conflict", "error"}]

-----------------------------------------------------------------------------
(* Steps that leave the database alone *)

(* The copy in slot s is the only one the step changes. *)
OnlySlot(s) ==
    /\ slot' \in [Slots -> SlotRow]
    /\ \A t \in Slots \ {s} : slot'[t] = slot[t]

GateFine ==
    /\ nonce' \in Nat /\ revision' \in Nat
    /\ holder' \in Slots \union {Nobody}
    /\ \A s \in Slots : slot'[s].pc \in Inside <=> holder' = s

(* The fields of a request have their types. *)
LEMMA SlotFields ==
    ASSUME TypeOK, NEW s \in Slots
    PROVE  /\ slot[s] \in SlotRow
           /\ slot[s].pc \in Inside \union {"free", "queued"}
           /\ slot[s].plan \in Plans /\ slot[s].acts \in SUBSET Nat
           /\ slot[s].plan.id \in Ids \union {NoId}
           /\ slot[s].answer \in {"none", "ok", "stale", "conflict", "error"}
  BY DEF TypeOK, SlotRow, Plans

(* A step that leaves the ledger and its keys alone keeps what they say of each other. *)
LEMMA LedgerKept ==
    ASSUME RInv, UNCHANGED <<height, reversals, singleKeys, batchKeys, commits>>
    PROVE  LedgerFine' /\ \A i, p, a : Committed(i, p, a)' = Committed(i, p, a)
<1>1. \A i, p, a : Committed(i, p, a)' = Committed(i, p, a)
  BY DEF Committed
<1>2. KeysAreTrue'
  BY <1>1 DEF RInv, LedgerFine, KeysAreTrue
<1>3. CommitsAreKeyed' /\ AtMostOnce' /\ ReversalsAreStored' /\ ReversedOnce'
  BY DEF RInv, LedgerFine, CommitsAreKeyed, AtMostOnce, ReversalsAreStored, ReversedOnce
<1> QED
  BY <1>1, <1>2, <1>3 DEF LedgerFine

(* A step of one request that writes nothing keeps the invariant. *)
LEMMA SlotStepKeeps ==
    ASSUME RInv, NEW s \in Slots, dirty' \in BOOLEAN,
           UNCHANGED <<height, reversals, singleKeys, batchKeys, commits, told>>,
           OnlySlot(s), GateFine, SlotFine(s)'
    PROVE  RInv'
<1>1. LedgerFine' /\ \A i, p, a : Committed(i, p, a)' = Committed(i, p, a)
  BY LedgerKept
<1>2. TypeOK'
  BY DEF RInv, TypeOK, OnlySlot, GateFine, SlotRow
<1>3. ReceiptsAreTrue'
  BY DEF RInv, ReceiptsAreTrue
<1>4. ASSUME NEW t \in Slots \ {s}
      PROVE  SlotFine(t)'
  BY <1>1 DEF RInv, SlotFine, OnlySlot
<1> QED
  BY <1>1, <1>2, <1>3, <1>4 DEF RInv

(* The free slot is a slot. *)
LEMMA FreeType == Free \in SlotRow /\ Free.pc = "free"
<1>1. NoPlan \in Plans
  BY DEF NoPlan, NoToken, Plans
<1> HIDE DEF NoPlan
<1> QED
  BY <1>1 DEF Free, SlotRow

(* A new request keeps the invariant. *)
LEMMA SubmitKeeps ==
    ASSUME RInv, NEW s \in Slots, NEW i \in Ids \union {NoId}, NEW cmd \in Commands,
           NEW g \in BOOLEAN, NEW token \in {Token, NoToken},
           Submit(s, [id |-> i, cmd |-> cmd, guarded |-> g, token |-> token])
    PROVE  RInv'
<1> DEFINE plan == [id |-> i, cmd |-> cmd, guarded |-> g, token |-> token]
           r == [Free EXCEPT !.pc = "queued", !.plan = plan]
<1>1. TypeOK
  BY DEF RInv
<1>2. plan \in Plans /\ plan.cmd = cmd
  BY <1>1 DEF Plans, Token, NoToken, TypeOK
<1>3. /\ slot' = [slot EXCEPT ![s] = r] /\ slot[s] = Free
      /\ UNCHANGED <<height, reversals, singleKeys, batchKeys, commits, told, dirty,
                     nonce, revision, holder>>
  BY DEF Submit, db, gate
<1> HIDE DEF plan
<1>4. r \in SlotRow /\ r.pc = "queued" /\ r.plan = plan
  BY <1>2, FreeType DEF SlotRow
<1> HIDE DEF r
<1>5. OnlySlot(s) /\ slot'[s] = r
  BY <1>1, <1>3, <1>4 DEF OnlySlot, TypeOK, SlotRow
<1>6. GateFine
  BY <1>1, <1>3, <1>4, <1>5, FreeType DEF GateFine, TypeOK, OnlySlot, Inside
<1>7. SlotFine(s)'
  BY <1>2, <1>4, <1>5 DEF SlotFine
<1>8. dirty' \in BOOLEAN
  BY <1>1, <1>3 DEF TypeOK
<1> QED
  BY <1>3, <1>5, <1>6, <1>7, <1>8, SlotStepKeeps

(* Entering the write gate keeps the invariant. *)
LEMMA AcquireKeeps ==
    ASSUME RInv, NEW s \in Slots, Acquire(s)
    PROVE  RInv'
<1>1. TypeOK /\ SlotFine(s) /\ slot[s] \in SlotRow /\ slot[s].pc = "queued"
  BY SlotFields DEF RInv, Acquire
<1>2. UNCHANGED <<height, reversals, singleKeys, batchKeys, commits, told, dirty,
                  nonce, revision>>
  BY DEF Acquire, db
<1>3. dirty' \in BOOLEAN
  BY <1>1, <1>2 DEF TypeOK
<1>4. CASE holder = Nobody /\ holder' = s /\ Step(s, "check")
  <2> DEFINE r == [slot[s] EXCEPT !.pc = "check"]
  <2>1. slot' = [slot EXCEPT ![s] = r]
    BY <1>4 DEF Step
  <2>2. r \in SlotRow /\ r.pc = "check" /\ r.plan = slot[s].plan
    BY <1>1 DEF SlotRow, Inside
  <2> HIDE DEF r
  <2>3. OnlySlot(s) /\ slot'[s] = r
    BY <1>1, <2>1, <2>2 DEF OnlySlot, TypeOK, SlotRow
  <2>4. GateFine
    BY <1>1, <1>2, <1>4, <2>2, <2>3, ReceiptConstants DEF GateFine, TypeOK, OnlySlot, Inside
  <2>5. SlotFine(s)'
    BY <1>1, <2>2, <2>3 DEF SlotFine
  <2> QED
    BY <1>2, <1>3, <2>3, <2>4, <2>5, SlotStepKeeps
<1>5. CASE slot' = [slot EXCEPT ![s] = Free] /\ UNCHANGED holder
  <2>1. OnlySlot(s) /\ slot'[s] = Free
    BY <1>1, <1>5, FreeType DEF OnlySlot, TypeOK, SlotRow
  <2>2. GateFine
    BY <1>1, <1>2, <1>5, <2>1, FreeType DEF GateFine, TypeOK, OnlySlot, Inside
  <2>3. SlotFine(s)'
    BY <2>1, FreeType DEF SlotFine
  <2> QED
    BY <1>2, <1>3, <2>1, <2>2, <2>3, SlotStepKeeps
<1> QED
  BY <1>4, <1>5 DEF Acquire

(* A copy inside the gate moves on and keeps the gate. *)
LEMMA InsideStep ==
    ASSUME RInv, NEW s \in Slots, NEW r \in SlotRow,
           slot[s].pc \in Inside, r.pc \in Inside, r.plan = slot[s].plan,
           slot' = [slot EXCEPT ![s] = r], UNCHANGED <<nonce, revision, holder>>
    PROVE  OnlySlot(s) /\ GateFine /\ slot'[s] = r
<1>1. OnlySlot(s) /\ slot'[s] = r
  BY DEF RInv, TypeOK, OnlySlot, SlotRow
<1> QED
  BY <1>1 DEF RInv, TypeOK, GateFine, OnlySlot


(* The check passes an identity on to the commit only when neither table   *)
(* knows it, and answers a replay with the receipt that is stored.         *)
LEMMA CheckKeeps ==
    ASSUME RInv, NEW s \in Slots, Check(s)
    PROVE  RInv'
<1> DEFINE p == slot[s].plan
           own == Own(p.cmd)[p.id]
<1>1. /\ TypeOK /\ LedgerFine /\ SlotFine(s) /\ slot[s] \in SlotRow
      /\ slot[s].pc = "check" /\ p.id \in Ids \union {NoId} /\ p.cmd \in Commands
  BY SlotFields DEF RInv, Check, SlotFine
<1>2. UNCHANGED <<height, reversals, singleKeys, batchKeys, commits, told, dirty,
                  nonce, revision, holder>>
  BY DEF Check, db, gate
<1>3. dirty' \in BOOLEAN
  BY <1>1, <1>2 DEF TypeOK
<1>4. \A i, q, a : Committed(i, q, a)' = Committed(i, q, a)
  BY <1>2, LedgerKept
<1>5. ASSUME NEW r \in SlotRow, r.pc \in Inside, r.plan = p,
             slot' = [slot EXCEPT ![s] = r],
             r.pc = "commit" /\ p.id # NoId
               => singleKeys[p.id] = NoReceipt /\ batchKeys[p.id] = NoReceipt,
             /\ p.id # NoId
             /\ r.pc = "rebuild" \/ (r.pc = "reply" /\ r.answer = "ok")
             => Committed(p.id, p.cmd.payload, r.acts)
      PROVE  RInv'
  <2>1. OnlySlot(s) /\ GateFine /\ slot'[s] = r
    BY <1>1, <1>2, <1>5, InsideStep DEF Inside
  <2>2. SlotFine(s)'
    BY <1>1, <1>2, <1>4, <1>5, <2>1 DEF SlotFine
  <2> QED
    BY <1>2, <1>3, <2>1, <2>2, SlotStepKeeps
<1>6. ASSUME Replayed(p)
      PROVE  p.id # NoId /\ Committed(p.id, p.cmd.payload, own.acts) /\ own.acts \in SUBSET Nat
  <2>1. p.id \in Ids /\ own # NoReceipt /\ own.payload = p.cmd.payload
    BY <1>1, <1>6 DEF Replayed, Conflict
  <2>2. own = singleKeys[p.id] \/ own = batchKeys[p.id]
    BY DEF Own
  <2>3. own \in Receipts /\ Committed(p.id, own.payload, own.acts)
    BY <1>1, <2>1, <2>2 DEF TypeOK, LedgerFine, KeysAreTrue
  <2> QED
    BY <1>6, <2>1, <2>3 DEF Replayed, Receipts
<1>7. ASSUME NEW answer \in {"stale", "conflict"}, Answer(s, answer, {})
      PROVE  RInv'
  <2> DEFINE r == [slot[s] EXCEPT !.pc = "reply", !.answer = answer, !.acts = {}]
  <2>1. slot' = [slot EXCEPT ![s] = r]
    BY <1>7 DEF Answer
  <2>2. r \in SlotRow /\ r.pc = "reply" /\ r.plan = p /\ r.answer = answer
    BY <1>1 DEF SlotRow, Inside
  <2> HIDE DEF r
  <2> QED
    BY <1>5, <2>1, <2>2 DEF Inside
<1>8. ASSUME Replayed(p), p.cmd.kind = "fix",
             slot' = [slot EXCEPT ![s].pc = "rebuild", ![s].acts = own.acts]
      PROVE  RInv'
  <2> DEFINE acts == own.acts
             r == [slot[s] EXCEPT !.pc = "rebuild", !.acts = acts]
  <2>1. slot' = [slot EXCEPT ![s] = r]
    BY <1>8
  <2>2. acts \in SUBSET Nat
    BY <1>6, <1>8
  <2> HIDE DEF acts
  <2>3. r \in SlotRow /\ r.pc = "rebuild" /\ r.plan = p /\ r.acts = acts
    BY <1>1, <2>2 DEF SlotRow, Inside
  <2> HIDE DEF r
  <2> QED
    BY <1>5, <1>6, <1>8, <2>1, <2>3 DEF Inside, acts
<1>9. ASSUME Replayed(p), Answer(s, "ok", own.acts)
      PROVE  RInv'
  <2> DEFINE acts == own.acts
             r == [slot[s] EXCEPT !.pc = "reply", !.answer = "ok", !.acts = acts]
  <2>1. slot' = [slot EXCEPT ![s] = r]
    BY <1>9 DEF Answer
  <2>2. acts \in SUBSET Nat
    BY <1>6, <1>9
  <2> HIDE DEF acts
  <2>3. r \in SlotRow /\ r.pc = "reply" /\ r.plan = p /\ r.acts = acts
    BY <1>1, <2>2 DEF SlotRow, Inside
  <2> HIDE DEF r
  <2> QED
    BY <1>5, <1>6, <1>9, <2>1, <2>3 DEF Inside, acts
<1>10. ASSUME ~Conflict(p), ~Replayed(p), Step(s, "commit")
       PROVE  RInv'
  <2> DEFINE r == [slot[s] EXCEPT !.pc = "commit"]
  <2>1. slot' = [slot EXCEPT ![s] = r]
    BY <1>10 DEF Step
  <2>2. r \in SlotRow /\ r.pc = "commit" /\ r.plan = p
    BY <1>1 DEF SlotRow, Inside
  <2>3. p.id # NoId => singleKeys[p.id] = NoReceipt /\ batchKeys[p.id] = NoReceipt
    BY <1>10 DEF Conflict, Replayed, Own, Other
  <2> HIDE DEF r
  <2> QED
    BY <1>5, <2>1, <2>2, <2>3 DEF Inside
<1> QED
  BY <1>7, <1>8, <1>9, <1>10 DEF Check

(* A transaction that is rolled back keeps the invariant. *)
LEMMA CommitFailsKeeps ==
    ASSUME RInv, NEW s \in Slots, CommitFails(s)
    PROVE  RInv'
<1> DEFINE r == [slot[s] EXCEPT !.pc = "reply", !.answer = "error", !.acts = {}]
<1>1. TypeOK /\ SlotFine(s) /\ slot[s] \in SlotRow /\ slot[s].pc = "commit"
  BY SlotFields DEF RInv, CommitFails
<1>2. /\ slot' = [slot EXCEPT ![s] = r]
      /\ UNCHANGED <<height, reversals, singleKeys, batchKeys, commits, told, dirty,
                     nonce, revision, holder>>
  BY DEF CommitFails, Answer, db, gate
<1>3. r \in SlotRow /\ r.pc = "reply" /\ r.plan = slot[s].plan /\ r.answer = "error"
  BY <1>1 DEF SlotRow, Inside
<1> HIDE DEF r
<1>4. OnlySlot(s) /\ GateFine /\ slot'[s] = r
  BY <1>1, <1>2, <1>3, InsideStep DEF Inside
<1>5. SlotFine(s)' /\ dirty' \in BOOLEAN
  BY <1>1, <1>2, <1>3, <1>4 DEF SlotFine, TypeOK
<1> QED
  BY <1>2, <1>4, <1>5, SlotStepKeeps

(* The rebuild after a correction keeps the invariant. *)
LEMMA RebuildKeeps ==
    ASSUME RInv, NEW s \in Slots, Rebuild(s)
    PROVE  RInv'
<1>1. TypeOK /\ SlotFine(s) /\ slot[s] \in SlotRow /\ slot[s].pc = "rebuild"
      /\ slot[s].acts \in SUBSET Nat
  BY SlotFields DEF RInv, Rebuild
<1>2. /\ UNCHANGED <<height, reversals, singleKeys, batchKeys, commits, told,
                     nonce, revision, holder>>
      /\ dirty' \in BOOLEAN
  BY <1>1 DEF Rebuild, gate, TypeOK
<1>3. \A i, q, a : Committed(i, q, a)' = Committed(i, q, a)
  BY <1>2, LedgerKept
<1>4. CASE Answer(s, "ok", slot[s].acts)
  <2> DEFINE r == [slot[s] EXCEPT !.pc = "reply", !.answer = "ok", !.acts = slot[s].acts]
  <2>1. slot' = [slot EXCEPT ![s] = r]
    BY <1>4 DEF Answer
  <2>2. r \in SlotRow /\ r.pc = "reply" /\ r.plan = slot[s].plan /\ r.acts = slot[s].acts
    BY <1>1 DEF SlotRow, Inside
  <2> HIDE DEF r
  <2>3. OnlySlot(s) /\ GateFine /\ slot'[s] = r
    BY <1>1, <1>2, <2>1, <2>2, InsideStep DEF Inside
  <2>4. SlotFine(s)'
    BY <1>1, <1>2, <1>3, <2>2, <2>3 DEF SlotFine
  <2> QED
    BY <1>2, <2>3, <2>4, SlotStepKeeps
<1>5. CASE Answer(s, "error", {})
  <2> DEFINE r == [slot[s] EXCEPT !.pc = "reply", !.answer = "error", !.acts = {}]
  <2>1. slot' = [slot EXCEPT ![s] = r]
    BY <1>5 DEF Answer
  <2>2. r \in SlotRow /\ r.pc = "reply" /\ r.plan = slot[s].plan /\ r.answer = "error"
    BY <1>1 DEF SlotRow, Inside
  <2> HIDE DEF r
  <2>3. OnlySlot(s) /\ GateFine /\ slot'[s] = r
    BY <1>1, <1>2, <2>1, <2>2, InsideStep DEF Inside
  <2>4. SlotFine(s)'
    BY <1>1, <1>2, <2>2, <2>3 DEF SlotFine
  <2> QED
    BY <1>2, <2>3, <2>4, SlotStepKeeps
<1> QED
  BY <1>4, <1>5 DEF Rebuild

-----------------------------------------------------------------------------
(* The transaction of a change *)

(* A command writes at least one activity, and keys at least one. *)
LEMMA NewActsFacts ==
    ASSUME height \in Nat, NEW cmd
    PROVE  /\ Cardinality(NewActs(cmd)) \in Nat /\ Cardinality(NewActs(cmd)) >= 1
           /\ KeyedActs(cmd) \in SUBSET Nat /\ KeyedActs(cmd) # {}
<1>1. Cardinality({height + 1}) = 1 /\ IsFiniteSet({height + 1})
  BY FS_Singleton
<1>2. Cardinality({height + 1} \union {height + 2}) = Cardinality({height + 1}) + 1
  <2>1. height + 2 \notin {height + 1}
    OBVIOUS
  <2> QED
    BY <1>1, <2>1, FS_AddElement
<1>3. {height + 1, height + 2} = {height + 1} \union {height + 2}
  OBVIOUS
<1>4. Cardinality({height + 1, height + 2}) = 2
  BY <1>1, <1>2, <1>3
<1> QED
  BY <1>1, <1>4 DEF NewActs, KeyedActs

(* The stored receipt is the first of its identity: no earlier transaction *)
(* has it, since every one of them left a receipt.                         *)
LEMMA CommitKeeps ==
    ASSUME RInv, NEW s \in Slots, Commit(s)
    PROVE  RInv'
<1> DEFINE p == slot[s].plan
           acts == KeyedActs(p.cmd)
           row == [payload |-> p.cmd.payload, acts |-> acts]
           new == [id |-> p.id, payload |-> p.cmd.payload, kind |-> p.cmd.kind, acts |-> acts]
           rev == [activity |-> height + 1, reverses |-> p.cmd.target]
<1>1. /\ TypeOK /\ LedgerFine /\ SlotFine(s) /\ slot[s] \in SlotRow
      /\ slot[s].pc = "commit" /\ p.id \in Ids \union {NoId} /\ p.cmd \in Commands
      /\ height \in Nat /\ holder = s
  BY SlotFields DEF RInv, Commit, SlotFine, TypeOK, Inside
<1>2. /\ height' = height + Cardinality(NewActs(p.cmd))
      /\ StoreReceipt(p, acts)
      /\ commits' = commits \union {new}
      /\ UNCHANGED <<told, nonce, revision, holder>>
      /\ Acceptable(p.cmd)
      /\ dirty' \in BOOLEAN
  BY <1>1 DEF Commit, gate, TypeOK
<1>3. height' \in Nat /\ height' >= height + 1 /\ acts \in SUBSET Nat /\ acts # {}
  BY <1>1, <1>2, NewActsFacts
<1>4. p.cmd.payload \in Payloads /\ p.cmd.kind \in Kinds /\ p.cmd.target \in Nat
  BY <1>1, ReceiptConstants DEF Payloads
<1>5. row \in Receipts /\ row # NoReceipt /\ row.payload = p.cmd.payload /\ row.acts = acts
  BY <1>3, <1>4 DEF Receipts, NoReceipt
<1>6. /\ new \in [id : Ids \union {NoId}, payload : Payloads, kind : Kinds, acts : SUBSET Nat]
      /\ new.id = p.id /\ new.payload = p.cmd.payload /\ new.acts = acts
  BY <1>1, <1>3, <1>4
<1>7. p.id # NoId => singleKeys[p.id] = NoReceipt /\ batchKeys[p.id] = NoReceipt
  BY <1>1 DEF SlotFine
<1>8. p.id # NoId => \A x \in commits : x.id # p.id
  BY <1>1, <1>7 DEF LedgerFine, CommitsAreKeyed
<1>9. /\ reversals' = reversals
         \/ (Reversible(p.cmd.target) /\ reversals' = reversals \union {rev})
      /\ rev.activity = height + 1 /\ rev.reverses = p.cmd.target
      /\ rev \in [activity : Nat, reverses : Nat]
  BY <1>1, <1>2, <1>4 DEF Commit, Acceptable
<1>10. /\ singleKeys' \in [Ids -> Receipts] /\ batchKeys' \in [Ids -> Receipts]
       /\ \A i \in Ids : \/ singleKeys'[i] = singleKeys[i]
                         \/ i = p.id /\ singleKeys'[i] = row
       /\ \A i \in Ids : \/ batchKeys'[i] = batchKeys[i]
                         \/ i = p.id /\ batchKeys'[i] = row
       /\ p.id # NoId => singleKeys'[p.id] = row \/ batchKeys'[p.id] = row
  <2>1. /\ singleKeys' = IF p.id = NoId \/ p.cmd.kind = "batch" THEN singleKeys
                         ELSE [singleKeys EXCEPT ![p.id] = row]
        /\ batchKeys' = IF p.id # NoId /\ p.cmd.kind = "batch"
                        THEN [batchKeys EXCEPT ![p.id] = row] ELSE batchKeys
    BY <1>2 DEF StoreReceipt
  <2> HIDE DEF row
  <2> QED
    BY <1>1, <1>5, <2>1 DEF TypeOK
<1>11. PICK r \in SlotRow :
         /\ r.pc \in {"rebuild", "reply"} /\ r.plan = p /\ r.acts = acts
         /\ slot' = [slot EXCEPT ![s] = r]
  <2> HIDE DEF acts
  <2>1. CASE slot' = [slot EXCEPT ![s].pc = "rebuild", ![s].acts = acts]
    <3> DEFINE r == [slot[s] EXCEPT !.pc = "rebuild", !.acts = acts]
    <3>1. slot' = [slot EXCEPT ![s] = r]
      BY <2>1
    <3>2. r \in SlotRow /\ r.pc = "rebuild" /\ r.plan = p /\ r.acts = acts
      BY <1>1, <1>3 DEF SlotRow, Inside
    <3> QED
      BY <3>1, <3>2
  <2>2. CASE Answer(s, "ok", acts)
    <3> DEFINE r == [slot[s] EXCEPT !.pc = "reply", !.answer = "ok", !.acts = acts]
    <3>1. slot' = [slot EXCEPT ![s] = r]
      BY <2>2 DEF Answer
    <3>2. r \in SlotRow /\ r.pc = "reply" /\ r.plan = p /\ r.acts = acts
      BY <1>1, <1>3 DEF SlotRow, Inside
    <3> QED
      BY <3>1, <3>2
  <2> QED
    BY <2>1, <2>2 DEF Commit, acts
<1>12. OnlySlot(s) /\ GateFine /\ slot'[s] = r
  BY <1>1, <1>2, <1>11, InsideStep DEF Inside
<1> HIDE DEF row, new, acts, rev
<1>13. TypeOK'
  BY <1>1, <1>2, <1>3, <1>6, <1>9, <1>10, <1>12 DEF TypeOK, OnlySlot, GateFine, SlotRow
<1>14. \A i, q, a : Committed(i, q, a) => Committed(i, q, a)'
  BY <1>2 DEF Committed
<1>15. PICK i, q, a : i = p.id /\ q = p.cmd.payload /\ a = acts
  OBVIOUS
<1>15a. Committed(i, q, a)'
  BY <1>2, <1>6, <1>15 DEF Committed
<1>16. KeysAreTrue'
  <2>1. row.payload = q /\ row.acts = a
    BY <1>5, <1>15
  <2>2. ASSUME NEW j \in Ids, singleKeys'[j] # NoReceipt
        PROVE  \E x \in commits' : /\ x.id = j /\ x.payload = singleKeys'[j].payload
                                   /\ x.acts = singleKeys'[j].acts
    <3>1. CASE singleKeys'[j] = singleKeys[j]
      <4>1. PICK k, b : k = singleKeys[j].payload /\ b = singleKeys[j].acts
        OBVIOUS
      <4>2. Committed(j, k, b)
        BY <1>1, <2>2, <3>1, <4>1 DEF LedgerFine, KeysAreTrue
      <4>3. Committed(j, k, b)'
        BY <1>14, <4>2
      <4> QED
        BY <3>1, <4>1, <4>3 DEF Committed
    <3>2. CASE j = p.id /\ singleKeys'[j] = row
      BY <1>15, <1>15a, <2>1, <3>2 DEF Committed
    <3> QED
      BY <1>10, <3>1, <3>2
  <2>3. ASSUME NEW j \in Ids, batchKeys'[j] # NoReceipt
        PROVE  \E x \in commits' : /\ x.id = j /\ x.payload = batchKeys'[j].payload
                                   /\ x.acts = batchKeys'[j].acts
    <3>1. CASE batchKeys'[j] = batchKeys[j]
      <4>1. PICK k, b : k = batchKeys[j].payload /\ b = batchKeys[j].acts
        OBVIOUS
      <4>2. Committed(j, k, b)
        BY <1>1, <2>3, <3>1, <4>1 DEF LedgerFine, KeysAreTrue
      <4>3. Committed(j, k, b)'
        BY <1>14, <4>2
      <4> QED
        BY <3>1, <4>1, <4>3 DEF Committed
    <3>2. CASE j = p.id /\ batchKeys'[j] = row
      BY <1>15, <1>15a, <2>1, <3>2 DEF Committed
    <3> QED
      BY <1>10, <3>1, <3>2
  <2> QED
    BY <2>2, <2>3 DEF KeysAreTrue, Committed
<1>17. CommitsAreKeyed'
  <2> SUFFICES ASSUME NEW x \in commits', x.id # NoId
               PROVE  singleKeys'[x.id] # NoReceipt \/ batchKeys'[x.id] # NoReceipt
    BY DEF CommitsAreKeyed
  <2>1. CASE x \in commits
    <3>1. x.id \in Ids /\ (singleKeys[x.id] # NoReceipt \/ batchKeys[x.id] # NoReceipt)
      BY <1>1, <2>1 DEF TypeOK, LedgerFine, CommitsAreKeyed
    <3> QED
      BY <1>5, <1>10, <3>1
  <2>2. CASE x = new
    BY <1>5, <1>6, <1>10, <2>2
  <2> QED
    BY <1>2, <2>1, <2>2
<1>18. AtMostOnce'
  BY <1>1, <1>2, <1>6, <1>8 DEF LedgerFine, AtMostOnce
<1>19. ReversalsAreStored'
  <2>1. CASE reversals' = reversals
    BY <1>1, <1>3, <2>1 DEF LedgerFine, ReversalsAreStored, TypeOK
  <2>2. CASE Reversible(p.cmd.target) /\ reversals' = reversals \union {rev}
    BY <1>1, <1>3, <1>4, <1>9, <2>2 DEF LedgerFine, ReversalsAreStored, TypeOK, Reversible
  <2> QED
    BY <1>9, <2>1, <2>2
<1>20. ReversedOnce'
  <2>1. CASE reversals' = reversals
    BY <1>1, <2>1 DEF LedgerFine, ReversedOnce
  <2>2. CASE Reversible(p.cmd.target) /\ reversals' = reversals \union {rev}
    <3>1. \A v \in reversals : /\ v.reverses # rev.reverses /\ v.activity # rev.reverses
                               /\ v.reverses # rev.activity
      BY <1>1, <1>9, <2>2 DEF LedgerFine, ReversalsAreStored, TypeOK, Reversible
    <3>2. rev.reverses # rev.activity
      BY <1>1, <1>9, <2>2 DEF Reversible
    <3> QED
      BY <1>1, <2>2, <3>1, <3>2 DEF LedgerFine, ReversedOnce
  <2> QED
    BY <1>9, <2>1, <2>2
<1>21. ReceiptsAreTrue'
  <2>1. \A t \in told : Committed(t.id, t.payload, t.acts)
    BY DEF RInv, ReceiptsAreTrue, Committed
  <2>2. \A t \in told : Committed(t.id, t.payload, t.acts)'
    BY <1>14, <2>1
  <2> QED
    BY <1>2, <2>2 DEF ReceiptsAreTrue, Committed
<1>22. SlotFine(s)'
  <2>1. /\ slot'[s].plan.id = i /\ slot'[s].plan.cmd.payload = q /\ slot'[s].acts = a
        /\ slot'[s].plan.cmd \in Commands /\ slot'[s].pc \in {"rebuild", "reply"}
    BY <1>1, <1>11, <1>12, <1>15
  <2> QED
    BY <1>15a, <2>1 DEF SlotFine, Committed
<1>23. ASSUME NEW t \in Slots \ {s}
       PROVE  SlotFine(t)'
  <2>1. slot'[t] = slot[t] /\ slot[t].pc \notin Inside /\ SlotFine(t)
    BY <1>1, <1>12 DEF RInv, TypeOK, OnlySlot
  <2> QED
    BY <2>1 DEF SlotFine, Inside
<1> QED
  BY <1>13, <1>16, <1>17, <1>18, <1>19, <1>20, <1>21, <1>22, <1>23 DEF RInv, LedgerFine

-----------------------------------------------------------------------------
(* Receipts shown to clients *)

(* Showing a committed receipt keeps the receipts true. *)
LEMMA TellKeeps ==
    ASSUME RInv, NEW i \in Ids, NEW q \in Payloads, NEW a \in SUBSET Nat,
           Committed(i, q, a),
           told' = told \union {[id |-> i, payload |-> q, acts |-> a]}
    PROVE  told' \subseteq [id : Ids, payload : Payloads, acts : SUBSET Nat]
           /\ (commits' = commits => ReceiptsAreTrue')
  BY DEF RInv, TypeOK, ReceiptsAreTrue, Committed

(* The answer to a request keeps the invariant. *)
LEMMA ReplyKeeps ==
    ASSUME RInv, NEW s \in Slots, Reply(s)
    PROVE  RInv'
<1> DEFINE p == slot[s].plan
<1>1. /\ TypeOK /\ SlotFine(s) /\ slot[s] \in SlotRow /\ slot[s].pc = "reply"
      /\ p.id \in Ids \union {NoId} /\ slot[s].acts \in SUBSET Nat
  BY SlotFields DEF RInv, Reply
<1>2. /\ slot' = [slot EXCEPT ![s] = Free] /\ holder' = Nobody /\ revision' = revision + 1
      /\ UNCHANGED <<height, reversals, singleKeys, batchKeys, commits, dirty, nonce>>
  BY DEF Reply, db
<1>3. /\ told' \subseteq [id : Ids, payload : Payloads, acts : SUBSET Nat]
      /\ ReceiptsAreTrue'
  <2>1. CASE told' = told
    BY <1>2, <2>1 DEF RInv, TypeOK, ReceiptsAreTrue
  <2>2. CASE /\ slot[s].answer = "ok" /\ p.id # NoId
             /\ told' = told \union {[id |-> p.id, acts |-> slot[s].acts,
                                      payload |-> p.cmd.payload]}
    <3>1. p.id \in Ids /\ Committed(p.id, p.cmd.payload, slot[s].acts) /\ p.cmd \in Commands
      BY <1>1, <2>2 DEF SlotFine
    <3>2. p.cmd.payload \in Payloads
      BY <3>1 DEF Payloads
    <3>3. told' = told \union {[id |-> p.id, payload |-> p.cmd.payload,
                                acts |-> slot[s].acts]}
      BY <2>2
    <3> QED
      BY <1>1, <1>2, <3>1, <3>2, <3>3, TellKeeps
  <2> QED
    BY <2>1, <2>2 DEF Reply
<1>4. OnlySlot(s) /\ slot'[s] = Free
  BY <1>1, <1>2, FreeType DEF OnlySlot, TypeOK, SlotRow
<1>5. GateFine
  <2>1. holder = s
    BY <1>1 DEF TypeOK, Inside
  <2> QED
    BY <1>1, <1>2, <1>4, <2>1, FreeType, ReceiptConstants DEF GateFine, TypeOK, OnlySlot, Inside
<1>6. TypeOK'
  BY <1>1, <1>2, <1>3, <1>4, <1>5 DEF TypeOK, OnlySlot, GateFine, SlotRow
<1>7. LedgerFine' /\ \A i, q, a : Committed(i, q, a)' = Committed(i, q, a)
  BY <1>2, LedgerKept
<1>8. ASSUME NEW t \in Slots
      PROVE  SlotFine(t)'
  <2>1. CASE t = s
    BY <1>4, <2>1, FreeType DEF SlotFine
  <2>2. CASE t # s
    BY <1>2, <1>4, <1>7, <2>2 DEF RInv, SlotFine, OnlySlot
  <2> QED
    BY <2>1, <2>2
<1> QED
  BY <1>3, <1>6, <1>7, <1>8 DEF RInv

(* Looking up a receipt keeps the invariant. *)
LEMMA InspectKeeps ==
    ASSUME RInv, NEW i \in Ids, NEW cmd \in Commands, Inspect(i, cmd)
    PROVE  RInv'
<1> DEFINE p == [NoPlan EXCEPT !.id = i, !.cmd = cmd]
<1>1. p.id = i /\ p.cmd = cmd
  BY DEF NoPlan
<1>2. /\ Replayed(p) /\ cmd.kind # "batch"
      /\ told' = told \union {[id |-> i, payload |-> cmd.payload, acts |-> singleKeys[i].acts]}
      /\ UNCHANGED <<height, reversals, singleKeys, batchKeys, commits, dirty,
                     nonce, revision, holder, slot>>
  BY DEF Inspect, db, gate
<1> HIDE DEF p
<1>3. singleKeys[i] # NoReceipt /\ singleKeys[i].payload = cmd.payload
  BY <1>1, <1>2 DEF Replayed, Conflict, Own
<1>4. Committed(i, cmd.payload, singleKeys[i].acts)
  BY <1>3 DEF RInv, LedgerFine, KeysAreTrue
<1>5. cmd.payload \in Payloads /\ singleKeys[i].acts \in SUBSET Nat
  BY DEF Payloads, RInv, TypeOK, Receipts
<1>6. /\ told' \subseteq [id : Ids, payload : Payloads, acts : SUBSET Nat]
      /\ ReceiptsAreTrue'
  BY <1>2, <1>4, <1>5, TellKeeps
<1>7. LedgerFine' /\ \A j, q, a : Committed(j, q, a)' = Committed(j, q, a)
  BY <1>2, LedgerKept
<1>8. TypeOK'
  BY <1>2, <1>6 DEF RInv, TypeOK
<1>9. \A t \in Slots : SlotFine(t)'
  BY <1>2, <1>7 DEF RInv, SlotFine
<1> QED
  BY <1>6, <1>7, <1>8, <1>9 DEF RInv

(* A restart, which forgets the requests, keeps the invariant. *)
LEMMA RestartKeeps ==
    ASSUME RInv, Restart
    PROVE  RInv'
<1>1. /\ slot' = [s \in Slots |-> Free] /\ holder' = Nobody /\ revision' = 0
      /\ nonce' = nonce + 1
      /\ UNCHANGED <<height, reversals, singleKeys, batchKeys, commits, dirty, told>>
  BY DEF Restart, db
<1>2. LedgerFine'
  BY <1>1, LedgerKept
<1>3. TypeOK'
  BY <1>1, FreeType, ReceiptConstants DEF RInv, TypeOK, SlotRow, Inside
<1>4. ReceiptsAreTrue'
  BY <1>1 DEF RInv, ReceiptsAreTrue
<1>5. \A t \in Slots : SlotFine(t)'
  BY <1>1, FreeType DEF SlotFine
<1> QED
  BY <1>2, <1>3, <1>4, <1>5 DEF RInv

-----------------------------------------------------------------------------
(* The invariant *)

(* The invariant holds at first. *)
LEMMA InitHolds == Init => RInv
<1> SUFFICES ASSUME Init
             PROVE  RInv
  OBVIOUS
<1>1. NoReceipt \in Receipts
  BY DEF NoReceipt, Receipts
<1>2. TypeOK
  BY <1>1, FreeType, ReceiptConstants DEF Init, TypeOK, SlotRow, Inside
<1>3. LedgerFine
  BY DEF Init, LedgerFine, KeysAreTrue, CommitsAreKeyed, AtMostOnce,
     ReversalsAreStored, ReversedOnce
<1>4. ReceiptsAreTrue /\ \A s \in Slots : SlotFine(s)
  BY FreeType DEF Init, ReceiptsAreTrue, SlotFine
<1> QED
  BY <1>2, <1>3, <1>4 DEF RInv

(* Every step keeps the invariant. *)
LEMMA StepHolds == RInv /\ [Next]_vars => RInv'
<1> SUFFICES ASSUME RInv, [Next]_vars
             PROVE  RInv'
  OBVIOUS
<1>1. ASSUME NEW cmd \in Commands, NEW i \in Ids, NEW s \in Slots,
             NEW token \in {Token, NoToken}, SubmitGuarded(s, i, cmd, token)
      PROVE  RInv'
  <2>1. TRUE \in BOOLEAN /\ i \in Ids \union {NoId}
    OBVIOUS
  <2> QED
    BY <1>1, <2>1, SubmitKeeps DEF SubmitGuarded
<1>2. ASSUME NEW cmd \in Commands, NEW s \in Slots, NEW i \in Ids \union {NoId},
             SubmitForm(s, i, cmd)
      PROVE  RInv'
  <2>1. FALSE \in BOOLEAN /\ NoToken \in {Token, NoToken}
    OBVIOUS
  <2> QED
    BY <1>2, <2>1, SubmitKeeps DEF SubmitForm
<1>3. ASSUME NEW s \in Slots, Acquire(s) \/ Serve(s)
      PROVE  RInv'
  BY <1>3, AcquireKeeps, CheckKeeps, CommitKeeps, CommitFailsKeeps, RebuildKeeps,
     ReplyKeeps DEF Serve
<1>4. CASE UNCHANGED vars
  <2>1. UNCHANGED <<height, reversals, singleKeys, batchKeys, commits, dirty, told,
                    nonce, revision, holder, slot>>
    BY <1>4 DEF vars, db, gate
  <2>2. LedgerFine' /\ \A j, q, a : Committed(j, q, a)' = Committed(j, q, a)
    BY <2>1, LedgerKept
  <2> QED
    BY <2>1, <2>2 DEF RInv, TypeOK, ReceiptsAreTrue, SlotFine
<1> QED
  BY <1>1, <1>2, <1>3, <1>4, InspectKeeps, RestartKeeps DEF Next

(* However often, in however many copies and across whatever restarts an   *)
(* identity is sent to the four handlers, one transaction commits it.      *)
THEOREM CommittedOnce == Spec => []AtMostOnce
<1>1. RInv => AtMostOnce
  BY DEF RInv, LedgerFine
<1> QED
  BY <1>1, InitHolds, StepHolds, PTL DEF Spec

(* A receipt a client was shown, by an answer, a replay or an inspection,  *)
(* is the one of the transaction that committed its identity and payload.  *)
THEOREM ToldTheTruth == Spec => []ReceiptsAreTrue
<1>1. RInv => ReceiptsAreTrue
  BY DEF RInv
<1> QED
  BY <1>1, InitHolds, StepHolds, PTL DEF Spec

(* An activity is reversed at most once, by whatever mix of undo and fix,  *)
(* and a reversal is never reversed.                                       *)
THEOREM ReversedAtMostOnce == Spec => []ReversedOnce
<1>1. RInv => ReversedOnce
  BY DEF RInv, LedgerFine
<1> QED
  BY <1>1, InitHolds, StepHolds, PTL DEF Spec

-----------------------------------------------------------------------------
(* The receipts implement OnceLedger *)

DecidedMap == [i \in Ids |-> Decided(i)]

ToldMap == {[id |-> t.id, payload |-> t.payload] : t \in told}

(* CHOOSE has no choice: an identity has at most one transaction. *)
LEMMA DecidedFacts ==
    ASSUME AtMostOnce, NEW i \in Ids
    PROVE  /\ \A x \in commits : x.id = i => Decided(i) = x.payload
           /\ (\A x \in commits : x.id # i) => Decided(i) = "none"
<1>1. ASSUME NEW x \in commits, x.id = i
      PROVE  Decided(i) = x.payload
  <2> DEFINE y == CHOOSE z \in commits : z.id = i
  <2>1. y \in commits /\ y.id = i
    BY <1>1
  <2>2. i # NoId
    BY ReceiptConstants
  <2>3. y = x
    BY <1>1, <2>1, <2>2 DEF AtMostOnce
  <2>4. Decided(i) = y.payload
    BY <1>1 DEF Decided
  <2> QED
    BY <2>3, <2>4
<1>2. ASSUME \A x \in commits : x.id # i
      PROVE  Decided(i) = "none"
  BY <1>2 DEF Decided
<1> QED
  BY <1>1, <1>2

(* A step that commits nothing and tells nothing is a stuttering step. *)
LEMMA Stutters ==
    ASSUME UNCHANGED <<commits, told>>
    PROVE  UNCHANGED <<DecidedMap, ToldMap>>
  BY DEF DecidedMap, ToldMap, Decided

(* A receipt shown is a Tell step of the abstract ledger. *)
LEMMA TellStep ==
    ASSUME RInv, "none" \notin Payloads, NEW i \in Ids, NEW q \in Payloads, NEW a,
           Committed(i, q, a), commits' = commits,
           told' = told \union {[id |-> i, payload |-> q, acts |-> a]}
    PROVE  /\ DecidedMap[i] # "none"
           /\ ToldMap' = ToldMap \union {[id |-> i, payload |-> DecidedMap[i]]}
           /\ DecidedMap' = DecidedMap
<1>1. DecidedMap[i] = q
  BY DecidedFacts DEF RInv, LedgerFine, Committed, DecidedMap
<1>2. DecidedMap' = DecidedMap
  BY DEF DecidedMap, Decided
<1>3. ToldMap' = ToldMap \union {[id |-> i, payload |-> q]}
  <2> DEFINE new == [id |-> i, payload |-> q, acts |-> a]
  <2>1. new.id = i /\ new.payload = q
    OBVIOUS
  <2>2. told' = told \union {new}
    OBVIOUS
  <2> HIDE DEF new
  <2> QED
    BY <2>1, <2>2 DEF ToldMap
<1> QED
  BY <1>1, <1>2, <1>3

(* A commit is a Decide step of the abstract ledger, or changes nothing it shows. *)
LEMMA DecideStep ==
    ASSUME RInv, RInv', NEW s \in Slots, Commit(s)
    PROVE  \/ UNCHANGED <<DecidedMap, ToldMap>>
           \/ \E i \in Ids, q \in Payloads :
                 /\ DecidedMap[i] = "none"
                 /\ DecidedMap' = [DecidedMap EXCEPT ![i] = q]
                 /\ ToldMap' = ToldMap
<1>1. PICK p : p = slot[s].plan
  OBVIOUS
<1>2. PICK new : new = [id |-> p.id, payload |-> p.cmd.payload, kind |-> p.cmd.kind,
                        acts |-> KeyedActs(p.cmd)]
  OBVIOUS
<1>3. commits' = commits \union {new} /\ told' = told
  BY <1>1, <1>2 DEF Commit
<1>4. /\ new.id = p.id /\ new.payload = p.cmd.payload /\ p.id \in Ids \union {NoId}
      /\ p.cmd.payload \in Payloads
  BY <1>1, <1>2, SlotFields DEF RInv, SlotFine, Commit, Payloads
<1>5. AtMostOnce /\ AtMostOnce' /\ ToldMap' = ToldMap
  BY <1>3 DEF RInv, LedgerFine, ToldMap
<1>6. p.id # NoId => \A x \in commits : x.id # p.id
  <2>1. slot[s].pc = "commit" /\ SlotFine(s)
    BY DEF Commit, RInv
  <2> QED
    BY <1>1, <2>1 DEF SlotFine, RInv, LedgerFine, CommitsAreKeyed
<1>7. ASSUME NEW i \in Ids, i # p.id
      PROVE  Decided(i)' = Decided(i)
  <2>1. CASE \A x \in commits : x.id # i
    <3>1. \A x \in commits' : x.id # i
      BY <1>3, <1>4, <1>7, <2>1
    <3> QED
      BY <2>1, <3>1 DEF Decided
  <2>2. CASE \E x \in commits : x.id = i
    <3>1. PICK x \in commits : x.id = i
      BY <2>2
    <3>2. Decided(i) = x.payload
      BY <1>5, <3>1, DecidedFacts
    <3>3. Decided(i)' = x.payload
      <4> DEFINE y == CHOOSE z \in commits' : z.id = i
      <4>1. x \in commits'
        BY <1>3, <3>1
      <4>2. y \in commits' /\ y.id = i
        BY <3>1, <4>1
      <4>3. i # NoId
        BY ReceiptConstants
      <4>4. y = x
        BY <1>5, <3>1, <4>1, <4>2, <4>3 DEF AtMostOnce
      <4>5. Decided(i)' = y.payload
        BY <3>1, <4>1 DEF Decided
      <4> QED
        BY <4>4, <4>5
    <3> QED
      BY <3>2, <3>3
  <2> QED
    BY <2>1, <2>2
<1>8. CASE p.id = NoId
  <2>1. \A i \in Ids : Decided(i)' = Decided(i)
    BY <1>7, <1>8, ReceiptConstants
  <2> QED
    BY <1>5, <2>1 DEF DecidedMap
<1>9. CASE p.id # NoId
  <2>1. p.id \in Ids
    BY <1>4, <1>9
  <2>2. Decided(p.id) = "none"
    BY <1>6, <1>9, <2>1 DEF Decided
  <2>3. PICK i \in Ids : i = p.id
    BY <2>1
  <2>4. Decided(i)' = p.cmd.payload
    <3> DEFINE y == CHOOSE z \in commits' : z.id = i
    <3>1. y \in commits' /\ y.id = i
      BY <1>3, <1>4, <2>3
    <3>2. y = new
      BY <1>3, <1>6, <1>9, <2>3, <3>1
    <3>3. Decided(i)' = y.payload
      BY <1>3, <1>4, <2>3 DEF Decided
    <3> QED
      BY <1>4, <3>2, <3>3
  <2>5. DecidedMap' = [DecidedMap EXCEPT ![i] = p.cmd.payload]
    BY <1>7, <2>3, <2>4 DEF DecidedMap
  <2>6. DecidedMap[i] = "none"
    BY <2>2, <2>3 DEF DecidedMap
  <2> QED
    BY <1>4, <1>5, <2>5, <2>6
<1> QED
  BY <1>8, <1>9

(* Every step is one of the abstract ledger, or a stutter. *)
LEMMA RefinesStep ==
    ASSUME "none" \notin Payloads
    PROVE  RInv /\ RInv' /\ [Next]_vars => [Once!Next]_(Once!onceVars)
<1> SUFFICES ASSUME RInv, RInv', [Next]_vars
             PROVE  Once!Next \/ UNCHANGED <<DecidedMap, ToldMap>>
  BY DEF Once!onceVars, DecidedMap, ToldMap
<1>1. ASSUME NEW i \in Ids, NEW q \in Payloads, NEW a, Committed(i, q, a),
             commits' = commits,
             told' = told \union {[id |-> i, payload |-> q, acts |-> a]}
      PROVE  Once!Next
  <2>1. Once!Tell(i)
    BY <1>1, TellStep DEF Once!Tell, DecidedMap, ToldMap
  <2> QED
    BY <2>1 DEF Once!Next
<1>2. ASSUME NEW s \in Slots, Commit(s)
      PROVE  Once!Next \/ UNCHANGED <<DecidedMap, ToldMap>>
  <2>1. CASE \E i \in Ids, q \in Payloads :
                 /\ DecidedMap[i] = "none"
                 /\ DecidedMap' = [DecidedMap EXCEPT ![i] = q]
                 /\ ToldMap' = ToldMap
    BY <2>1 DEF Once!Next, Once!Decide, DecidedMap, ToldMap
  <2> QED
    BY <1>2, <2>1, DecideStep
<1>3. ASSUME NEW s \in Slots, Reply(s)
      PROVE  Once!Next \/ UNCHANGED <<DecidedMap, ToldMap>>
  <2>1. commits' = commits
    BY <1>3 DEF Reply, db
  <2>2. CASE told' = told
    BY <2>1, <2>2, Stutters
  <2>3. CASE told' # told
    <3>1. PICK i, q, a : i = slot[s].plan.id /\ q = slot[s].plan.cmd.payload
                         /\ a = slot[s].acts
      OBVIOUS
    <3>2. /\ slot[s].pc = "reply" /\ slot[s].answer = "ok" /\ i # NoId
          /\ told' = told \union {[id |-> i, acts |-> a, payload |-> q]}
      BY <1>3, <2>3, <3>1 DEF Reply
    <3>3. i \in Ids /\ q \in Payloads /\ Committed(i, q, a)
      BY <3>1, <3>2, SlotFields DEF RInv, SlotFine, Payloads
    <3>4. told' = told \union {[id |-> i, payload |-> q, acts |-> a]}
      BY <3>2
    <3> QED
      BY <1>1, <2>1, <3>3, <3>4
  <2> QED
    BY <2>2, <2>3
<1>4. ASSUME NEW j \in Ids, NEW cmd \in Commands, Inspect(j, cmd)
      PROVE  Once!Next
  <2> DEFINE p == [NoPlan EXCEPT !.id = j, !.cmd = cmd]
  <2>1. p.id = j /\ p.cmd = cmd
    BY DEF NoPlan
  <2>2. Replayed(p) /\ cmd.kind # "batch" /\ commits' = commits
    BY <1>4 DEF Inspect, db
  <2> HIDE DEF p
  <2>3. PICK a : a = singleKeys[j].acts
    OBVIOUS
  <2>4. singleKeys[j] # NoReceipt /\ singleKeys[j].payload = cmd.payload
    BY <2>1, <2>2 DEF Replayed, Conflict, Own
  <2>5. Committed(j, cmd.payload, a) /\ cmd.payload \in Payloads
    BY <2>3, <2>4 DEF RInv, LedgerFine, KeysAreTrue, Payloads
  <2>6. told' = told \union {[id |-> j, payload |-> cmd.payload, acts |-> a]}
    BY <1>4, <2>3 DEF Inspect
  <2> QED
    BY <1>1, <2>2, <2>5, <2>6
<1>5. ASSUME UNCHANGED <<commits, told>>
      PROVE  UNCHANGED <<DecidedMap, ToldMap>>
  BY <1>5, Stutters
<1>6. ASSUME NEW s \in Slots, \/ Acquire(s) \/ Check(s) \/ CommitFails(s) \/ Rebuild(s)
      PROVE  UNCHANGED <<commits, told>>
  BY <1>6 DEF Acquire, Check, CommitFails, Rebuild, db
<1>7. ASSUME \/ UNCHANGED vars
             \/ Restart
             \/ \E cmd \in Commands, s \in Slots :
                  \/ \E i \in Ids, token \in {Token, NoToken} : SubmitGuarded(s, i, cmd, token)
                  \/ \E i \in Ids \union {NoId} : SubmitForm(s, i, cmd)
      PROVE  UNCHANGED <<commits, told>>
  BY <1>7 DEF vars, db, Restart, SubmitGuarded, SubmitForm, Submit
<1> QED
  BY <1>2, <1>3, <1>4, <1>5, <1>6, <1>7 DEF Next, Serve

(* The two receipt tables, the checks before the commit and the replays    *)
(* implement an identity that is decided once, for one payload, if no      *)
(* command has the payload that stands for "undecided".                    *)
THEOREM ReceiptsImplementOnce ==
    ASSUME "none" \notin Payloads PROVE Spec => ImplementsOnce
<1>1. Init => Once!Init
  BY DEF Init, Once!Init, Decided
<1>2. RInv /\ RInv' /\ [Next]_vars => [Once!Next]_(Once!onceVars)
  BY RefinesStep
<1> QED
  BY <1>1, <1>2, InitHolds, StepHolds, PTL DEF Spec, ImplementsOnce, Once!Spec

-----------------------------------------------------------------------------
(* What a client is told, and when *)

(* A step outside the four handlers: it leaves the database alone, and a   *)
(* copy waits, is admitted to its check, or is gone.                       *)
Elsewhere ==
    /\ UNCHANGED db
    /\ \A s \in Slots :
          \/ slot'[s] = slot[s]
          \/ slot'[s].pc \in {"free", "queued"} /\ slot'[s].answer = "none"
          \/ /\ slot[s].pc = "queued" /\ slot'[s].pc = "check"
             /\ slot'[s].answer = slot[s].answer

(* A step is one of the four that decide a request, or leaves the decision alone. *)
LEMMA StepCases ==
    ASSUME RInv, [Next]_vars
    PROVE  \/ Elsewhere
           \/ \E s \in Slots : Check(s) \/ Commit(s) \/ CommitFails(s) \/ Rebuild(s)
<1> USE DEF Elsewhere
<1>1. slot \in [Slots -> SlotRow] /\ Free.pc = "free" /\ Free.answer = "none"
  BY FreeType DEF RInv, TypeOK, SlotRow, Free
<1>2. ASSUME NEW s \in Slots, NEW plan, Submit(s, plan)
      PROVE  Elsewhere
  <2> DEFINE r == [Free EXCEPT !.pc = "queued", !.plan = plan]
  <2>1. slot' = [slot EXCEPT ![s] = r] /\ UNCHANGED db
    BY <1>2 DEF Submit
  <2>2. r.pc = "queued" /\ r.answer = "none"
    BY DEF Free
  <2> HIDE DEF r
  <2> QED
    BY <1>1, <2>1, <2>2
<1>3. ASSUME NEW s \in Slots, Acquire(s)
      PROVE  Elsewhere
  BY <1>1, <1>3 DEF Acquire, Step, SlotRow
<1>4. ASSUME NEW s \in Slots, Reply(s)
      PROVE  Elsewhere
  BY <1>1, <1>4 DEF Reply
<1>5. CASE UNCHANGED vars \/ Restart
  BY <1>1, <1>5 DEF vars, Restart
<1>6. ASSUME NEW i \in Ids, NEW cmd \in Commands, Inspect(i, cmd)
      PROVE  Elsewhere
  BY <1>6 DEF Inspect
<1> QED
  BY <1>2, <1>3, <1>4, <1>5, <1>6 DEF Next, Serve, SubmitGuarded, SubmitForm

(* What the four handlers do to the copy they serve and to the others. *)
LEMMA HandlerMoves ==
    ASSUME RInv, NEW s \in Slots, Check(s) \/ Commit(s) \/ CommitFails(s) \/ Rebuild(s)
    PROVE  /\ holder = s /\ slot'[s].plan = slot[s].plan
           /\ \A t \in Slots \ {s} : slot'[t] = slot[t] /\ slot[t].pc # "reply"
           /\ slot'[s].pc = "reply" \/ slot'[s].answer = slot[s].answer
           /\ \/ slot'[s].pc # "reply" \/ slot'[s].answer # "ok"
              \/ slot[s].plan.cmd.kind # "fix" \/ ~dirty'
<1>1. /\ slot \in [Slots -> SlotRow] /\ slot[s].pc \in Inside
      /\ \A t \in Slots : slot[t].pc \in Inside <=> holder = t
  BY DEF RInv, TypeOK, SlotRow, Check, Commit, CommitFails, Rebuild, Inside
<1>2. ASSUME NEW answer, NEW acts, Answer(s, answer, acts)
      PROVE  /\ slot'[s].plan = slot[s].plan /\ slot'[s].pc = "reply"
             /\ slot'[s].answer = answer
             /\ \A t \in Slots \ {s} : slot'[t] = slot[t]
  BY <1>1, <1>2 DEF Answer, SlotRow
<1>3. ASSUME NEW acts, slot' = [slot EXCEPT ![s].pc = "rebuild", ![s].acts = acts]
      PROVE  /\ slot'[s].plan = slot[s].plan /\ slot'[s].pc = "rebuild"
             /\ slot'[s].answer = slot[s].answer
             /\ \A t \in Slots \ {s} : slot'[t] = slot[t]
  BY <1>1, <1>3 DEF SlotRow
<1>4. ASSUME Step(s, "commit")
      PROVE  /\ slot'[s].plan = slot[s].plan /\ slot'[s].pc = "commit"
             /\ slot'[s].answer = slot[s].answer
             /\ \A t \in Slots \ {s} : slot'[t] = slot[t]
  BY <1>1, <1>4 DEF Step, SlotRow
<1>5. holder = s /\ \A t \in Slots \ {s} : slot[t].pc # "reply"
  BY <1>1 DEF Inside
<1>6. CASE Check(s)
  BY <1>2, <1>3, <1>4, <1>5, <1>6 DEF Check
<1>7. CASE Commit(s)
  BY <1>2, <1>3, <1>5, <1>7 DEF Commit
<1>8. CASE CommitFails(s)
  BY <1>2, <1>5, <1>8 DEF CommitFails
<1>9. CASE Rebuild(s)
  BY <1>2, <1>5, <1>9 DEF Rebuild
<1> QED
  BY <1>6, <1>7, <1>8, <1>9

(* rebuildCorrectionSnapshots: a correction is called done only when the   *)
(* closed days it touched have been rebuilt, on the first answer and on    *)
(* every replay, and nobody dirties them again before the answer is out.   *)
THEOREM CorrectionsDoneAreRebuilt == Spec => []DoneMeansRebuilt
<1>1. Init => DoneMeansRebuilt
  BY FreeType DEF Init, DoneMeansRebuilt
<1>2. ASSUME RInv, DoneMeansRebuilt, [Next]_vars
      PROVE  DoneMeansRebuilt'
  <2>1. CASE Elsewhere
    BY <1>2, <2>1 DEF Elsewhere, db, DoneMeansRebuilt
  <2>2. ASSUME NEW s \in Slots, Check(s) \/ Commit(s) \/ CommitFails(s) \/ Rebuild(s)
        PROVE  DoneMeansRebuilt'
    BY <1>2, <2>2, HandlerMoves DEF DoneMeansRebuilt
  <2> QED
    BY <1>2, <2>1, <2>2, StepCases
<1> QED
  BY <1>1, <1>2, InitHolds, StepHolds, PTL DEF Spec

(* A copy that has not been answered carries no answer, and a transaction  *)
(* with an identity has its receipt in the table of its own kind, and none *)
(* in the other.                                                           *)
Unanswered == \A s \in Slots : slot[s].pc # "reply" => slot[s].answer = "none"
KeyedInOwnTable ==
    \A x \in commits :
        /\ \E k \in Commands : k.kind = x.kind /\ k.payload = x.payload
        /\ x.id # NoId /\ x.kind = "batch" =>
              /\ batchKeys[x.id] # NoReceipt /\ batchKeys[x.id].payload = x.payload
              /\ singleKeys[x.id] = NoReceipt
        /\ x.id # NoId /\ x.kind # "batch" =>
              /\ singleKeys[x.id] # NoReceipt /\ singleKeys[x.id].payload = x.payload
              /\ batchKeys[x.id] = NoReceipt
KnownInv == Unanswered /\ KeyedInOwnTable

(* A commit writes its key into the table of its kind of command. *)
LEMMA CommitKeysOwnTable ==
    ASSUME RInv, KeyedInOwnTable, NEW s \in Slots, Commit(s)
    PROVE  KeyedInOwnTable'
<1>1. PICK p : p = slot[s].plan
  OBVIOUS
<1>2. PICK acts : acts = KeyedActs(p.cmd)
  OBVIOUS
<1>3. PICK row : row = [payload |-> p.cmd.payload, acts |-> acts]
  OBVIOUS
<1>4. PICK new : new = [id |-> p.id, payload |-> p.cmd.payload, kind |-> p.cmd.kind,
                        acts |-> acts]
  OBVIOUS
<1>5. /\ p.id \in Ids \union {NoId} /\ p.cmd \in Commands /\ slot[s].pc = "commit"
      /\ singleKeys \in [Ids -> Receipts] /\ batchKeys \in [Ids -> Receipts]
      /\ commits \subseteq [id : Ids \union {NoId}, payload : Payloads, kind : Kinds,
                            acts : SUBSET Nat]
  BY <1>1, SlotFields DEF RInv, SlotFine, Commit, TypeOK
<1>6. commits' = commits \union {new} /\ StoreReceipt(p, acts)
  BY <1>1, <1>2, <1>4 DEF Commit
<1>7. /\ new.id = p.id /\ new.kind = p.cmd.kind /\ new.payload = p.cmd.payload
      /\ row.payload = p.cmd.payload
  BY <1>3, <1>4
<1>8. row # NoReceipt
  <2>1. acts # {}
    BY <1>2, NewActsFacts DEF RInv, TypeOK
  <2> QED
    BY <1>3, <2>1 DEF NoReceipt
<1>9. p.id # NoId => singleKeys[p.id] = NoReceipt /\ batchKeys[p.id] = NoReceipt
  BY <1>1, <1>5 DEF RInv, SlotFine
<1>10. p.id # NoId => \A x \in commits : x.id # p.id
  BY <1>9 DEF RInv, LedgerFine, CommitsAreKeyed
<1>11. /\ singleKeys' = IF p.id = NoId \/ p.cmd.kind = "batch" THEN singleKeys
                        ELSE [singleKeys EXCEPT ![p.id] = row]
       /\ batchKeys' = IF p.id # NoId /\ p.cmd.kind = "batch"
                       THEN [batchKeys EXCEPT ![p.id] = row] ELSE batchKeys
  BY <1>3, <1>6 DEF StoreReceipt
<1>12. \A i \in Ids : i # p.id => singleKeys'[i] = singleKeys[i] /\ batchKeys'[i] = batchKeys[i]
  BY <1>5, <1>11
<1>13. ASSUME NEW x \in commits
       PROVE  x.id # NoId => x.id \in Ids /\ x.id # p.id
  BY <1>5, <1>10
<1>14. p.id # NoId /\ p.cmd.kind = "batch"
       => batchKeys'[p.id] = row /\ singleKeys'[p.id] = NoReceipt
  BY <1>5, <1>9, <1>11
<1>15. p.id # NoId /\ p.cmd.kind # "batch"
       => singleKeys'[p.id] = row /\ batchKeys'[p.id] = NoReceipt
  BY <1>5, <1>9, <1>11
<1> QED
  BY <1>5, <1>6, <1>7, <1>8, <1>12, <1>13, <1>14, <1>15 DEF KeyedInOwnTable

(* Every step keeps both. *)
LEMMA KnownKept ==
    ASSUME RInv, KnownInv, [Next]_vars
    PROVE  KnownInv'
<1>1. CASE Elsewhere
  BY <1>1 DEF Elsewhere, db, KnownInv, Unanswered, KeyedInOwnTable
<1>2. ASSUME NEW s \in Slots, Check(s) \/ Commit(s) \/ CommitFails(s) \/ Rebuild(s)
      PROVE  KnownInv'
  <2>1. Unanswered'
    BY <1>2, HandlerMoves DEF KnownInv, Unanswered, Check, Commit, CommitFails, Rebuild
  <2>2. CASE Commit(s)
    BY <2>1, <2>2, CommitKeysOwnTable DEF KnownInv
  <2>3. CASE Check(s) \/ CommitFails(s) \/ Rebuild(s)
    <3>1. UNCHANGED <<commits, singleKeys, batchKeys>>
      BY <2>3 DEF Check, CommitFails, Rebuild, db
    <3> QED
      BY <2>1, <3>1 DEF KnownInv, KeyedInOwnTable
  <2> QED
    BY <1>2, <2>2, <2>3
<1> QED
  BY <1>1, <1>2, StepCases

(* The payload of a list of commands is not the payload of one command:    *)
(* both are the SHA-256 of an encoding that shows which of the two it is.  *)
BatchPayloadsDiffer ==
    \A k, l \in Commands : k.payload = l.payload => (k.kind = "batch" <=> l.kind = "batch")

(* replayActivityMutation before the token: a copy of a change that has    *)
(* been committed is recognised, however old its token, and is neither     *)
(* refused, nor called a conflict, nor run again.                          *)
THEOREM CompletedChangesAreKnown ==
    ASSUME BatchPayloadsDiffer PROVE Spec => CompletedIsKnown
<1>1. Init => KnownInv
  BY DEF Init, KnownInv, Unanswered, KeyedInOwnTable, Free
<1>2. ASSUME RInv, KnownInv, [Next]_vars, NEW s \in Slots,
             slot[s].pc = "check", slot'[s].pc # "check",
             NEW x \in commits, x.id = slot[s].plan.id, x.id # NoId,
             x.payload = slot[s].plan.cmd.payload
      PROVE  slot'[s].answer \notin {"stale", "conflict"} /\ slot'[s].pc # "commit"
  <2>1. CASE Elsewhere
    BY <1>2, <2>1 DEF Elsewhere
  <2>2. ASSUME NEW t \in Slots, Check(t) \/ Commit(t) \/ CommitFails(t) \/ Rebuild(t)
        PROVE  t = s /\ Check(s)
    BY <1>2, <2>2, HandlerMoves DEF Commit, CommitFails, Rebuild
  <2>3. CASE Check(s)
    <3>1. PICK p : p = slot[s].plan
      OBVIOUS
    <3>2. p.cmd \in Commands /\ x.id = p.id /\ x.payload = p.cmd.payload
      BY <1>2, <3>1 DEF RInv, SlotFine
    <3>3. x.kind = "batch" <=> p.cmd.kind = "batch"
      BY <1>2, <3>2 DEF BatchPayloadsDiffer, KnownInv, KeyedInOwnTable
    <3>4. /\ Own(p.cmd)[p.id] # NoReceipt /\ Own(p.cmd)[p.id].payload = p.cmd.payload
          /\ Other(p.cmd)[p.id] = NoReceipt
      BY <1>2, <3>2, <3>3 DEF KnownInv, KeyedInOwnTable, Own, Other
    <3>5. Replayed(p) /\ ~Conflict(p)
      BY <1>2, <3>2, <3>4 DEF Replayed, Conflict
    <3>6. PICK acts : \/ Answer(s, "ok", acts)
                      \/ slot' = [slot EXCEPT ![s].pc = "rebuild", ![s].acts = acts]
      BY <2>3, <3>1, <3>5 DEF Check
    <3>7. slot \in [Slots -> SlotRow] /\ slot[s].answer = "none"
      BY <1>2 DEF RInv, TypeOK, SlotRow, KnownInv, Unanswered
    <3> QED
      BY <3>6, <3>7 DEF Answer, SlotRow
  <2> QED
    BY <1>2, <2>1, <2>2, <2>3, StepCases
<1>3. RInv /\ KnownInv /\ [Next]_vars => KnownInv'
  BY KnownKept
<1>4. RInv /\ KnownInv /\ [Next]_vars
      => [\A s \in Slots :
            /\ slot[s].pc = "check" /\ slot'[s].pc # "check"
            /\ \E x \in commits : /\ x.id = slot[s].plan.id /\ x.id # NoId
                                   /\ x.payload = slot[s].plan.cmd.payload
            => slot'[s].answer \notin {"stale", "conflict"} /\ slot'[s].pc # "commit"]_vars
  BY <1>2
<1> QED
  BY <1>1, <1>3, <1>4, InitHolds, StepHolds, PTL DEF Spec, CompletedIsKnown
=============================================================================
