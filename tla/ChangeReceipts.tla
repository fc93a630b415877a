---------------------------- MODULE ChangeReceipts ----------------------------
(***************************************************************************)
(* Idempotent changes: Service.RecordChangeGuarded, RecordChangesGuarded,  *)
(* RecordChangeWithMutation, RecordFixChangeGuarded, FixChangeWithMutation,*)
(* RecordUndoChangeGuardedAt, UndoChange and InspectChangeReceipt of       *)
(* internal/application, with the two receipt tables of SQLite.            *)
(*                                                                         *)
(* A client holds a plan (mutation identity, command, preview token) and   *)
(* submits it, again and again if it likes, also while an earlier copy is  *)
(* still waiting at the write gate.  A copy occupies a slot.  Between any  *)
(* two steps of a copy the process may end; the database survives, the     *)
(* copies do not, and the tokens the clients hold are of no use any more.  *)
(*                                                                         *)
(* The ledger is the sequence of its activities; what an activity says is  *)
(* in ActivityLedger.  The SHA-256 of a command stands for the command.    *)
(***************************************************************************)
EXTENDS Integers, FiniteSets

CONSTANTS Slots,        \* copies of requests in flight at once
          Ids,          \* mutation identities
          Commands,     \* [kind, target, payload]
          MaxHeight,    \* no copy is admitted once the ledger has grown past it
          MaxRevision,  \* no copy is admitted beyond this revision
          MaxRestarts   \* process restarts explored

NoId     == "no identity"
Nobody   == "nobody"
Kinds    == {"change", "batch", "fix", "undo"}
Payloads == {k.payload : k \in Commands}

ASSUME ReceiptConstants ==
    /\ NoId \notin Ids
    /\ Nobody \notin Slots
    /\ MaxHeight \in Nat /\ MaxRevision \in Nat /\ MaxRestarts \in Nat
    /\ \A k \in Commands : k.kind \in Kinds /\ k.target \in Nat

VARIABLES
    height,     \* activities in the ledger, numbered 1..height
    reversals,  \* [activity, reverses] of activities.reverses_activity_id
    singleKeys, \* activity_mutation_keys
    batchKeys,  \* change_batch_mutation_keys
    dirty,      \* history_snapshot_state: some closed day from the date of the
                \* corrected activity on is marked for rebuilding
    nonce,      \* WriteCoordinator.nonce
    revision,   \* WriteCoordinator.revision
    holder,     \* the slot that holds the write gate, or Nobody
    slot,       \* the copy of a request in each slot
    told,       \* the receipts clients have seen, [id, payload, acts]
    commits     \* ghost: every transaction, [id, payload, kind, acts]

db   == <<height, reversals, singleKeys, batchKeys, dirty, commits>>
gate == <<nonce, revision, holder>>
vars == <<db, gate, slot, told>>

-----------------------------------------------------------------------------
NoReceipt == [payload |-> "none", acts |-> {}]
NoToken   == [nonce |-> 0, revision |-> 0]
NoCommand == [kind |-> "none", target |-> 0, payload |-> "none"]
\* guarded: the command is bound to the token of a preview.
NoPlan    == [id |-> NoId, cmd |-> NoCommand, guarded |-> FALSE, token |-> NoToken]
Free      == [pc |-> "free", plan |-> NoPlan, answer |-> "none", acts |-> {}]

Token == [nonce |-> nonce, revision |-> revision]

Init ==
    /\ height = 0
    /\ reversals = {}
    /\ singleKeys = [i \in Ids |-> NoReceipt]
    /\ batchKeys = [i \in Ids |-> NoReceipt]
    /\ dirty = FALSE
    /\ nonce = 1
    /\ revision = 0
    /\ holder = Nobody
    /\ slot = [s \in Slots |-> Free]
    /\ told = {}
    /\ commits = {}

-----------------------------------------------------------------------------
(* The domain's answer to a command on the present ledger.                 *)

\* prepareUndoChangeAt, fixChangePlan: the original exists, is no reversal
\* itself and has none.
\* mutant: ActivityHasReversal and the UNIQUE column are not consulted
MutantReversible(t) ==
    /\ t \in 1..height
    /\ \A r \in reversals : r.activity # t
Reversible(t) ==
    /\ t \in 1..height
    /\ \A r \in reversals : r.activity # t /\ r.reverses # t

Acceptable(cmd) == cmd.kind \in {"fix", "undo"} => Reversible(cmd.target)

\* A correction and a batch of two commands store two activities.
NewActs(cmd) ==
    IF cmd.kind \in {"batch", "fix"} THEN {height + 1, height + 2} ELSE {height + 1}

\* commitChangeLocked and fixChangeLocked answer with the activity that
\* carries the key: for a correction the replacement, not its inverse.
KeyedActs(cmd) ==
    IF cmd.kind = "fix" THEN {height + 2} ELSE NewActs(cmd)

-----------------------------------------------------------------------------
(* Submissions.                                                            *)

\* A first submission, or another copy of it.
Submit(s, plan) ==
    /\ slot[s] = Free
    /\ slot' = [slot EXCEPT ![s] = [Free EXCEPT !.pc = "queued", !.plan = plan]]
    /\ UNCHANGED <<db, gate, told>>

\* RecordChangeGuarded, RecordChangesGuarded, RecordFixChangeGuarded,
\* RecordUndoChangeGuardedAt, submitted after a preview.  The token is the one
\* of the present revision, or an earlier one; commitChangeLocked of mcpserver
\* and ConfirmMobileRecord send "expired" for a plan past its lifetime.
SubmitGuarded(s, i, cmd, token) ==
    Submit(s, [id |-> i, cmd |-> cmd, guarded |-> TRUE, token |-> token])

\* The desktop forms submit without a token: a change or correction with or
\* without an identity (commitChangeRequest, FixChange), an undo without one.
SubmitForm(s, i, cmd) ==
    /\ cmd.kind # "batch"
    /\ cmd.kind = "undo" => i = NoId
    /\ Submit(s, [id |-> i, cmd |-> cmd, guarded |-> FALSE, token |-> NoToken])

-----------------------------------------------------------------------------
(* One copy of a request.                                                  *)

Step(s, pc) == slot' = [slot EXCEPT ![s].pc = pc]
Answer(s, answer, acts) ==
    slot' = [slot EXCEPT ![s].pc = "reply", ![s].answer = answer, ![s].acts = acts]

\* beginLedgerWrite; a gate that is shut refuses the copy.
Acquire(s) ==
    /\ slot[s].pc = "queued"
    /\ \/ /\ holder = Nobody
          /\ height < MaxHeight /\ revision < MaxRevision
          /\ holder' = s
          /\ Step(s, "check")
       \/ /\ slot' = [slot EXCEPT ![s] = Free]
          /\ UNCHANGED holder
    /\ UNCHANGED <<db, nonce, revision, told>>

\* replayActivityMutation: the batch table first, then the table of single
\* changes; and the same in RecordChangesGuarded, the other way round.
\* A single change, a correction and an undo share one table.
Own(cmd)   == IF cmd.kind = "batch" THEN batchKeys ELSE singleKeys
\* mutant: only the table of the own kind is consulted
MutantOther(cmd) == [i \in Ids |-> NoReceipt]
Other(cmd) == IF cmd.kind = "batch" THEN singleKeys ELSE batchKeys

\* mutant: a known identity is replayed whatever was sent under it
MutantConflict(p) == p.id # NoId /\ Other(p.cmd)[p.id] # NoReceipt
Conflict(p)  == p.id # NoId /\ \/ Other(p.cmd)[p.id] # NoReceipt
                               \/ /\ Own(p.cmd)[p.id] # NoReceipt
                                  /\ Own(p.cmd)[p.id].payload # p.cmd.payload
Replayed(p)  == p.id # NoId /\ ~Conflict(p) /\ Own(p.cmd)[p.id] # NoReceipt
Stale(p)     == p.guarded /\ p.token # Token

\* The part of every handler before the commit, in the order of the code: the
\* receipt first, so that a completed change is recognised by a client whose
\* token is long gone; then the token.
\* mutant: the token is compared before the receipt is looked up
MutantCheck(s) ==
    LET p == slot[s].plan
    IN  /\ slot[s].pc = "check"
        /\ \/ Stale(p) /\ Answer(s, "stale", {})
           \/ ~Stale(p) /\ Conflict(p) /\ Answer(s, "conflict", {})
           \/ ~Stale(p) /\ Replayed(p) /\ Answer(s, "ok", Own(p.cmd)[p.id].acts)
           \/ ~Stale(p) /\ ~Conflict(p) /\ ~Replayed(p) /\ Step(s, "commit")
        /\ UNCHANGED <<db, gate, told>>
\* mutant: a replayed correction is answered without rebuilding
MutantCheckReplay(s) ==
    LET p == slot[s].plan
    IN  /\ slot[s].pc = "check"
        /\ \/ Conflict(p) /\ Answer(s, "conflict", {})
           \/ Replayed(p) /\ Answer(s, "ok", Own(p.cmd)[p.id].acts)
           \/ ~Conflict(p) /\ ~Replayed(p) /\ Stale(p) /\ Answer(s, "stale", {})
           \/ ~Conflict(p) /\ ~Replayed(p) /\ ~Stale(p) /\ Step(s, "commit")
        /\ UNCHANGED <<db, gate, told>>
Check(s) ==
    LET p == slot[s].plan
    IN  /\ slot[s].pc = "check"
        /\ \/ Conflict(p) /\ Answer(s, "conflict", {})
           \/ /\ Replayed(p)
              /\ IF p.cmd.kind = "fix"
                 THEN slot' = [slot EXCEPT ![s].pc = "rebuild",
                                           ![s].acts = Own(p.cmd)[p.id].acts]
                 ELSE Answer(s, "ok", Own(p.cmd)[p.id].acts)
           \/ ~Conflict(p) /\ ~Replayed(p) /\ Stale(p) /\ Answer(s, "stale", {})
           \/ ~Conflict(p) /\ ~Replayed(p) /\ ~Stale(p) /\ Step(s, "commit")
        /\ UNCHANGED <<db, gate, told>>

\* CommitActivityBatch, CommitChangeBatch, CreateHoldingWithActivity: the
\* activities, the receipt and the mark on the closed days in one transaction.
StoreReceipt(p, acts) ==
    LET row == [payload |-> p.cmd.payload, acts |-> acts]
    IN  /\ singleKeys' = IF p.id = NoId \/ p.cmd.kind = "batch" THEN singleKeys
                         ELSE [singleKeys EXCEPT ![p.id] = row]
        /\ batchKeys' = IF p.id # NoId /\ p.cmd.kind = "batch"
                        THEN [batchKeys EXCEPT ![p.id] = row] ELSE batchKeys

Commit(s) ==
    LET p    == slot[s].plan
        acts == NewActs(p.cmd)
    IN  /\ slot[s].pc = "commit"
        /\ Acceptable(p.cmd)
        /\ p.id # NoId => Own(p.cmd)[p.id] = NoReceipt     \* PRIMARY KEY
        /\ height' = height + Cardinality(acts)
        /\ reversals' = IF p.cmd.kind \in {"fix", "undo"}
                        THEN reversals \union {[activity |-> height + 1,
                                                reverses |-> p.cmd.target]}
                        ELSE reversals
        /\ StoreReceipt(p, KeyedActs(p.cmd))
        /\ dirty' \in {dirty, TRUE}           \* TRUE when it is effective on a closed day
        /\ commits' = commits \union {[id |-> p.id, payload |-> p.cmd.payload,
                                       kind |-> p.cmd.kind, acts |-> KeyedActs(p.cmd)]}
        /\ IF p.cmd.kind = "fix"
           THEN slot' = [slot EXCEPT ![s].pc = "rebuild", ![s].acts = KeyedActs(p.cmd)]
           ELSE Answer(s, "ok", KeyedActs(p.cmd))
        /\ UNCHANGED <<gate, told>>

\* The command is refused on this ledger, or the transaction rolls back.
CommitFails(s) ==
    /\ slot[s].pc = "commit"
    /\ Answer(s, "error", {})
    /\ UNCHANGED <<db, gate, told>>

\* rebuildCorrectionSnapshots runs after the transaction of a correction, and
\* again when the correction is replayed; its failure is the answer although
\* the correction stands.
Rebuild(s) ==
    /\ slot[s].pc = "rebuild"
    /\ \/ dirty' = FALSE /\ Answer(s, "ok", slot[s].acts)
       \/ dirty' = dirty /\ Answer(s, "error", {})
    /\ UNCHANGED <<height, reversals, singleKeys, batchKeys, commits, gate, told>>

\* releaseWrite; the answer reaches the client or is lost on the way.
Reply(s) ==
    /\ slot[s].pc = "reply"
    /\ \/ /\ slot[s].answer = "ok" /\ slot[s].plan.id # NoId
          /\ told' = told \union {[id |-> slot[s].plan.id, acts |-> slot[s].acts,
                                   payload |-> slot[s].plan.cmd.payload]}
       \/ told' = told
    /\ holder' = Nobody
    /\ revision' = revision + 1
    /\ slot' = [slot EXCEPT ![s] = Free]
    /\ UNCHANGED <<db, nonce>>

\* InspectChangeReceipt: the receipt of a single change, without a write.
Inspect(i, cmd) ==
    LET p == [NoPlan EXCEPT !.id = i, !.cmd = cmd]
    IN  /\ holder = Nobody
        /\ cmd.kind # "batch"
        /\ Replayed(p)
        /\ told' = told \union {[id |-> i, payload |-> cmd.payload,
                                 acts |-> singleKeys[i].acts]}
        /\ UNCHANGED <<db, gate, slot>>

\* The process ends and comes back: newWriteCoordinator draws a new nonce.
Restart ==
    /\ nonce <= MaxRestarts
    /\ nonce' = nonce + 1
    /\ revision' = 0
    /\ holder' = Nobody
    /\ slot' = [s \in Slots |-> Free]
    /\ UNCHANGED <<db, told>>

Serve(s) == Check(s) \/ Commit(s) \/ CommitFails(s) \/ Rebuild(s) \/ Reply(s)

Next ==
    \/ \E cmd \in Commands :
          \/ \E i \in Ids :
                \/ \E s \in Slots, token \in {Token, NoToken} : SubmitGuarded(s, i, cmd, token)
                \/ Inspect(i, cmd)
          \/ \E s \in Slots, i \in Ids \union {NoId} : SubmitForm(s, i, cmd)
    \/ \E s \in Slots : Acquire(s) \/ Serve(s)
    \/ Restart

Spec == Init /\ [][Next]_vars

-----------------------------------------------------------------------------
Receipts == [payload : Payloads \union {"none"}, acts : SUBSET Nat]
Plans    == [id : Ids \union {NoId}, cmd : Commands \union {NoCommand},
             guarded : BOOLEAN, token : [nonce : Nat, revision : Nat]]
Inside   == {"check", "commit", "rebuild", "reply"}

TypeOK ==
    /\ height \in Nat /\ nonce \in Nat /\ revision \in Nat
    /\ reversals \subseteq [activity : Nat, reverses : Nat]
    /\ singleKeys \in [Ids -> Receipts]
    /\ batchKeys \in [Ids -> Receipts]
    /\ dirty \in BOOLEAN
    /\ holder \in Slots \union {Nobody}
    /\ \A s \in Slots : slot[s].pc \in Inside <=> holder = s
    /\ slot \in [Slots -> [pc : Inside \union {"free", "queued"}, plan : Plans,
                           acts : SUBSET Nat,
                           answer : {"none", "ok", "stale", "conflict", "error"}]]
    /\ told \subseteq [id : Ids, payload : Payloads, acts : SUBSET Nat]
    /\ commits \subseteq [id : Ids \union {NoId}, payload : Payloads, kind : Kinds,
                          acts : SUBSET Nat]

\* However often, in however many copies, by whichever of the four handlers
\* and across whatever restarts an identity is sent, one transaction commits
\* it (change_mutation.go: replayActivityMutation, change_batch.go).
AtMostOnce ==
    \A x, y \in commits : x.id = y.id /\ x.id # NoId => x = y

\* A receipt a client was shown, by an answer, a replay or an inspection, is
\* the one of the transaction that committed this identity with this payload,
\* and names its activities.
ReceiptsAreTrue ==
    \A t \in told :
        \E x \in commits : x.id = t.id /\ x.payload = t.payload /\ x.acts = t.acts

\* An activity is reversed at most once, by whatever mix of undo and fix, and
\* a reversal is never reversed.
ReversedOnce ==
    \A r, q \in reversals :
        /\ r.reverses = q.reverses => r = q
        /\ r.reverses # q.activity

\* A correction is called done only when the closed days it touched have been
\* rebuilt, on the first answer and on every replay of it.
DoneMeansRebuilt ==
    \A s \in Slots :
        slot[s].pc = "reply" /\ slot[s].answer = "ok" /\ slot[s].plan.cmd.kind = "fix"
            => ~dirty

\* A copy of a change that has been committed is recognised: it is neither
\* refused for its old token, nor called a conflict, nor run again.
CompletedIsKnown ==
    [][\A s \in Slots :
        /\ slot[s].pc = "check" /\ slot'[s].pc # "check"
        /\ \E x \in commits : /\ x.id = slot[s].plan.id /\ x.id # NoId
                               /\ x.payload = slot[s].plan.cmd.payload
        => slot'[s].answer \notin {"stale", "conflict"} /\ slot'[s].pc # "commit"]_vars

\* The receipts implement an identity that is decided once, for one payload.
Decided(i) ==
    IF \E x \in commits : x.id = i
    THEN (CHOOSE x \in commits : x.id = i).payload ELSE "none"
Once == INSTANCE OnceLedger WITH
    Undecided <- "none",
    decided <- [i \in Ids |-> Decided(i)],
    told <- {[id |-> t.id, payload |-> t.payload] : t \in told}
ImplementsOnce == Once!Spec
=============================================================================
