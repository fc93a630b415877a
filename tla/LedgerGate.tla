------------------------------ MODULE LedgerGate ------------------------------
(***************************************************************************)
(* What the write gate promises its callers, without mutexes, condition    *)
(* variables, revisions or epochs: one goroutine at a time is inside, in a *)
(* role; what a guarded writer does is a compare-and-set on the version of *)
(* the database its client last saw; readers and exclusive operations see  *)
(* a database that stands still.                                           *)
(***************************************************************************)
EXTENDS Integers

CONSTANTS Clients, Nobody

VARIABLES owner,   \* [who, role] of the goroutine inside, or Idle
          view,    \* the database version each client last saw
          db       \* the database version

gateVars == <<owner, view, db>>

Idle  == [who |-> Nobody, role |-> "none"]
Roles == {"reader", "writer", "guarded", "exclusive"}

Init ==
    /\ owner = Idle
    /\ view = [c \in Clients |-> 0]
    /\ db = 0

Enter(c, role) ==
    /\ owner = Idle
    /\ owner' = [who |-> c, role |-> role]
    /\ UNCHANGED <<view, db>>

Inside(c, role) == owner = [who |-> c, role |-> role]

Look(c) ==
    /\ Inside(c, "reader")
    /\ view' = [view EXCEPT ![c] = db]
    /\ UNCHANGED <<owner, db>>

Write(c) ==
    /\ Inside(c, "writer")
    /\ db' = db + 1
    /\ UNCHANGED <<owner, view>>

\* The compare-and-set.
CommitGuarded(c) ==
    /\ Inside(c, "guarded")
    /\ view[c] = db
    /\ db' = db + 1
    /\ UNCHANGED <<owner, view>>

\* On its way out a goroutine may hand the current version to its client.
Leave(c) ==
    /\ \E role \in Roles : Inside(c, role)
    /\ owner' = Idle
    /\ view' \in {view, [view EXCEPT ![c] = db]}
    /\ UNCHANGED db

\* A client passes what it saw on to another one.
Adopt(c, from) ==
    /\ view' = [view EXCEPT ![c] = view[from]]
    /\ UNCHANGED <<owner, db>>

\* The process ends, with whatever was inside; only an exclusive operation
\* (a restore) may leave another database behind.
Reset ==
    /\ owner' = Idle
    /\ \/ db' = db
       \/ (\E c \in Clients : Inside(c, "exclusive")) /\ db' = db + 1
    /\ UNCHANGED view

Next ==
    \/ \E c \in Clients :
          \/ \E role \in Roles : Enter(c, role)
          \/ Look(c) \/ Write(c) \/ CommitGuarded(c) \/ Leave(c)
          \/ \E from \in Clients : Adopt(c, from)
    \/ Reset

Spec == Init /\ [][Next]_gateVars
=============================================================================
