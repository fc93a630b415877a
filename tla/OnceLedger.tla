------------------------------ MODULE OnceLedger ------------------------------
(***************************************************************************)
(* What the receipts of internal/application promise the clients, without  *)
(* tables, tokens, slots or restarts: an identity is decided at most once, *)
(* for one payload, and a client is told that its change stands only when  *)
(* its identity was decided for its own payload.                           *)
(***************************************************************************)
CONSTANTS Ids, Payloads, Undecided

VARIABLES decided,   \* the payload an identity was committed with
          told       \* what clients know to be committed: [id, payload]

onceVars == <<decided, told>>

Init ==
    /\ decided = [i \in Ids |-> Undecided]
    /\ told = {}

\* One transaction stores the changes of an identity, the first time.
Decide(i, p) ==
    /\ decided[i] = Undecided
    /\ decided' = [decided EXCEPT ![i] = p]
    /\ UNCHANGED told

Tell(i) ==
    /\ decided[i] # Undecided
    /\ told' = told \union {[id |-> i, payload |-> decided[i]]}
    /\ UNCHANGED decided

Next ==
    \E i \in Ids :
        \/ \E p \in Payloads : Decide(i, p)
        \/ Tell(i)

Spec == Init /\ [][Next]_onceVars
=============================================================================
