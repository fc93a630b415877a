--------------------------- MODULE ActivityLedger ---------------------------
(***************************************************************************)
(* The activity ledger: changes are recorded now, back-dated, recorded in  *)
(* batches, undone and fixed.  The rows of activities and activity_effects *)
(* are never rewritten; balances are derived from them by replaying the    *)
(* economic timeline from the Starting point.  Three things are stored     *)
(* beside the facts and have to stay in step with the replay: the current  *)
(* value of every endpoint, one event row per effect with the balance      *)
(* after it, and the absolute target of every value update, whose recorded *)
(* delta goes stale when an earlier fact changes.                          *)
(*                                                                         *)
(* Every action is one locked service call: the write gate serialises them *)
(* (module WriteCoordinator) and its transaction is atomic.  Amounts are   *)
(* small integers, instants are small naturals, the Starting point is at   *)
(* instant 0.  Accounts and holdings are active and already exist.         *)
(***************************************************************************)
EXTENDS Integers, Sequences, FiniteSets, FiniteSetsExt

CONSTANTS
    Assets,        \* accounts that track one value and are not liabilities
    Debts,         \* liability accounts, which track one value
    Brokers,       \* accounts that track holdings and cash per currency
    Currencies,
    Base,          \* the currency of every value account
    Home,          \* [holding -> its broker account]
    Instrument,    \* [holding -> its instrument]
    Quote,         \* [holding -> the quote currency of its instrument]
    Opening,       \* [endpoint -> amount]: the components of the Starting point
    Menu,          \* commands the user may enter
    BatchMenu,     \* commands the user may enter in a batch
    LastInstant,   \* bound on the clock
    MaxChanges     \* bound on the number of changes, a fix counted as one

Holdings == DOMAIN Home
Accounts == Assets \cup Debts \cup Brokers

(***************************************************************************)
(* Endpoints and effects                                                   *)
(***************************************************************************)

Value(a) == <<"value", a>>
Cash(a, cur) == <<"cash", a, cur>>
Quantity(h) == <<"quantity", h>>
Cost(h) == <<"cost", h>>

\* The endpoints that carry a balance; a cost effect has none.
Endpoints == {Value(a) : a \in Assets \cup Debts}
             \cup {Cash(a, cur) : a \in Brokers, cur \in Currencies}
             \cup {Quantity(h) : h \in Holdings}

IsMoney(e) == e[1] \in {"value", "cash"}
CurrencyOf(e) == IF e[1] = "cash" THEN e[3] ELSE Base

\* accountTarget: an account's money is its value, or cash per currency.
accountTarget(a, cur) == IF a \in Brokers THEN Cash(a, cur) ELSE Value(a)

Effect(role, on, by) == [role |-> role, on |-> on, by |-> by]
NoFee == -1                 \* a command without a fee; 0 is an explicit zero
FeeEffect(on, fee) == IF fee > 0 THEN <<Effect("fee", on, -fee)>> ELSE <<>>
Touched(effects) == {effects[n].on : n \in DOMAIN effects} \cap Endpoints

AddEffect(bal, x) == IF x.on \in Endpoints THEN [bal EXCEPT ![x.on] = @ + x.by] ELSE bal

\* [n -> the balances bal after the first n effects].
Running(bal, effects) ==
    LET run[n \in 0..Len(effects)] == IF n = 0 THEN bal ELSE AddEffect(run[n - 1], effects[n])
    IN  run

Applied(bal, effects) == Running(bal, effects)[Len(effects)]

\* ApplyEffects refuses a negative balance and a cost without a quantity, at
\* every effect of the list.
CanApply(bal, effects) ==
    \A n \in DOMAIN effects :
        LET x == effects[n]
            after == Running(bal, effects)[n]
        IN  IF x.on \in Endpoints THEN after[x.on] >= 0
            ELSE after[Quantity(x.on[2])] > 0

InverseOf(effects) ==
    [n \in DOMAIN effects |-> [effects[Len(effects) + 1 - n] EXCEPT !.by = -@]]

(***************************************************************************)
(* The commands, by the fields of their inputs                             *)
(***************************************************************************)

Commands ==
    [kind : {"money"}, account : Accounts, currency : Currencies, amount : Int, added : BOOLEAN,
     reason : STRING]
    \cup [kind : {"cash_dividend"}, holding : Holdings, currency : Currencies, amount : Int]
    \cup [kind : {"cash_transfer"}, from : Accounts, to : Accounts, sent : Int, sentIn : Currencies,
          received : Int, receivedIn : Currencies, fee : Int, feeIn : Currencies]
    \cup [kind : {"fx_conversion"}, account : Accounts, sold : Int, soldIn : Currencies,
          bought : Int, boughtIn : Currencies, fee : Int]
    \cup [kind : {"position_transfer"}, from : Holdings, to : Holdings, quantity : Int]
    \cup [kind : {"position_adjustment"}, holding : Holdings, quantity : Int, added : BOOLEAN,
          unitCost : BOOLEAN]
    \cup [kind : {"cost_adjustment"}, holding : Holdings]
    \cup [kind : {"trade"}, side : STRING, account : Accounts, holding : Holdings, quantity : Int,
          gross : Int, currency : Currencies, fee : Int]
    \cup [kind : {"value_update"}, account : Accounts, value : Int]
    \cup [kind : {"debt_draw", "debt_payment"}, debt : Accounts, cash : Accounts, principal : Int,
          currency : Currencies, fee : Int]

\* Commands and the Starting point name accounts, currencies and holdings that
\* exist, and a holding belongs to an account that tracks holdings.
ASSUME LedgerAssumption ==
    /\ Menu \subseteq Commands /\ BatchMenu \subseteq Commands
    /\ Home \in [Holdings -> Brokers]
    /\ Opening \in [Endpoints -> Int]
    /\ LastInstant \in Nat /\ MaxChanges \in Nat

(***************************************************************************)
(* A builder yields the set of effect lists it accepts: one list, or none  *)
(* when a rule of the command rejects it.                                  *)
(***************************************************************************)

When(guard, effects) == IF guard THEN {effects} ELSE {}

buildMoneyChange(c) ==
    LET card == c.reason \in {"card_purchase", "card_refund"}
        usual == IF c.added
                 THEN {"income", "interest", "contribution", "gift", "other", "reconciliation"}
                      \cup (IF c.account \in Debts THEN {"fee"} ELSE {})
                 ELSE {"expense", "fee", "tax", "interest", "other", "reconciliation"}
    IN  When(/\ IF card
                THEN c.account \in Debts /\ (c.reason = "card_purchase") = c.added
                ELSE c.reason \in usual
             /\ c.amount > 0
             /\ c.account \in Brokers \/ c.currency = Base,
             <<Effect("amount", accountTarget(c.account, c.currency),
                      IF c.added THEN c.amount ELSE -c.amount)>>)

buildCashDividend(c) ==
    When(c.amount > 0, <<Effect("amount", Cash(Home[c.holding], c.currency), c.amount)>>)

buildCashTransfer(c) ==
    LET from == accountTarget(c.from, c.sentIn)
        to == accountTarget(c.to, c.receivedIn)
    IN  When(/\ c.from \notin Debts /\ c.to \notin Debts /\ c.from # c.to
             /\ c.sent > 0 /\ c.received > 0
             /\ c.sentIn = c.receivedIn => c.sent = c.received
             /\ c.fee # 0 /\ (c.fee # NoFee => c.feeIn = c.sentIn)
             /\ CurrencyOf(from) = c.sentIn /\ CurrencyOf(to) = c.receivedIn,
             <<Effect("transfer_from", from, -c.sent), Effect("transfer_to", to, c.received)>>
             \o FeeEffect(from, c.fee))

buildFXConversion(c) ==
    When(/\ c.account \in Brokers
         /\ c.sold > 0 /\ c.bought > 0
         /\ c.soldIn # c.boughtIn
         /\ c.fee # 0,
         <<Effect("transfer_from", Cash(c.account, c.soldIn), -c.sold),
           Effect("transfer_to", Cash(c.account, c.boughtIn), c.bought)>>
         \o FeeEffect(Cash(c.account, c.soldIn), c.fee))

buildPositionTransfer(c) ==
    When(/\ c.from # c.to
         /\ Home[c.from] # Home[c.to]
         /\ Instrument[c.from] = Instrument[c.to]
         /\ c.quantity > 0,
         <<Effect("transfer_from", Quantity(c.from), -c.quantity),
           Effect("transfer_to", Quantity(c.to), c.quantity)>>)

\* The state a command is built from never says that a cost basis is known, so
\* an addition always needs its own unit cost.
buildPositionAdjustment(c) ==
    When(c.quantity > 0 /\ (c.added => c.unitCost),
         <<Effect("quantity", Quantity(c.holding),
                  IF c.added THEN c.quantity ELSE -c.quantity)>>)

\* The positive quantity it asks for is CanApply's rule for a cost effect.
buildPositionCostAdjustment(c) ==
    {<<Effect("cost", Cost(c.holding), 0)>>}

buildTrade(c) ==
    LET sign == IF c.side = "buy" THEN 1 ELSE -1
        cash == Cash(c.account, c.currency)
    IN  When(/\ c.side \in {"buy", "sell"}
             /\ c.account \in Brokers /\ Home[c.holding] = c.account
             /\ c.quantity > 0 /\ c.gross > 0
             /\ c.currency = Quote[c.holding],
             <<Effect("quantity", Quantity(c.holding), sign * c.quantity),
               Effect("principal", cash, -sign * c.gross)>>
             \o FeeEffect(cash, c.fee))

\* A new observation must change the value; the correction of an old one need
\* not (allowZero).
buildValueUpdateWithZero(bal, c, allowZero) ==
    LET delta == c.value - bal[Value(c.account)]
    IN  When(c.account \notin Brokers /\ (delta # 0 \/ allowZero),
             <<Effect("amount", Value(c.account), delta)>>)

validateDebtEndpoints(c) ==
    /\ c.debt \in Debts /\ c.cash \notin Debts
    /\ c.currency = Base
    /\ c.principal > 0

buildDebtDraw(c) ==
    When(validateDebtEndpoints(c),
         <<Effect("debt", Value(c.debt), c.principal),
           Effect("principal", accountTarget(c.cash, c.currency), c.principal)>>)

buildDebtPayment(c) ==
    LET cash == accountTarget(c.cash, c.currency)
    IN  When(validateDebtEndpoints(c),
             <<Effect("debt", Value(c.debt), -c.principal),
               Effect("principal", cash, -c.principal)>>
             \o FeeEffect(cash, c.fee))

\* The effect lists a command may record on top of the balances bal.
PreviewChange(bal, c, allowZero) ==
    {effects \in CASE c.kind = "money" -> buildMoneyChange(c)
                   [] c.kind = "cash_dividend" -> buildCashDividend(c)
                   [] c.kind = "cash_transfer" -> buildCashTransfer(c)
                   [] c.kind = "fx_conversion" -> buildFXConversion(c)
                   [] c.kind = "position_transfer" -> buildPositionTransfer(c)
                   [] c.kind = "position_adjustment" -> buildPositionAdjustment(c)
                   [] c.kind = "cost_adjustment" -> buildPositionCostAdjustment(c)
                   [] c.kind = "trade" -> buildTrade(c)
                   [] c.kind = "value_update" -> buildValueUpdateWithZero(bal, c, allowZero)
                   [] c.kind = "debt_draw" -> buildDebtDraw(c)
                   [] c.kind = "debt_payment" -> buildDebtPayment(c) :
        CanApply(bal, effects)}

(***************************************************************************)
(* The ledger                                                              *)
(***************************************************************************)

VARIABLES
    acts,      \* the activities in commit order, with their recorded effects
    event,     \* [activity -> [endpoint -> balance]]: its event rows
    current,   \* [endpoint -> balance]: the latest replay row
    now        \* the service's clock

vars == <<acts, event, current, now>>

None == 0      \* no activity

\* An activity: its kind, its effective instant, the instant and the identity
\* that order it in the timeline, its recorded effects, the activity it
\* reverses, the activity it replaces, and whether it belongs to a fix.
Activity(kind, at, made, order, effects, reverses, replaces, fix) ==
    [kind |-> kind, at |-> at, made |-> made, order |-> order, eff |-> effects,
     reverses |-> reverses, replaces |-> replaces, fix |-> fix]

Init ==
    /\ acts = <<>>
    /\ event = <<>>
    /\ current = Opening
    /\ now = 0

\* The economic timeline: the inverse of a fix and the original it replaced are
\* out, and the replacement stands where its original stood.
Economic(history, i) ==
    /\ ~(history[i].fix /\ history[i].reverses # None)
    /\ \A j \in DOMAIN history : history[j].replaces # i

Precedes(a, b) ==
    \/ a.at < b.at
    \/ a.at = b.at /\ a.made < b.made
    \/ a.at = b.at /\ a.made = b.made /\ a.order < b.order

\* An entry of the timeline: the activity, its identity and what its event rows
\* say (the absolute target, for a value update).
Entry(id, a, seen) ==
    [id |-> id, seen |-> seen, kind |-> a.kind, at |-> a.at, made |-> a.made,
     order |-> a.order, eff |-> a.eff, reverses |-> a.reverses]

\* The timeline of a history with these event rows: the activity with n - 1
\* predecessors is its entry n.
Ranked(history, ids, n) ==
    CHOOSE i \in ids : Cardinality({j \in ids : Precedes(history[j], history[i])}) = n - 1
TimelineOf(history, rows) ==
    LET ids == {i \in DOMAIN history : Economic(history, i)}
    IN  [n \in 1..Cardinality(ids) |->
            LET i == Ranked(history, ids, n) IN Entry(i, history[i], rows[i])]

Timeline == TimelineOf(acts, event)

\* Mutant of Mirrored: a reversal keeps the magnitude it was recorded with.
MutantMirrored(x, original) == x

\* What a reversal undoes today: the magnitude its original has in this replay.
Mirrored(x, original) ==
    LET same == {n \in DOMAIN original : original[n].on = x.on /\ original[n].role = x.role}
    IN  IF same = {} THEN x ELSE [x EXCEPT !.by = -original[Min(same)].by]

\* The effects that are left when money that does not move is dropped.
Nth(positions, m) == CHOOSE n \in positions : Cardinality({k \in positions : k < n}) = m - 1
Effective(effects) ==
    LET kept == {n \in DOMAIN effects : IsMoney(effects[n].on) => effects[n].by # 0}
    IN  [m \in 1..Cardinality(kept) |-> effects[Nth(kept, m)]]

\* The effects of entry n of the timeline line, after a replay of the entries
\* before it that gave the effects eff and the balances bal.
Derived(line, n, eff, bal) ==
    LET a == line[n]
        originals == {m \in 1..n - 1 : line[m].id = a.reverses}
        undone == eff[Min(originals)]
    IN  Effective(IF originals # {}
                  THEN IF undone = <<>> THEN <<>>
                       ELSE [m \in DOMAIN a.eff |-> Mirrored(a.eff[m], undone)]
                  ELSE IF a.kind = "value_update"
                  THEN [m \in DOMAIN a.eff |->
                           [a.eff[m] EXCEPT !.by = a.seen[a.eff[m].on] - bal[a.eff[m].on]]]
                  ELSE a.eff)

ReplayStep(line, n, done) ==
    LET effects == Derived(line, n, done.eff, done.bal)
    IN  [eff |-> Append(done.eff, effects), bal |-> Applied(done.bal, effects)]

\* [n -> effects and balances after the replay of the first n entries of line].
Replayed(line) ==
    LET run[n \in 0..Len(line)] ==
            IF n = 0 THEN [eff |-> <<>>, bal |-> Opening] ELSE ReplayStep(line, n, run[n - 1])
    IN  run

\* The effects of every entry of the timeline line in this replay of it.
ReplayMoneyEffects(line) == Replayed(line)[Len(line)].eff

\* [n -> the balances after the first n entries of a replayed timeline].
Balances(eff) ==
    LET run[n \in 0..Len(eff)] == IF n = 0 THEN Opening ELSE Applied(run[n - 1], eff[n])
    IN  run

BalanceAfter(eff, n) == Balances(eff)[n]

Replays(eff) == \A n \in DOMAIN eff : CanApply(BalanceAfter(eff, n - 1), eff[n])

Final(eff) == BalanceAfter(eff, Len(eff))

\* Mutant of Slot: the new activity goes in front of those of its own instant.
MutantSlot(line, at, made) ==
    Cardinality({n \in DOMAIN line : line[n].at < at})

\* The entries that stay before an activity placed at (at, made).
Slot(line, at, made) ==
    Cardinality({n \in DOMAIN line : line[n].at < at \/ (line[n].at = at /\ line[n].made <= made)})

Placed(line, n, a) ==
    [m \in 1..Len(line) + 1 |->
        IF m <= n THEN line[m] ELSE IF m = n + 1 THEN a ELSE line[m - 1]]

\* The rows a replay writes for one entry: the balances after it, or nothing
\* when the replay left it without effects.  The undo path alone falls back on
\* the endpoints the entry recorded.
Projection(line, eff, n, undo) ==
    LET shown == IF undo /\ eff[n] = <<>> THEN line[n].eff ELSE eff[n]
    IN  [e \in Touched(shown) |-> BalanceAfter(eff, n)[e]]

\* Stored rows, overwritten by new ones.
Over(new, old) ==
    [e \in DOMAIN new \cup DOMAIN old |-> IF e \in DOMAIN new THEN new[e] ELSE old[e]]

\* Mutant of Rebuilt: the replay starts behind the activity it was made for.
MutantRebuilt(rows, line, eff, from, undo) ==
    [i \in DOMAIN rows |->
        LET here == {n \in DOMAIN line : n > from + 1 /\ line[n].id = i}
            n == Min(here)
        IN  IF here = {} \/ (line[n].kind = "value_update" /\ eff[n] = <<>>)
            THEN rows[i]
            ELSE Over(Projection(line, eff, n, undo), rows[i])]

\* rebuildActivityProjectionTx, for the entries of line after the first from: a
\* value update without effects keeps its target.
Rebuilt(rows, line, eff, from, undo) ==
    [i \in DOMAIN rows |->
        LET here == {n \in DOMAIN line : n > from /\ line[n].id = i}
            n == Min(here)
        IN  IF here = {} \/ (line[n].kind = "value_update" /\ eff[n] = <<>>)
            THEN rows[i]
            ELSE Over(Projection(line, eff, n, undo), rows[i])]

\* commitActivityTx: an event row and the new current value of every endpoint
\* the new effects touch, from the balances bal.
Rows(bal, effects) == [e \in Touched(effects) |-> bal[e]]
Refreshed(bal, touched) == [e \in Endpoints |-> IF e \in touched THEN bal[e] ELSE current[e]]

NewId == Len(acts) + 1

\* The bound on the history: room for k more changes.
Room(k) == Cardinality({i \in DOMAIN acts : acts[i].reverses = None \/ ~acts[i].fix}) + k <= MaxChanges

(***************************************************************************)
(* Operations                                                              *)
(***************************************************************************)

TargetOf(c) == IF c.kind = "value_update" THEN [e \in {Value(c.account)} |-> c.value] ELSE <<>>

\* RecordChange at the present instant: no replay.
RecordNow(c) ==
    /\ Room(1)
    /\ \E effects \in PreviewChange(current, c, FALSE) :
        LET after == Applied(current, effects)
        IN  /\ acts' = Append(acts, Activity(c.kind, now, now, NewId, effects, None, None, FALSE))
            /\ event' = Append(event, Rows(after, effects))
            /\ current' = Refreshed(after, Touched(effects))
    /\ UNCHANGED now

\* RecordChange at an earlier instant: the command is built on the balances of
\* its date, and every later activity has to survive the replay.
RecordEarlier(c, at) ==
    /\ Room(1)
    /\ at < now
    /\ LET line == Timeline
           n == Slot(line, at, now)
           before == BalanceAfter(ReplayMoneyEffects(line), n)
       IN  \E effects \in PreviewChange(before, c, FALSE) :
            LET a == Activity(c.kind, at, now, NewId, effects, None, None, FALSE)
                new == Placed(line, n, Entry(NewId, a, TargetOf(c)))
                eff == ReplayMoneyEffects(new)
                final == Final(eff)
            IN  /\ Replays(eff)
                /\ acts' = Append(acts, a)
                /\ event' = Rebuilt(Append(event, Rows(final, effects)), new, eff, n, FALSE)
                /\ current' = Refreshed(final, Touched(effects))
    /\ UNCHANGED now

\* One command of a batch placed into the timeline the earlier ones left.
Staged(line, id, c, at) ==
    LET n == Slot(line, at, now)
        before == BalanceAfter(ReplayMoneyEffects(line), n)
    IN  {Placed(line, n, Entry(id, Activity(c.kind, at, now, id, effects, None, None, FALSE), TargetOf(c))) :
            effects \in PreviewChange(before, c, FALSE)}

\* RecordChanges: two commands in the order of their instants, one transaction.
\* All event rows are rebuilt, and the replayed effects are the ones recorded.
RecordBatch(c, at, d, dat) ==
    /\ Room(2)
    /\ at <= dat /\ dat <= now
    /\ \E first \in Staged(Timeline, NewId, c, at) :
       \E line \in Staged(first, NewId + 1, d, dat) :
        LET eff == ReplayMoneyEffects(line)
            final == Final(eff)
            Recorded(id) == eff[CHOOSE n \in DOMAIN line : line[n].id = id]
            one == Recorded(NewId)
            two == Recorded(NewId + 1)
        IN  /\ Replays(eff)
            /\ one # <<>> /\ two # <<>>
            /\ acts' = acts \o <<Activity(c.kind, at, now, NewId, one, None, None, FALSE),
                                 Activity(d.kind, dat, now, NewId + 1, two, None, None, FALSE)>>
            /\ event' = Rebuilt(event \o <<Rows(final, one), Rows(final, two)>>, line, eff, 0, FALSE)
            /\ current' = Refreshed(final, Touched(one) \cup Touched(two))
    /\ UNCHANGED now

HasReversal(i) == \E j \in DOMAIN acts : acts[j].reverses = i

\* rejectDependentHoldingUndo: a later quantity or cost of the same holding.
Dependent(eff, n) ==
    \E h \in Holdings :
        /\ Quantity(h) \in Touched(eff[n])
        /\ \E m \in n + 1..Len(eff) :
            \E k \in DOMAIN eff[m] : eff[m][k].on \in {Quantity(h), Cost(h)}

\* Mutant of Undoable: the undo takes back the recorded delta.
MutantUndoable(a, effects) == a.eff

\* What an undo takes back: the replayed effects, or a zero remeasurement when
\* the value update no longer changes anything.
Undoable(a, effects) ==
    IF effects = <<>> /\ a.kind = "value_update"
    THEN [n \in DOMAIN a.eff |-> [a.eff[n] EXCEPT !.by = 0]]
    ELSE effects

UndoChange(i, at) ==
    /\ Room(1)
    /\ acts[i].reverses = None /\ ~HasReversal(i)
    /\ acts[i].kind # "cost_adjustment"
    /\ acts[i].at <= at /\ at <= now
    /\ LET line == Timeline
           eff == ReplayMoneyEffects(line)
           k == CHOOSE n \in DOMAIN line : line[n].id = i
           n == Cardinality({m \in DOMAIN line : line[m].at <= at})
           inverse == InverseOf(Undoable(line[k], eff[k]))
           before == IF n < Len(line) THEN BalanceAfter(eff, n) ELSE current
           a == Activity("reversal", at, now, NewId, inverse, i, None, FALSE)
           new == Placed(line, n, Entry(NewId, a, <<>>))
           neff == ReplayMoneyEffects(new)
           final == Final(neff)
           after == Applied(before, inverse)
       IN  /\ ~Dependent(eff, k)
           /\ CanApply(before, inverse)
           /\ acts' = Append(acts, a)
           /\ IF n < Len(line)
              THEN /\ Replays(neff)
                   /\ event' = Rebuilt(Append(event, Rows(final, inverse)), new, neff, n, TRUE)
                   /\ current' = Refreshed(final, Touched(inverse))
              ELSE /\ event' = Append(event, Rows(after, inverse))
                   /\ current' = Refreshed(after, Touched(inverse))
    /\ UNCHANGED now

\* correctionTransferFee: a corrected transfer without a fee keeps the recorded
\* one, an explicit zero clears it.
correctionTransferFee(c, a, effects) ==
    LET fees == {n \in DOMAIN effects : effects[n].role = "fee"}
        fee == effects[Min(fees)]
    IN  IF c.kind # "cash_transfer" \/ a.kind # "cash_transfer" THEN c
        ELSE IF c.fee = 0 /\ c.feeIn = c.sentIn THEN [c EXCEPT !.fee = NoFee]
        ELSE IF c.fee = NoFee /\ fees # {}
        THEN [c EXCEPT !.fee = -fee.by, !.feeIn = CurrencyOf(fee.on)]
        ELSE c

\* FixChange: the replacement takes the original's place in the timeline, every
\* later activity has to survive, and an inverse of the recorded effects is kept
\* as evidence only.
FixChange(i, c) ==
    /\ Room(1)
    /\ acts[i].reverses = None /\ ~HasReversal(i)
    /\ acts[i].kind # "cost_adjustment"
    /\ LET line == Timeline
           eff == ReplayMoneyEffects(line)
           k == CHOOSE n \in DOMAIN line : line[n].id = i
           o == line[k]
           command == correctionTransferFee(c, o, eff[k])
           inverse == InverseOf(acts[i].eff)
           id == NewId + 1
       IN  \E effects \in PreviewChange(BalanceAfter(eff, k - 1), command,
                                        o.kind = "value_update") :
            LET a == Activity(c.kind, o.at, o.made, o.order, effects, None, i, TRUE)
                new == [line EXCEPT ![k] = Entry(id, a, TargetOf(c))]
                neff == ReplayMoneyEffects(new)
                final == Final(neff)
                rows == event \o <<Rows(final, inverse), Over(TargetOf(c), Rows(final, effects))>>
            IN  /\ Replays(neff)
                /\ acts' = acts \o <<Activity("reversal", o.at, now, NewId, inverse, i, None, TRUE), a>>
                /\ event' = Rebuilt(rows, new, neff, k - 1, FALSE)
                /\ current' = Refreshed(final, Touched(inverse) \cup Touched(effects))
    /\ UNCHANGED now

\* RebuildDerivedData: the whole history again, in one transaction.  The target
\* of a value update is kept.
RebuildDerivedData ==
    LET line == Timeline
        eff == ReplayMoneyEffects(line)
    IN  /\ Replays(eff)
        /\ UNCHANGED <<acts, now>>
        /\ event' = [i \in DOMAIN event |->
                        IF acts[i].kind = "value_update" THEN event[i]
                        ELSE Rebuilt(event, line, eff, 0, FALSE)[i]]
        /\ current' = Final(eff)

\* The clock moves on between two calls.
Tick ==
    /\ now < LastInstant
    /\ now' = now + 1
    /\ UNCHANGED <<acts, event, current>>

Next ==
    \/ \E c \in Menu : RecordNow(c)
    \/ \E c \in Menu, at \in 0..LastInstant : RecordEarlier(c, at)
    \/ \E c, d \in BatchMenu, at, dat \in 0..LastInstant : RecordBatch(c, at, d, dat)
    \/ \E i \in DOMAIN acts, at \in 0..LastInstant : UndoChange(i, at)
    \/ \E i \in DOMAIN acts, c \in Menu : FixChange(i, c)
    \/ RebuildDerivedData
    \/ Tick

Spec == Init /\ [][Next]_vars

(***************************************************************************)
(* Properties                                                              *)
(***************************************************************************)

\* The stored current values are what a replay of the whole history from the
\* Starting point yields, whatever was back-dated, undone or fixed in between
\* (commitActivityTx refreshes only the endpoints of the new effects; the next
\* change at the present instant is built on these values without a replay).
CurrentIsReplay ==
    current = Final(ReplayMoneyEffects(Timeline))

\* The history can always be replayed: no prefix of the economic timeline takes
\* a balance or a quantity below zero or adjusts the cost of an empty holding.
\* Otherwise every later back-dated change, fix and rebuild would be refused.
HistoryReplays ==
    Replays(ReplayMoneyEffects(Timeline))

\* An undone change contributes nothing: in every replay the reversal takes back
\* exactly what its original contributes in that replay, also after an earlier
\* fact changed the delta of an undone value update (ReplayMoneyEffects).
ReversalsCancel ==
    LET line == Timeline
        eff == ReplayMoneyEffects(line)
    IN  \A n \in DOMAIN line : line[n].reverses # None =>
            \E m \in 1..n - 1 : line[m].id = line[n].reverses /\ eff[n] = InverseOf(eff[m])

RowsAreBalances(line, eff, n) ==
    \A e \in DOMAIN event[line[n].id] :
        event[line[n].id][e] = BalanceAfter(eff, n)[e]

\* The event rows of every activity that still has an economic effect, and of
\* every value update, hold the balances after it (rebuildActivityProjectionTx
\* on the back-dating, batch, undo and fix paths).
EventRowsReplayed ==
    LET line == Timeline
        eff == ReplayMoneyEffects(line)
    IN  \A n \in DOMAIN line :
            eff[n] # <<>> \/ line[n].kind = "value_update"
                => RowsAreBalances(line, eff, n)

\* What the comment over rebuildActivityProjectionTx says of all event rows:
\* they are derived balances that the replay updates.
EventRowsMatch ==
    LET line == Timeline
        eff == ReplayMoneyEffects(line)
    IN  \A n \in DOMAIN line : RowsAreBalances(line, eff, n)

=============================================================================
