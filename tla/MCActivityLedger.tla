------------------------- MODULE MCActivityLedger -------------------------
EXTENDS ActivityLedger

MCHome == [h |-> "B", k |-> "C"]
MCInstrument == [h |-> "fund", k |-> "fund"]
MCQuote == [h |-> "eur", k |-> "eur"]
MCOpening ==
    [e \in Endpoints |->
        CASE e = Value("A") -> 2 [] e = Cash("B", "eur") -> 2 [] e = Quantity("h") -> 1 [] OTHER -> 0]

Money(account, amount, added, reason) ==
    [kind |-> "money", account |-> account, currency |-> "eur", amount |-> amount,
     added |-> added, reason |-> reason]
Update(account, value) == [kind |-> "value_update", account |-> account, value |-> value]
Transfer(from, to, amount, fee) ==
    [kind |-> "cash_transfer", from |-> from, to |-> to, sent |-> amount, sentIn |-> "eur",
     received |-> amount, receivedIn |-> "eur", fee |-> fee, feeIn |-> "eur"]
Trade(side, quantity, gross, fee) ==
    [kind |-> "trade", side |-> side, account |-> "B", holding |-> "h", quantity |-> quantity,
     gross |-> gross, currency |-> "eur", fee |-> fee]
Debt(kind, principal, fee) ==
    [kind |-> kind, debt |-> "D", cash |-> "A", principal |-> principal, currency |-> "eur", fee |-> fee]

\* Value updates and money around them, on one account.
Observing == {Update("A", 3), Update("A", 1), Money("A", 1, TRUE, "income"),
              Money("A", 2, FALSE, "expense")}
Moving == {Transfer("A", "B", 1, 1), Transfer("A", "B", 1, NoFee),
           [kind |-> "fx_conversion", account |-> "B", sold |-> 1, soldIn |-> "eur",
            bought |-> 2, boughtIn |-> "usd", fee |-> NoFee]}
Investing == {Trade("buy", 1, 1, NoFee), Trade("sell", 1, 2, 1),
              [kind |-> "position_transfer", from |-> "h", to |-> "k", quantity |-> 1],
              [kind |-> "position_adjustment", holding |-> "h", quantity |-> 1, added |-> FALSE,
               unitCost |-> FALSE],
              [kind |-> "cost_adjustment", holding |-> "h"],
              [kind |-> "cash_dividend", holding |-> "h", currency |-> "eur", amount |-> 1]}
Borrowing == {Debt("debt_draw", 1, NoFee), Debt("debt_payment", 1, 1),
              Money("D", 1, TRUE, "card_purchase")}

FullMenu == Observing \cup Moving \cup Investing \cup Borrowing
=============================================================================
