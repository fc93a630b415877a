SPECIFICATION Spec
CONSTANTS
    Assets = {"A"}
    Debts = {"D"}
    Brokers = {"B", "C"}
    Currencies = {"eur", "usd"}
    Base = "eur"
    Home <- MCHome
    Instrument <- MCInstrument
    Quote <- MCQuote
    Opening <- MCOpening
    Menu <- FullMenu
    BatchMenu <- Observing
    LastInstant = 1
    MaxChanges = 3
INVARIANTS CurrentIsReplay HistoryReplays ReversalsCancel EventRowsReplayed
CHECK_DEADLOCK FALSE
