CONSTANTS
    Jobs = {j1}
    Writers = {w1}
    Skipped = {}
    MaxChunk = 1
    LastDay = 3
    MaxWrites = 2
    MidnightInWrite = TRUE
SPECIFICATION Spec
PROPERTIES HistoryInvalidates
