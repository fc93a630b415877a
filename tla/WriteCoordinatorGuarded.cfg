SPECIFICATION Spec
CONSTANTS
    Procs = {p1, p2}
    Menu = {"write", "preview", "record", "read", "peek", "configure"}
    MaxRevision = 2
    MaxVersion = 9
    MaxEpoch = 1
    MaxExclusive = 2
    MaxRestarts = 1
    MaxMarket = 1
SYMMETRY Symmetry
INVARIANTS TypeOK GuardedCommit CurrentTokenCertifies
PROPERTIES ImplementsLedgerGate
