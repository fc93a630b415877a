SPECIFICATION Spec
CONSTANTS
    Procs = {p1, p2, p3}
    Menu = {"market", "write", "backup", "restore", "shutdown"}
    MaxRevision = 2
    MaxVersion = 9
    MaxEpoch = 2
    MaxExclusive = 3
    MaxRestarts = 0
    MaxMarket = 2
SYMMETRY Symmetry
INVARIANTS MutualExclusion NoLateResult ClosedMeansDrained
PROPERTIES NoWriteAfterFence
CHECK_DEADLOCK FALSE
