SPECIFICATION FairSpec
CONSTANTS
    Procs = {p1, p2, p3}
    Menu = {"market", "peek", "restore", "shutdown"}
    MaxRevision = 1
    MaxVersion = 0
    MaxEpoch = 1
    MaxExclusive = 1
    MaxRestarts = 0
    MaxMarket = 2
PROPERTIES ExclusiveIsGranted RestoreJoinsWorkers ShutdownCompletes ShutdownRefusesWaiters
CHECK_DEADLOCK FALSE
