SPECIFICATION FairSpec
CONSTANTS
    MaxRestores = 2
    MaxCrashes = 3
    MaxFaults = 2
INVARIANTS NothingLost OpensWhole CrashesAreRecovered
PROPERTY RestoreSettles
CHECK_DEADLOCK FALSE
