SPECIFICATION Spec
CONSTANTS
    MaxRestores = 2
    MaxCrashes = 1
    MaxFaults = 0
INVARIANT RotatedBeforeResume
CHECK_DEADLOCK FALSE
