SPECIFICATION Spec
CONSTANTS
    Slots = {s1, s2}
    Ids = {i1}
    Commands <- MixedCommands
    MaxHeight = 4
    MaxRevision = 3
    MaxRestarts = 1
SYMMETRY Symmetry
INVARIANTS AtMostOnce ReversedOnce DoneMeansRebuilt
PROPERTIES CompletedIsKnown ImplementsOnce
