CONSTANTS
    Jobs = {j1, j2}
    Writers = {w1}
    Skipped = {}
    MaxChunk = 1
    LastDay = 3
    MaxWrites = 2
    MidnightInWrite = FALSE
SPECIFICATION Spec
SYMMETRY Symmetry
INVARIANTS StaleIsDirty GenerationIsEvidence
PROPERTIES CoverageDelivers
