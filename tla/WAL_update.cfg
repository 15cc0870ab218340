SPECIFICATION Spec
CONSTANTS
    p1 = p1
    p2 = p2
    Pages <- TwoPages
    RecordsPerHeaderPage = 5
    MayEvict = TRUE
    UpdatesEvicted = TRUE
    CrashPhases <- Never
    MaxTransactions = 3
    MaxUpdates = 2
    MaxAuxRecords = 1
    MaxCrashes = 0
SYMMETRY Symmetry
INVARIANTS
    CommitsAreCheckpointed
CHECK_DEADLOCK FALSE
