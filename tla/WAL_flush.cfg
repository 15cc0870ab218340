SPECIFICATION Spec
CONSTANTS
    p1 = p1
    p2 = p2
    Pages <- TwoPages
    RecordsPerHeaderPage = 5
    MayEvict = FALSE
    UpdatesEvicted = FALSE
    CrashPhases <- InsideFlush
    MaxTransactions = 3
    MaxUpdates = 1
    MaxAuxRecords = 1
    MaxCrashes = 2
SYMMETRY Symmetry
INVARIANTS
    DurableCommitsAreReplayed
CHECK_DEADLOCK FALSE
