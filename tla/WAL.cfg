SPECIFICATION FairSpec
CONSTANTS
    p1 = p1
    p2 = p2
    Pages <- TwoPages
    RecordsPerHeaderPage = 2
    MayEvict = TRUE
    UpdatesEvicted = FALSE
    CrashPhases <- Anywhere
    MaxTransactions = 3
    MaxUpdates = 2
    MaxAuxRecords = 2
    MaxCrashes = 2
INVARIANTS
    FilesAreCommitted
    ReplayMeetsTheLog
    NothingUncommittedIsWritten
    VersionsAreReadable
PROPERTIES
    Reopens
    IsADurableStore
CHECK_DEADLOCK FALSE
