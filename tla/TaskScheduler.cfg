SPECIFICATION FairSpec
CONSTANTS
    w1 = w1
    w2 = w2
    query = query
    copy = copy
    build = build
    probe = probe
    c1 = c1
    c2 = c2
    NoTask = NoTask
    Workers <- TwoWorkers
    Queries <- OneQuery
    Copies <- OneCopy
    Tasks <- FourTasks
    Plan <- QueryAndCopy
    maxNumThreads <- Threads
    RunMayThrow <- FourTasks
    FinalizeMayThrow <- OnlyBuild
INVARIANTS
    FinalizeIsLast
    QueriesGetTheirOutcome
    QueriesLeaveNoWorker
    CopiesAreComplete
    DependenciesFirst
PROPERTIES
    UsersComeBack
    WorkersExit
CHECK_DEADLOCK FALSE
