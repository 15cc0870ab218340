SPECIFICATION FairSpec
CONSTANTS
    w1 = w1
    w2 = w2
    query = query
    copy = copy
    build = build
    probe = probe
    c1 = c1
    c2 = c2
    NoTask = NoTask
    Workers <- TwoWorkers
    Queries <- OneQuery
    Copies <- NoUsers
    Tasks <- FourTasks
    Plan <- QueryOnly
    maxNumThreads <- Threads
    RunMayThrow <- NoTasks
    FinalizeMayThrow <- OnlyBuild
PROPERTIES
    QueriesComeBack
CHECK_DEADLOCK FALSE
