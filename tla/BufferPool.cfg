SPECIFICATION FairSpec
CONSTANTS
    t1 = t1
    t2 = t2
    p1 = p1
    p2 = p2
    p3 = p3
    NoThread = NoThread
    NoPage = NoPage
    Threads <- TwoThreads
    Pages <- ThreePages
    numFrames = 2
    WALPages <- WALPage
    LocksWALPages = TRUE
    ClearsBesideReaders = FALSE
    MaxPins = 4
    MaxWrites = 2
INVARIANTS
    PinnedPagesStay
    PinCountsAreExact
    FramesAreCurrent
    ThrowsOnlyWhenPinned
PROPERTIES
    CallsReturn
CHECK_DEADLOCK FALSE
