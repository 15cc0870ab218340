SPECIFICATION Spec
CONSTANTS
    NumArrays = 2
    ElementsPerPage = 1
    PageIdxsPerPIP = 2
    InitialElements = {0, 2}
    MaxElements = 3
    MaxPages = 12
    MaxArrayTransactions = 3
    RollbackShared = FALSE
    ChunkSize = 2
    ListPageSize = 3
    PageListGroupSize = 1
    LenModulus = 3
    LengthsAreCut = FALSE
    PropertyKeys = {1, 2}
    PropertySizes = {1, 2}
    InitialNodes = 2
    MaxNodes = 3
    MaxListOps = 2
    MaxListTransactions = 2
    MorselSize = 2
    OffsetModulus = 16
    CopiedNodes = {3}
    NodesWithEdges = {1}
    ScanWorkers = {1, 2}
    MaxMaskers = 1
    MaxOffset = 3
    MaxNodeTransactions = 2
    MayInsertIntoEmpty = FALSE
    ErasedKeyIsKept = TRUE
    CellsPerPage = 3
    NullEntryBits = 2
    OverflowPageSize = 4
    ShortLength = 1
    ElementSize = 2
    StringLengths = {2, 4}
    ListLengths <- CopiedLists
    NumNodes = 4
    FramesAreReused = FALSE
    MaxColumnWrites = 2
    MaxColumnTransactions = 2
    SlotCapacity = 2
    SlotsPerPage = 4
    MapperCapacity = 1
    CopyThreads = {1, 2}
    IndexKeys = {0, 2, 4, 8}
    NumRows = 3
    MaxLocalOps = 5
    StringKeys = FALSE
    DeletedKeysReturn = FALSE
    Subjects = {"arrays", "lists", "nodes", "column", "index"}
INVARIANTS
    NothingIsLeft
    ReadersSeeCommittedLists
    ListsCanBeWritten
    ScansReturnLiveNodes
    ColumnsReturnValues
    KeysLeadToTheirNode
    WriterSeesItsKeys
PROPERTIES
    IsATransactionalArray
CHECK_DEADLOCK FALSE
