SPECIFICATION Spec
CONSTANTS
    NULL = NULL
    NodeTableNames = {"a", "b"}
    RelTableNames = {"r"}
    MaxStatements = 4
    MaxCrashes = 2
    GoOnAfterFailure = FALSE
    DropsLeaveGaps = FALSE
    AggThreads = {1, 2}
    AggBatches <- QueryBatches
    AggQueries <- GroupQueries
    AggHash <- KeyHash
    InitialSlots = 4
    ScanCapacity = 2
    JoinThreads = {1, 2}
    JoinPlans <- Joins
    BuildBatches <- BuildOf
    ProbeBatches <- ProbeOf
    JoinHash <- HashOf
    TuplesPerBlock = 2
    MatchCapacity = 2
    CopyFiles <- Files
    BlockBytes = 9
    OverflowBytes = 8
    ShortBytes = 1
    ListChunk = 2
    GroupPages = 1
    PerPage <- PP
    SmallLengths = 4
    SmallOffsets = 16
    BucketNodes = 2
    NumNodesOf <- NN
    SortThreads = {1, 2}
    SortQueries <- Sorts
    KeyBlockTuples = 3
    TableTuples = 2
    MergeBatch = 4
    ScanRows = 3
    ShortChars = 1
    AssertsEnabled = FALSE
    QueryPlans <- Pipelines
    Properties <- Columns
    AdjacencyLists <- Edges
    RelProperties <- EdgeValues
    LargeListLength = 2
    ListElementsPerPage = 2
    VectorCapacity = 3
    Statements <- QueryStatements
    NodeProperties <- NodeValues
    RelTables <- Rels
    MaxPlansPerSubgraph = 6
    MICROS_PER_MSEC = 2
    MSECS_PER_SEC = 2
    SECS_PER_MINUTE = 2
    MINS_PER_HOUR = 2
    HOURS_PER_DAY = 3
    CalendarYears <- Years
    DailyYears = {1599, 1600, 1899, 1900, 1969, 1972, 2000, 2100, 2369, 2370}
    Clocks <- ClockFields
    SomeIntervals <- CalendarIntervals
    Subjects = {"tables", "aggregate", "join", "copy", "order by", "pipeline", "plan", "calendar"}
INVARIANTS
    TablesAreWhole
    GroupsAreRight
    JoinIsComplete
    CopiesAreFaithful
    RowsAreSorted
    ResultsAreRight
    PlansAreRight
    DatesAreRight
CHECK_DEADLOCK FALSE
