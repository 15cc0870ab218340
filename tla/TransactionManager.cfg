SPECIFICATION FairSpec
CONSTANTS
    c1 = c1
    c2 = c2
    c3 = c3
    None = None
    Connections <- TwoConnections
    Writers <- TwoConnections
    MayClose <- TwoConnections
    MaxTransactions = 3
INVARIANTS
    CheckpointExcludesTransactions
    ActiveTransactionsAgree
    SnapshotsAreStable
    RolledBackIsNeverCheckpointed
    CommitIsCheckpointed
PROPERTIES
    HangsOnlyOnMutexes
CHECK_DEADLOCK FALSE
