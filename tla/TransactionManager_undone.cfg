SPECIFICATION Spec
CONSTANTS
    c1 = c1
    c2 = c2
    c3 = c3
    None = None
    Connections <- TwoConnections
    Writers <- TwoConnections
    MayClose <- TwoConnections
    MaxTransactions = 3
INVARIANTS
    UndoneIsNeverCheckpointed
CHECK_DEADLOCK FALSE
