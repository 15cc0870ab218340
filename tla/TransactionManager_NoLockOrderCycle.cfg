SPECIFICATION Spec
CONSTANTS
    c1 = c1
    c2 = c2
    c3 = c3
    None = None
    Connections <- TwoConnections
    Writers <- TwoConnections
    MayClose <- NoConnection
    MaxTransactions = 3
SYMMETRY Symmetry
INVARIANTS
    NoLockOrderCycle
CHECK_DEADLOCK FALSE
