SPECIFICATION Spec
CONSTANTS
    o1 = o1
    o2 = o2
    s1 = s1
    s2 = s2
    Orders = {o1, o2}
    Skus = {s1, s2}
    ItemsOf <- MCItemsOf
    Quantity <- MCQuantity
    InitialStock <- MCInitialStock
    StockSettings = {0}
    Deltas <- MCDeltas
    AdminLimit = 1
    MaxStock = 3
    a = a
    b = b
    c = c
    SessionsOf <- MCSessionsOf
    NoTx = NoTx
SYMMETRY SessionSymmetry
INVARIANTS
    ReservedBacked
    OneAnswer
    SomeTransactionMoves
PROPERTIES
    OversoldOnlyByAdmin
    SettledOnce
CHECK_DEADLOCK FALSE
