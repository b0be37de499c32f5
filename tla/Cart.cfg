SPECIFICATION Spec
CONSTANTS
    s1 = s1
    s2 = s2
    s3 = s3
    s4 = s4
    r1 = r1
    r2 = r2
    Skus = {s1, s2, s3, s4}
    Requests = {r1, r2}
    PriceOf <- MCPriceOf
    MaxQuantity = 2
    MaxCartItems = 2
    MinCartValue = 2
    MaxCartValue = 8
    MinOrderAmount = 2
    MaxItemsPerOrder = 3
    MaxOrderQuantity = 3
    MinPaymentAmount = 1
    MaxPaymentAmount = 10
    Disconnects = 1
INVARIANTS
    CartBound
    FailuresExplained
    CheckedOutIsPayable
