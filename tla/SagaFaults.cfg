SPECIFICATION Spec
CONSTANTS
    o1 = o1
    o2 = o2
    s1 = s1
    s2 = s2
    Orders = {o1}
    Skus = {s1}
    Demand <- OneDemand
    Stock <- OneStock
    MaxCancels <- OneCancels
    Chargeable = {o1}
    MaxCaptureRetries = 2
    OrderInstances = 2
    Monitored = {o1}
    FaultKinds = {"overtake", "lost", "skipped", "repeated", "redelivered", "db_error", "gateway_error"}
    FaultBudget = 2
INVARIANTS
    MoneyFollowsGoods
PROPERTIES
    CancelledLeftOnlyByStaleHandler
CHECK_DEADLOCK FALSE
