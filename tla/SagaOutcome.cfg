SPECIFICATION FairSpec
CONSTANTS
    o1 = o1
    o2 = o2
    s1 = s1
    s2 = s2
    Orders = {o1, o2}
    Skus = {s1, s2}
    Demand <- TwoDemand
    Stock <- TwoStock
    MaxCancels <- TwoCancels
    Chargeable = {o1, o2}
    MaxCaptureRetries = 1
    OrderInstances = 2
    Monitored = {o1}
    FaultKinds = {}
    FaultBudget = 0
INVARIANTS
    ConsistentOutcome
PROPERTIES
    SagaCompletes
CHECK_DEADLOCK FALSE
