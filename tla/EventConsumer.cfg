CONSTANTS
    Log <- MCLog
    Garbage = Garbage
    Members = {m1, m2}
    NoMember = NoMember
    MaxRetries = 1
    FaultKinds = {"crash", "shutdown", "db_error", "ambiguous_commit", "dlq_error", "offset_lost", "rebalance", "zombie"}
    FaultBudget = 2
SPECIFICATION FairSpec
INVARIANTS
    EffectsOnce
    PassedOnlyIfSettled
PROPERTIES
    EventuallySettled
CHECK_DEADLOCK FALSE
