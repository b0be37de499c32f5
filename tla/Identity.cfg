SPECIFICATION Spec
CONSTANTS
    Requests = {1, 2, 3, 4}
    Users = {1, 2}
    ResetTokens = {1, 2, 3, 4}
    None = None
    Workloads <- MCWorkloads
INVARIANTS
    CachedUserIsCurrent
    UnverifiedCanVerify
    ResetTokenUsedOnce
PROPERTIES
    StaleRightsEnd
CHECK_DEADLOCK FALSE
