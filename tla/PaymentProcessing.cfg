SPECIFICATION FairSpec
CONSTANTS
    w1 = w1
    w2 = w2
    Workers = {w1, w2}
    NoWorker = NoWorker
    Chargeable = TRUE
    MaxCaptureRetries = 2
    MaxRetries = 1
    FaultKinds <- EveryFault
    FaultBudget = 2
CHECK_DEADLOCK FALSE
INVARIANTS
    LedgerBacked
    OneOutcome
    FailureIsFinal
    BooksAgree
PROPERTIES
    ConfirmedIsSettled
