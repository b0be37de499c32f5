CONSTANTS
    Events = {1, 2}
    AggregateOf <- MCAggregateOf
    Relays = {r1, r2}
    NoEvent = NoEvent
    NoRelay = NoRelay
    MaxRetries = 2
    BatchSize = 2
    Deleting = {r2}
    FaultKinds = {"crash", "db_error", "slow_relay", "ambiguous_publish"}
    FaultBudget = 2
SPECIFICATION FairSpec
INVARIANTS
    NoEventLost
    OvertakenOnlyAfterRetry
    ExactlyOnceWithoutFaults
PROPERTIES
    ImplementsDelivery
    EventuallySettled
CHECK_DEADLOCK FALSE
