SPECIFICATION FairSpec
CONSTANTS
    j1 = j1
    c1 = c1
    c2 = c2
    c3 = c3
    r1 = r1
    r2 = r2
    t1 = t1
    t2 = t2
    Jobs = {j1, c1, c2, c3}
    KeyOf <- MCKeyOf
    Recurring = {c1, c2, c3}
    ResetToNext = {c1, c2, c3}
    Runners = {r1, r2}
    NoRunner = NoRunner
    Slots = {t1, t2}
    RunnerOf <- OneTaskEach
    NoJob = NoJob
    Handles <- SomeHandled
    Outcomes = {"complete", "retry", "dead_letter"}
    MaxRetries = 2
    FaultBudget = 1
    Workloads <- MCWorkloads
INVARIANTS
    OneExecution
    NoOrphans
PROPERTIES
    EventuallySettled
    RecurringRepeats
CHECK_DEADLOCK FALSE
