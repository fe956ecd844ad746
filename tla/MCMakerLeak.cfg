SPECIFICATION Spec
CONSTANTS
    t1 = t1
    t2 = t2
    k1 = k1
    i1 = i1
    NoItem = NoItem
    NoTask = NoTask
    Triggers <- MCTriggers
    Retries <- OneRetry
    Items <- MCItems
    PhaseCount = 1
    Concurrency = 1
    HasTimeout = TRUE
    DiskFaults = FALSE
    MaxCrashes = 0
SYMMETRY OneRetrySymmetry
INVARIANTS
    ClaimHasHolder
CHECK_DEADLOCK FALSE
