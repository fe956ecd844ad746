SPECIFICATION MCSpec
CONSTANTS
    t1 = t1
    t2 = t2
    k1 = k1
    i1 = i1
    NoItem = NoItem
    NoTask = NoTask
    Triggers <- MCTriggers
    Retries <- OneRetry
    Items <- MCItems
    PhaseCount = 1
    Concurrency = 2
    HasTimeout = TRUE
    DiskFaults = TRUE
    MaxCrashes = 1
INVARIANTS
    TypeOK
    FileIsCurrent
    InterruptedAnnounced
    ClaimHeldOrLeaked
PROPERTIES
    ImplementsWorkClaim
    RequestEnds
CHECK_DEADLOCK FALSE
