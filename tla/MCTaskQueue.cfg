SPECIFICATION FairSpec
CONSTANTS
    j1 = j1
    j2 = j2
    j3 = j3
    Jobs <- MCJobs
    Concurrency = 2
    HasTimeout = TRUE
INVARIANTS
    TypeOK
    ConcurrencyBound
    CountersExact
PROPERTIES
    NoStarvation
CHECK_DEADLOCK FALSE
