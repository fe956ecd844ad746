SPECIFICATION Spec
CONSTANTS
    j1 = j1
    j2 = j2
    j3 = j3
    k1 = k1
    k2 = k2
    Jobs <- MCJobs
    Keys <- MCKeys
    Workers = 2
    MaxMessages = 3
    Budget = 2
    MaxCrashes = 1
    DiskFaults = TRUE
VIEW MCView
INVARIANTS
    TypeOK
    SavedIsKept
    ForgetsOnlyOverlaps
SYMMETRY SessionSymmetry
CHECK_DEADLOCK FALSE
