SPECIFICATION Spec
CONSTANTS
    c1 = c1
    c2 = c2
    r1 = r1
    Coders <- OneCoder
    Reviewers <- NoReviewer
    PhaseCount = 2
    MaxRuns = 2
    MaxFaults = 0
    Faults = {}
INVARIANTS
    RetryKeepsDone
CHECK_DEADLOCK FALSE
