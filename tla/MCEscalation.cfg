SPECIFICATION MCSpec
CONSTANTS
    PhaseCount = 2
    StepCount = 2
    Retries = 1
    AskBefore = 2
    CostCap = 0
    MaxCost = 1
    MaxSlips = 1
    Faults = {"discard", "add", "commit", "log"}
    MaxFaults = 1
INVARIANTS
    TypeOK
    AskedFirst
    AttemptIsolation
    ApprovedWorkKept
    ChangeAccounted
    EveryAttemptLogged
PROPERTIES
    LadderEnds
CHECK_DEADLOCK FALSE
