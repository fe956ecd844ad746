SPECIFICATION MCSpec
CONSTANTS
    PhaseCount = 2
    StepCount = 2
    Retries = 0
    AskBefore = 3
    CostCap = 0
    MaxCost = 1
    MaxSlips = 0
    Faults = {}
    MaxFaults = 0
INVARIANTS
    TaskCostBound
CHECK_DEADLOCK FALSE
