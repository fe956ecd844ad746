SPECIFICATION FairSpec
CONSTANTS
    p1 = p1
    outside = outside
    Paths = {p1}
    MaxSlips = 1
    Replies <- MCReplies
    MaxSteps = 3
    Budget = 4
    Setups <- MCSetups
    Rungs <- MCRungs
    PhaseRetries = 1
    ExpectsChange = TRUE
    MaxExecutions = 2
INVARIANTS
    TypeOK
    PromptIsWhole
    OwnInstruction
    Attributed
PROPERTY
    PhaseEnds
CHECK_DEADLOCK FALSE
