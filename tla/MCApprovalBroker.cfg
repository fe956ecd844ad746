SPECIFICATION QuestionsSpec
CONSTANTS
    c1 = c1
    c2 = c2
    i1 = i1
    i2 = i2
    None = None
    Calls <- MCCalls
    Ids <- MCIds
    ChatCount = 2
    MaxLost = 2
INVARIANTS
    TypeOK
    NotStranded
    Consent
    ButtonsMatch
SYMMETRY BrokerSymmetry
CHECK_DEADLOCK FALSE
