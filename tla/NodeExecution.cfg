SPECIFICATION NodeSpec
CONSTANTS
    Invocations <- TwoItems
    Plans <- SomePlans
    Concurrency = 2
    MaxRetries = 1
    Expiries = 1
INVARIANTS
    RunsAccountedFor
    ItemsTogether
    SessionShared
PROPERTIES
    NodeEnds
CHECK_DEADLOCK FALSE
