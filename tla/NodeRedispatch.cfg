SPECIFICATION NodeSpec
CONSTANTS
    Invocations <- TwoItems
    Plans <- TwoWrites
    Concurrency = 2
    MaxRetries = 0
    Expiries = 1
INVARIANTS
    RedispatchIsSafe
CHECK_DEADLOCK FALSE
