SPECIFICATION PullSpec
CONSTANTS
    Total = 6
    Window = 8
    Limits <- MCLimits
    Faults = TRUE
INVARIANTS
    PullTypeOK
    CreditsCovered
    NeverStalled
    NoPartialResult
PROPERTIES
    PullsNeverOverlap
    StreamEnds
CHECK_DEADLOCK FALSE
