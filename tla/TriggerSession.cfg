SPECIFICATION SessionSpec
CONSTANTS
    Subscribes = TRUE
    Reconnects = TRUE
    MaxAttempts = 2
    MaxFailures = 1
    MaxFaults = 9
INVARIANTS
    OneConnection
PROPERTIES
    StillAfterClose
    Recovers
CHECK_DEADLOCK FALSE
