SPECIFICATION QueueSpec
CONSTANTS
    MaxTasks = 4
    MaxParallel = 2
    MaxFrames = 3
    MaxBytes = 5
    ByteSizes <- MCByteSizes
    MaxDrains = 1
INVARIANTS
    Accounting
PROPERTIES
    DeliversInOrder
    WorkedOff
CHECK_DEADLOCK FALSE
