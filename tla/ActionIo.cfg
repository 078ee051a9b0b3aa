SPECIFICATION Spec
CONSTANTS
    Plans <- SomePlans
    Log <- ThreeEvents
    MaxBytes = 3
    MaxLosses = 2
INVARIANTS
    EffectsTold
    ExecutionsApart
PROPERTIES
    AllEnd
CHECK_DEADLOCK FALSE
