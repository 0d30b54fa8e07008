CONSTANTS
    Total = 3
    Threshold = 2
    NULL = NULL
    NumBuffers = 3
    Setups <- LateSetup
SPECIFICATION Spec
INVARIANT HandsOff
CHECK_DEADLOCK FALSE
