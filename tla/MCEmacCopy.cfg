CONSTANTS
    Total = 3
    Threshold = 2
    NULL = NULL
    NumBuffers = 3
    Setups <- CopySetup
SPECIFICATION Spec
INVARIANT CopiesInside
CHECK_DEADLOCK FALSE
