CONSTANTS
    Total = 3
    Threshold = 2
    NULL = NULL
    NumBuffers = 3
    Setups <- AllSetups
SPECIFICATION Spec
INVARIANTS HandsOff EndStops PktCountExact FramesIntact
PROPERTIES ImplementsRing KeepsReceiving FramesSent FramesHandedUp
CHECK_DEADLOCK FALSE
VIEW LiveState
