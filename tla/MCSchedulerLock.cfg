CONSTANTS
    NumIDs = 4
    NumPriorities = 3
    DefaultPri = 1
    HWParams = {HW}
    HW = HW
    SW = SW
    IdleThread = 1
    NoThread = NoThread
    CountSize = 16
SPECIFICATION CoreSpec
INVARIANT QueueBitsExact
INVARIANT NextIsBest
INVARIANT HolderInside
PROPERTY ImplementsReadyQueue
VIEW LiveState
