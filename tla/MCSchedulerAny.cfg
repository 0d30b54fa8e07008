CONSTANTS
    NumIDs = 3
    NumPriorities = 2
    DefaultPri = 1
    HWParams = {HW}
    HW = HW
    SW = SW
    IdleThread = 1
SPECIFICATION SpecAny
INVARIANT OneElementLevels
