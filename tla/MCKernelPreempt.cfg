CONSTANTS
    NumIDs = 4
    NumPriorities = 3
    DefaultPri = 1
    HWParams = {HW}
    HW = HW
    SW = SW
    None = None
    IdleThread = 1
    Attrs <- AllKinds
    MaxCreates = 2
SPECIFICATION BoundedSpec
INVARIANT PreemptionPending
CHECK_DEADLOCK FALSE
