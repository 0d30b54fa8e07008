CONSTANTS
    NumThreads = 4
    Mutexes = {1, 2, 3}
    CountSize = 3
    NoMutex = NoMutex
    NoThread = NoThread
    UsedKinds = {"SYNCH_FAST", "SYNCH_RECURS", "SYNCH_ERROR"}
SPECIFICATION BoundedSpec
INVARIANT HoldersOwn
INVARIANT WakeupsExact
PROPERTY ImplementsMutex
PROPERTY GrantedWakesUp
CHECK_DEADLOCK FALSE
