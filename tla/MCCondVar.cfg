CONSTANTS
    NumThreads = 4
    Cvars = {1, 2}
    ChanDepth = 4
    NoCvar = NoCvar
SPECIFICATION BoundedSpec
INVARIANT WaitersExact
INVARIANT ChannelNeverFull
PROPERTY ImplementsCondition
PROPERTY SignalledRuns
