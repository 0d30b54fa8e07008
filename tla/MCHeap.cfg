CONSTANTS
    MEM_SIZE = 24
    MEM_ALIGNMENT = 2
    SIZEOF_STRUCT_MEM = 2
    MIN_SIZE = 2
    Sizes <- MCSizes
SPECIFICATION Spec
INVARIANTS Linked Plugged LowestFree Owned AlignedRegions
PROPERTY ImplementsAllocator
CHECK_DEADLOCK FALSE
