SPECIFICATION FairSpec
CONSTANTS
    NULL = NULL
    HEADER = 2
    ALIGNMENT = 2
    MINIMUM_ALLOCATION_BYTES = 4
    PAGE_SIZE = 6
    KERNEL_VIRT_OFFSET = 66
    HeapStart = 18
    HardLimit = 24
    MaxBreak = 36
    Width = 132
    Sizes <- Requests
    Counts <- Nmemb
    ReallocSizes <- Resizes
    Increments <- Query
INVARIANTS
    BlocksTile
    RegionsHeld
    RegionsDisjoint
    NoLeak
    LockBalanced
    Coalesced
    BlocksAligned
PROPERTIES
    ImplementsAllocator
    CallsReturn
