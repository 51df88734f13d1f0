SPECIFICATION Spec
CONSTANTS
    NULL = NULL
    PAGE_SIZE = 2
    PAGES_PER_TABLE = 3
    KERNEL_VIRT_OFFSET = 64
    Width = 128
    BATCH_PAGES_ALLOCED_MAX = 2
    MaxFrame = 9
    MaxTable = 2
    LowFrames = 1
    KernelStart = 2
    KernelEnd = 3
    MemoryMaps <- Maps
    TestPages <- TestPage
    MaxHeld = 1
    Increments <- Moves
    Targets <- None
INVARIANTS
    FramesExclusive
    OnlyRamIsFree
    BreakMapped
PROPERTIES
    ImplementsBreak
