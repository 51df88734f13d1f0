SPECIFICATION Spec
CONSTANTS
    NULL = NULL
    PAGE_SIZE = 2
    PAGES_PER_TABLE = 6
    KERNEL_VIRT_OFFSET = 64
    Width = 128
    BATCH_PAGES_ALLOCED_MAX = 3
    MaxFrame = 12
    MaxTable = 2
    LowFrames = 1
    KernelStart = 2
    KernelEnd = 3
    MemoryMaps <- OneMap
    TestPages <- None
    MaxHeld = 1
    Increments <- Grow
    Targets <- None
INVARIANTS
    HeapPagesDistinct
