CONSTANTS
    Pages = 36
    Unit = 2
    Span = 4
    HEAP_START = 20
    KERNEL_CEILING = 28
    MISC_PAGE_CNT = 1
    KernelPages = 1
    FbFirst = 32
    FbLast = 32
    MemoryMaps <- MCMaps
    Header = 2
    Page = 6
    Requests <- MCRequests
    MaxHeld = 3
SPECIFICATION Spec
INVARIANTS FramesOwnedOnce HeldIsDisjoint HeapBacked
CHECK_DEADLOCK FALSE
