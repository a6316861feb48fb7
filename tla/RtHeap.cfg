SPECIFICATION Spec
CONSTANTS
    Align = 2
    Header = 2
    MinSize = 4
    Total = 24
    Word = 64
    Request = {0, 1, 4, 6, 11}
    ItemSize = 2
    MiniAlloc = 4
    PoolSize = 34
    PageSize = 24
    Pages = 10
    UsagePages = 1
    ZonePages = 3
    ZoneHeader = 24
    ZoneLimit = 24
    ReleaseThresh = 1
    Callers <- MCCallers
INVARIANTS
    BlocksTile
    NothingLost
PROPERTY
    HeapIsAllocator
