CONSTANTS
    ALIGN = 2
    HEADER = 2
    CAPACITY = 3
    CHUNK_MIN = 12
    CHUNK_MAX = 16
    SIZE_MAX = 63
    MEM_TOP = 30
    ChunkBases <- MCChunkBases
    Requests <- MCRequests
    Counts <- MCCounts
SPECIFICATION Spec
INVARIANTS TypeOK BlocksTileMemory PointersAreServed DataSurvives
PROPERTIES ShrinkAloneFragments IsAllocator
CHECK_DEADLOCK FALSE
