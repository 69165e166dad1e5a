SPECIFICATION Spec
CONSTANTS
    MAX_COUNT = 2
    GenLimit = 4
    SlotLimit = 3
    Objects = {o1, o2}
    Null = Null
    Kinds = {"Mutex", "Semaphore", "SharedMemory", "Thread"}
    Limit = 2
    MemoryWords = 8
    MaxFailed = 1
SYMMETRY Symmetry
INVARIANTS FreeListConsistent NoStaleHandle LimitCountsObjects MemoryAccounted
PROPERTY ImplementsHandleMap
CHECK_DEADLOCK FALSE
