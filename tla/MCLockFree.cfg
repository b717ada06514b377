CONSTANTS
    t1 = t1
    t2 = t2
    Threads = {t1, t2}
    Structures = {"pool", "queue", "bucket", "journal", "sweeper"}
    NumSlabs = 2
    SlabSize = 1
    MaxAllocations = 4
    Wrap = 8
    Priorities = {0, 200}
    MaxSize = 1
    MaxTasks = 3
    Ops = {"push", "pop", "peek", "clear", "drop", "shutdown"}
    Capacity = 2
    Period = 2
    Weights = {1, 2}
    MaxTime = 4
    RingSlots = 2
    BatchLimit = 3
    MaxEvents = 6
    AggressiveMode = TRUE
    MaxPending = 3
SPECIFICATION SharedSpec
CHECK_DEADLOCK FALSE
SYMMETRY Symmetry
INVARIANTS
    NothingMislaid
    RateRespectedUnlessRaced
    JournalIsComplete
PROPERTIES
    PeakKeepsMaximum
    RetrySucceeds
