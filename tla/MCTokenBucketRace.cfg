CONSTANTS
    t1 = t1
    t2 = t2
    Threads = {t1, t2}
    Structures = {"bucket"}
    NumSlabs = 1
    SlabSize = 1
    MaxAllocations = 1
    Wrap = 8
    Priorities = {0}
    MaxSize = 1
    MaxTasks = 1
    Ops = {"push"}
    Capacity = 2
    Period = 1
    Weights = {1, 2}
    MaxTime = 2
    RingSlots = 1
    BatchLimit = 1
    MaxEvents = 1
    AggressiveMode = TRUE
    MaxPending = 1
SPECIFICATION SharedSpec
CHECK_DEADLOCK FALSE
INVARIANT RateRespected
