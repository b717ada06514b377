CONSTANTS
    t1 = t1
    t2 = t2
    Threads = {t1}
    Structures = {"queue"}
    NumSlabs = 1
    SlabSize = 1
    MaxAllocations = 1
    Wrap = 8
    Priorities = {0, 200}
    MaxSize = 3
    MaxTasks = 3
    Ops = {"push", "pop"}
    Capacity = 1
    Period = 1
    Weights = {1}
    MaxTime = 1
    RingSlots = 1
    BatchLimit = 1
    MaxEvents = 1
    AggressiveMode = TRUE
    MaxPending = 1
CHECK_DEADLOCK FALSE
SPECIFICATION SharedSpec
INVARIANT PopHighest
