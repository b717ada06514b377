CONSTANTS
    t1 = t1
    t2 = t2
    k1 = k1
    k2 = k2
    k3 = k3
    square = square
    flat = flat
    none = none
    Threads = {t1, t2}
    Structures = {"swapper", "cache", "batches", "chains"}
    Shapes = {square, flat}
    NoModel = none
    MaxVersion = 3
    MaxSwapCalls = 4
    Keys = {k1, k2, k3}
    CacheSlots = 2
    MaxCacheCalls = 4
    Scheduler = t1
    NormalSize = 2
    UrgentSize = 1
    MinBatch = 2
    Targets = {2, 3}
    MaxSubmits = 4
    MaxBatchCalls = 2
    ChainEvents <- SampleEvents
    Finality = {1, 2}
    MaxBlock = 2
    MaxEventsKept = 2
    MaxChainCalls = 5
CHECK_DEADLOCK FALSE
SPECIFICATION FairSpec
INVARIANTS
    NewestServes
    DataAgrees
PROPERTIES
    EvictsLeastRecent
    CallsEnd
