CONSTANTS
    LevelPrices = {1, 2}
    FirstId = 1
    Depth = 1
    MaxUpdates = 3
    MaxDrops = 1
    MaxAttempts = 2
    BaseDelay = 1
    MaxDelay = 2
    Heartbeat = 1
    Limit = 2
    TickBound = 6
    PriorityLimit = 2
    StandardLimit = 1
    OrderEvery = 2
    CounterSize = 5
    Capacity = 3
    MaxTicks = 8
    NoTick = NoTick
    ArenaNodes = 3
    MaxOrderId = 3
    Sizes = {1}
    CountSize = 4
    RawPrices = {3, 4, 5, 6}
    TickSize = 3
    Lots = {1, 3}
    MaxOrders = 3
SPECIFICATION PathSpec
CHECK_DEADLOCK FALSE
INVARIANTS
    NoSlotRace
    Conservation
    BookIsExact
    EventsAccounted
    OrderBooksAgree
PROPERTIES
    ImplementsQueue
    Delivery
    FeedRecovers
    OrdersHandledWhenQuiet
