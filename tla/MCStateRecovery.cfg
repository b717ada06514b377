CONSTANTS
    SyncModes = {"full", "normal"}
    ChannelSize = 1
    FileSize = 2
    MaxAppends = 3
    MaxRestarts = 1
    MaxErrors = 1
    o1 = o1
    o2 = o2
    Orders = {o1, o2}
    Exchanges = {1, 2, 3}
    Clients = {1, 2}
    ExchangeStatuses = {"PENDING_NEW", "NEW", "CANCELED"}
    AutoCancelOrphans = TRUE
    MaxCalls = 2
    Absent = Absent
    FillPrices = {1, 3}
    FillSizes = {1, 2}
    Commissions = {1}
    BatchSize = 2
    PageLimit = 1
    MaxFills = 3
    NumWorkers = 2
    Small = {2}
    Critical = {1}
    RestartLimit = 2
    MaxDeaths = 1
    MaxSignals = 2
SPECIFICATION RecoverySpec
CHECK_DEADLOCK FALSE
INVARIANTS
    ReplayFollowsAppends
    LiveIsKept
    RebuildIsExact
    WorkersAccounted
PROPERTIES
    AppendsReachFile
    CallsAreThorough
    DeadAreRestarted
    SignalEnds
