\* A parent order of four units, filled by two threads.
CONSTANTS
    h1 = h1
    h2 = h2
    Handlers = {h1, h2}
    Algos = {"iceberg", "plain", "twap", "vwap", "adaptive", "cvd", "reserve", "discretionary", "pegged"}
    Quantity = 4
    MaxFilled = 5
    InitialVisible = 2
    MinVisible = 1
    MaxVisible = 2
    Slice = 2
    Interval = 2
    Profile <- SampleProfile
    MarketVolumes = {0, 1, 3}
    Prices = {1, 2}
    MaxVolume = 3
    Display = 2
    MaxToggles = 2
    PegTypes = {"mid", "primary", "bid", "ask"}
    Offset = 1
    LowBound = 3
    HighBound = 6
    Books <- SampleBooks
    TickSizes = {0, 1, 2}
SPECIFICATION DeskSpec
CHECK_DEADLOCK FALSE
INVARIANTS
    BooksAgreeUnlessOverlapped
    PegIsSafe
PROPERTIES
    ImplementsParent
    ParentCompletes
