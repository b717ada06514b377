CONSTANTS
    ArenaNodes = 3
    MaxOrderId = 3
    Sizes = {1}
    CountSize = 4
SPECIFICATION TreeSpec
CHECK_DEADLOCK FALSE
INVARIANTS
    OrdersAreFound
