CONSTANTS
    o1 = o1
    nobody = nobody
    Operators = {o1}
    NoOne = nobody
    MaxDepth = 2
    t1 = t1
    t2 = t2
    s1 = s1
    Threads = {t1, t2}
    Symbols = {s1}
    RetryCount = 2
    SmallBelow = 0
    MaxOrders = 2
    MaxTriggers = 2
    MaxFaults = 2
    MaxOpen = 2
    MaxChanges = 4
SPECIFICATION OperationSpec
CHECK_DEADLOCK FALSE
INVARIANTS
    ManualIsHeld
    ComponentsAgree
    CleanFinishIsFlat
    CompletedIsClean
PROPERTIES
    CloseLandsAtZero
    InterventionsEnd
