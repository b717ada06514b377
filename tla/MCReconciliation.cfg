\* Orders of two units, so that one is partially filled while the reports of
\* another are in between, and a history that overflows.
CONSTANTS
    o1 = o1
    o2 = o2
    Orders = {o1, o2}
    Quantity = 2
    Scenarios <- SampleScenarios
    MaxHistory = 1
SPECIFICATION RSpec
CHECK_DEADLOCK FALSE
INVARIANTS
    NeverAhead
    PictureIsExact
PROPERTIES
    EndIsNoticed
    ReportsAreTrue
