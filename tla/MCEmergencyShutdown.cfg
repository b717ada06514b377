CONSTANTS
    NumWorkers = 2
    Small = {2}
    Critical = {1}
    RestartLimit = 1
    MaxDeaths = 1
    MaxSignals = 0
SPECIFICATION SupervisorSpec
CHECK_DEADLOCK FALSE
INVARIANTS
    EmergencyExits
