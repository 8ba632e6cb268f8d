SPECIFICATION TapSpec
CONSTANTS
    MaxBo = 3
    MaxAttempts = 2
    MaxTakes = 2
CHECK_DEADLOCK FALSE
INVARIANTS StopFindsItsCapture RefsBalanced
PROPERTIES LetsGo UnloadEnds
