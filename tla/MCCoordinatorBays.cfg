SPECIFICATION Spec
CONSTANTS
    Bays <- MCTwoBays
    Events = {1, 2}
    MaxItems = 1
    MaxCommands = 2
    MaxRounds = 2
PROPERTIES
    BaysShareNothing
CHECK_DEADLOCK FALSE
