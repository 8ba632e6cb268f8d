SPECIFICATION DockSpec
CONSTANTS
    Bays <- MCBays
    Events = {"e1"}
    Stretches = {"free"}
    NewestEvent = "e1"
    MaxItems = 1
    MaxCommands = 4
    MaxRounds = 2
CHECK_DEADLOCK FALSE
PROPERTIES ReviewStaysOffAir
