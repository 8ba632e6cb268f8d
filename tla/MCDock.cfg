SPECIFICATION DockSpec
CONSTANTS
    Bays <- MCBays
    Events = {"e1", "e2"}
    Stretches = {"free"}
    NewestEvent = "e2"
    MaxItems = 2
    MaxCommands = 3
    MaxRounds = 3
CHECK_DEADLOCK FALSE
INVARIANTS WaitsForOneThing ProgramComesBack StaysWhereParked
PROPERTIES OnlyACommandStarts QueueEnds DipEnds EndHandsBack
