SPECIFICATION Spec
CONSTANTS
    Clips <- MCClips
    MaxJobs = 2
    Frames = 10
    Lagged <- MCLagged
    Angles <- MCAngles
    LaggedWindow = 2
    SustainedWindows = 2
    MaxTakes = 2
    MaxAsked = 4
INVARIANTS OnlyThisTake SomethingToGoBackTo NothingRunsOn
PROPERTIES JobsAreAnswered
CHECK_DEADLOCK FALSE
