SPECIFICATION Spec
CONSTANTS
  NCams = 2
  RingSpan = 2
  Opening = 2
  MaxAttempts = 2
  MaxProbes = 2
  NoInstant = NoInstant
  MaxTime = 4
  MaxFiles = 2
  MaxStarts = 2
  MaxCrashes = 1
INVARIANTS PlacedTruly AnchoredIsOnDisk FinalIsTrue ServedIsWhole
PROPERTIES IndexSettles
CHECK_DEADLOCK FALSE
