SPECIFICATION Spec
CONSTANTS
  Keys <- MCKeys
  Size <- MCSize
  MaxEntries = 2
  MaxBytes = 3
  MaxCommands = 4
CHECK_DEADLOCK FALSE
INVARIANTS CacheHolds PauseReachesTheClock
PROPERTIES CommandsComeBack EveryRunIsReported
