SPECIFICATION Spec
CONSTANTS
  Folders = {"a", "b"}
  Lists = {1, 2}
  Instants = {3}
  Roll = 1
  MaxEdits = 3
  MaxSwitches = 2
  MaxFaults = 1
INVARIANTS RunningOrder InItsOwnProject AWayBack
PROPERTIES FileCatchesUp
CHECK_DEADLOCK FALSE
