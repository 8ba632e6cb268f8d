SPECIFICATION Spec
CONSTANTS
  Slots = {1, 2}
  a = a
  b = b
  p = p
  q = q
  Sources <- MCSources
  Projects <- MCProjects
  MaxSaves = 2
  MaxProjects = 1
  MaxMishaps = 0
INVARIANTS RemovalsAreHeardFirst
SYMMETRY Alike
CHECK_DEADLOCK FALSE
