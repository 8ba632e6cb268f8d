SPECIFICATION Spec
CONSTANTS
  Slots = {1, 2}
  a = a
  b = b
  p = p
  q = q
  Sources <- MCSources
  Projects <- MCProjects
  MaxSaves = 1
  MaxProjects = 1
  MaxMishaps = 1
SYMMETRY Alike
CHECK_DEADLOCK FALSE
INVARIANTS OnlyRecRecords TakeIsWhole RigDeclaresWhatItRecords HeardWhileThere
