SPECIFICATION MCSpec
CONSTANTS
  p1 = p1
  p2 = p2
  Project = {p1, p2}
  MaxTaskId = 2
  MaxCommands = 2
  MaxOps = 3
  MaxWrites = 1
  MaxFaults = 1
SYMMETRY Symmetry
INVARIANTS
  SerialUnlessInterrupted
  ConcatenatedHasFile
  RunningIsServed
CHECK_DEADLOCK FALSE
