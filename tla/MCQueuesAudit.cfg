SPECIFICATION MCSpec
CONSTANTS
  i1 = i1
  i2 = i2
  i3 = i3
  p1 = p1
  p2 = p2
  Item = {i1, i2, i3}
  Project = {p1, p2}
  ProjectOf <- MCProjectOf
  ClipOrder <- MCClipOrder
  ProjectLimits = {0, 2}
  FileLimits = {0}
  ProjectStatus = {"ready", "open"}
  MaxTaskId = 3
  q1 = q1
  q2 = q2
  s1 = s1
  s2 = s2
  Session = {s1, s2}
  MaxDeaths = 2
  None = None
INVARIANTS
  IndexConsistent
  ClaimFillsSlots
PROPERTIES
  ClaimStaysWithinLimits
  PausedNotRestarted
  QueueMoves
  InterruptedIsTold
  BusyFileCatchesUp
CHECK_DEADLOCK FALSE
