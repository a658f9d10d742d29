SPECIFICATION MCSpec
CONSTANTS
  a = a
  Channel = {a}
  Card = a
  Default = 1
  Cap = 1
  MaxOps = 3
  None = None
  c1 = c1
  c2 = c2
  Capture = {c1, c2}
  Restarts = 1
INVARIANTS
  OffMeansOff
  GateStopsCaptures
PROPERTIES
  OverQuotaIsStopped
  WantedIsRecorded
  StagingReleasedWhenClear
  StagingGateReleases
CHECK_DEADLOCK FALSE
