SPECIFICATION MCSpec
CONSTANTS
  k1 = k1
  r1 = r1
  None = None
  Parts = {"sessions", "live"}
  Key = {k1}
  MaxSessions = 2
  MaxSegments = 1
  MaxTime = 3
  Gap = 1
  Aliased = TRUE
  Recording = {r1}
  Fresh = 1
  Stub = 1
  MaxSpan = 2
  MaxQueries = 1
INVARIANTS
  OneProcessPerKey
  BroadcastsAreApart
PROPERTIES
  StalledIsStopped
  LockIsReleased
  EndedBroadcastsClose
