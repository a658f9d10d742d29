SPECIFICATION SafeSpec
CONSTANTS
  k1 = k1
  r1 = r1
  None = None
  Parts = {"sessions", "timeline"}
  Key = {k1}
  MaxSessions = 2
  MaxSegments = 2
  MaxTime = 3
  Gap = 1
  Aliased = TRUE
  Recording = {r1}
  Fresh = 1
  Stub = 1
  MaxSpan = 2
  MaxQueries = 1
INVARIANTS
  HlsKeptWhileRecording
  CapturesStayCharted
CHECK_DEADLOCK FALSE
