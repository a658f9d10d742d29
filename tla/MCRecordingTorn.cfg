SPECIFICATION Spec
CONSTANTS
  k1 = k1
  Key = {k1}
  MaxSessions = 1
  MaxSegments = 2
PROPERTIES
  OnlyClosedArePromoted
