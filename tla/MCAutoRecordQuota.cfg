SPECIFICATION FairSpec
CONSTANTS
  a = a
  Channel = {a}
  Card = a
  Default = 1
  Cap = 1
  MaxOps = 1
  None = None
PROPERTIES
  StartsWithinQuota
