SPECIFICATION FairSpec
CONSTANTS
  a = a
  File = {a}
  MaxAttempts = 1
  MaxOps = 0
  None = None
PROPERTIES
  ConvertedIsListed
