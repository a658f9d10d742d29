SPECIFICATION Spec
CONSTANTS
  a = a
  b = b
  Item = {a, b}
  Recording = {b}
  Known = {b}
  SizeOf <- MCSizeOf
  Namesakes <- MCNamesakes
  Beat = {beat}
  Page = page
  None = none
  MaxJobs = 2
  MaxEvents = 2
INVARIANTS
  PurgedIsOnMac
  DownloadingIsServed
PROPERTY KeepsCustody
