SPECIFICATION MCSpec
CONSTANTS
  File = {a}
  MaxAttempts = 1
  MaxOps = 1
  None = None
  Video = {i}
  VideoKinds = {"direct", "late"}
  MaxVersions = 2
  MaxCalls = 1
INVARIANTS
  FootageKept
  ErasedStaysErased
  PlaysUnlessDisturbed
PROPERTIES
  EveryRecordingIsConverted
  GhostRowsGo
  DroppedIsIndexed
  GhostImportsGo
