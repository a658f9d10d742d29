SPECIFICATION Spec
CONSTANTS
  None = None
  File = {a}
  MaxVersions = 2
  Kinds = {"container"}
  MaxOps = 0
INVARIANT ReplacedIsNotPlayed
