\* Two releases, the settings' defaults but for a smaller archive.
CONSTANTS
  b1 = b1
  b2 = b2
  Builds <- Releases
  BuiltAt <- ReleasedAt
  Epoch = 3
  TouchesDir = TRUE
  KeepDist = 1
  KeepArchives = 1
  MaxDeploys = 4
  None = None
CHECK_DEADLOCK FALSE
SPECIFICATION Spec
INVARIANTS
  TypeOK
  LivePrepared
  PreviousInPlace
  LastVerifiedKept
  SuccessIsVerified
  RevertMeansRestored
