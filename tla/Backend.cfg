\* Three releases; the second migrates and repins, the third drops.
CONSTANTS
  w1 = w1
  w2 = w2
  w3 = w3
  p1 = p1
  p2 = p2
  Wheels <- Releases
  LastRevision <- ReleaseHead
  Pins <- ReleasePins
  Destructive = {3}
  KeepDumps = 2
  MaxDeploys = 3
  MaxStagings = 3
  None = None
  Mixed = Mixed
CHECK_DEADLOCK FALSE
SPECIFICATION Spec
INVARIANTS
  TypeOK
  RollbackPointKept
  RunbookRestoresHealthy
PROPERTIES
  StartProtected
  DestructionConfirmed
