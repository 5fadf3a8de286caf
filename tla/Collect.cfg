\* Two backups and the live JAR; three runs, three writes by deployments.
CONSTANTS
  Paths = {old, dated, live}
  LIVE = {live}
  Builds = {b1, b2}
  Cut = Cut
  None = None
  MaxWrites = 3
  MaxRuns = 3
CHECK_DEADLOCK FALSE
SPECIFICATION Spec
INVARIANTS
  TypeOK
  NothingLost
