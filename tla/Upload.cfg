\* Two uploads, to one path or to two, over a session that may fail at any time.
CONSTANTS
  u1 = u1
  u2 = u2
  p1 = p1
  p2 = p2
  Uploaders = {u1, u2}
  Paths = {p1, p2}
  Targets <- SameOrNot
  Existing = {p1}
  Chunks = 2
  UPLOAD_RETRIES = 1
  Old = Old
  None = None
CHECK_DEADLOCK FALSE
SPECIFICATION Spec
INVARIANTS
  TypeOK
  UndisturbedSucceeds
PROPERTIES
  KeepsPromise
  NeverRepeats
