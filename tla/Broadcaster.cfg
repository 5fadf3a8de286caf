\* Two connections, queues and history of two events.
CONSTANTS
  Conns = {c1, c2}
  MAX_QUEUE = 2
  HISTORY = 2
  MaxEvents = 4
  MaxClears = 1
  MaxOpens = 3
CHECK_DEADLOCK FALSE
SPECIFICATION Spec
INVARIANTS
  TypeOK
  CaughtUp
  NothingMissed
PROPERTIES
  EventuallyCaughtUp
