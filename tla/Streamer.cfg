\* Two callers, four starts and stops in any order.
CONSTANTS
  Callers = {c1, c2}
  Threads = {t1, t2, t3, t4, t5, t6, t7, t8}
  HALVES <- AidenHalves
  None = None
  MaxCalls = 4
  MaxReady = 1
CHECK_DEADLOCK FALSE
SPECIFICATION Spec
INVARIANTS
  TypeOK
  OneStreamPerSource
  RunningMeansClear
  NoOldLines
PROPERTIES
  StopSilences
