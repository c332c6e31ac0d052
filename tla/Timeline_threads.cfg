SPECIFICATION Spec
CONSTANTS
  t1 = t1
  t2 = t2
  Threads <- TwoThreads
  MaxTimers = 2
  MaxSessions = 1
CHECK_DEADLOCK FALSE
INVARIANTS
  FileIsAList
