SPECIFICATION Spec
CONSTANTS
  t1 = t1
  t2 = t2
  Threads <- OneThread
  MaxTimers = 4
  MaxSessions = 3
CHECK_DEADLOCK FALSE
INVARIANTS
  FileIsAList
  EntriesInv
