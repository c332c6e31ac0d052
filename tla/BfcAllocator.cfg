SPECIFICATION Spec
CONSTANTS
  u1 = u1
  u2 = u2
  Align = 2
  NumBins = 2
  MaxFragment = 4
  FirstExtend = 4
  Limit = 10
  Word = 32
  MemoryTop = 14
  Requests <- WrappingRequests
  Threads <- TwoThreads
SYMMETRY ThreadSymmetry
CHECK_DEADLOCK FALSE
INVARIANTS
  PoolInv
  AllReturned
  ClientsAreDisjoint
  AllocatedWithinCached
