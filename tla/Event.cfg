SPECIFICATION FairEventSpec
CONSTANTS
  w1 = w1
  w2 = w2
  w3 = w3
  s1 = s1
  s2 = s2
  Waiters <- ThreeWaiters
  Signalers <- TwoSignalers
  MaxSignals = 4
  MaxResets = 2
  MaxSpurious = 1
CHECK_DEADLOCK FALSE
INVARIANTS
  EventInv
  OnePassPerSignal
PROPERTY WaitReturns
