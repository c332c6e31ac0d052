SPECIFICATION FairSpec
CONSTANTS
  push1 = push1
  pop1 = pop1
  pop2 = pop2
  peek1 = peek1
  x = x
  y = y
  None = None
  NoThread = NoThread
  Pushers <- OnePusher
  Poppers <- TwoPoppers
  Peekers <- OnePeeker
  Value <- TwoValues
  CopyThrows = TRUE
  MaxItems = 2
  MaxCalls = 6
  MaxSpurious = 1
CHECK_DEADLOCK FALSE
INVARIANTS
  QueueInv
PROPERTIES
  ImplementsFifo
  PopReturns
