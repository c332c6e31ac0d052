SPECIFICATION FairSpec
CONSTANTS
  h1 = h1
  h2 = h2
  Tick = 2
  Delays = {3}
  CallbackDelays = {5}
  Handles <- TwoHandles
  Jumps <- BackAndForth
  MaxCalls = 1
  MaxJumps = 1
  MaxLag = 1
CHECK_DEADLOCK FALSE
INVARIANTS
  PassNeverEarly
  WaitMakesUpForDrift
  FiresOnSchedule
  EventsInv
PROPERTIES
  EventEnds
  IntervalRepeats
  DestructorReturns
