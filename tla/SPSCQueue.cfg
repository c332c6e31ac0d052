SPECIFICATION LiveSpec
CONSTANTS
  a = a
  b = b
  Capacity = 4
  Value <- MCValue
  Raw = Raw
  Husk = Husk
  None = None
INVARIANTS
  SlotsInv
  NothingLeaks
PROPERTIES
  RoomIsStable
  ImplementsFifo
  SpinsEnd
CHECK_DEADLOCK FALSE
