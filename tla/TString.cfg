SPECIFICATION Spec
CONSTANTS
  x = x
  y = y
  z = z
  b1 = b1
  b2 = b2
  b3 = b3
  b4 = b4
  Objects <- TwoObjects
  Temporary = Temporary
  Buffers <- MCBuffers
  Chars = {1, 2}
  Nul = Nul
  Texts <- MCTexts
  SmallCapacity = 1
  Alignment = 2
  MaxLen = 3
  Reserves = {3, 6}
  Wild = Wild
  Dead = Dead
  Lost = Lost
  NoObject = NoObject
  ByteValues = 4
  SizeBytes = 2
SYMMETRY Symmetry
INVARIANTS
  HeapInv
  OwnedTextEnds
  TextInv
CHECK_DEADLOCK FALSE
