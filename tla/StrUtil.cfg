SPECIFICATION StrUtilSpec
CONSTANTS
  Alphabet <- MCAlphabet
  MaxPiece = 4
  Word = 32
  SpaceLength = 3
  Subs <- MCSubs
  Delims <- MCDelims
  Fresh = 128
INVARIANTS
  NumbersAreExact
  ArgDefCaseInv
  RewritesInv
  WordsInv
CHECK_DEADLOCK FALSE
