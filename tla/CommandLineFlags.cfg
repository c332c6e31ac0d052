SPECIFICATION Spec
CONSTANTS
  Args <- MCArgs
  MaxArgs = 3
  FlagOf <- MCFlagOf
  Lists <- MCLists
  Numeral <- MCNumeral
  Decimals <- MCDecimals
  IntBits = 3
  LongBits = 4
  MaxCalls = 2
  Program = Program
  Null = Null
  Unset = Unset
INVARIANTS
  ArgvInv
  OutcomeInv
PROPERTIES
  SecondParseFindsNothing
CHECK_DEADLOCK FALSE
