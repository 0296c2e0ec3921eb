SPECIFICATION Spec
CONSTANTS
  OtherWords <- MCOtherWords
  UnknownFlags = {"--help"}
  MaxArgs = 4
  Blank = Blank
  None = None
CHECK_DEADLOCK FALSE
INVARIANTS
  LineUnderstood
