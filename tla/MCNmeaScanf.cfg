CONSTANTS
  Char <- MCChar
  Base <- MCBase
  Contents <- MCContents
  MaxEdits = 2
SPECIFICATION Spec
INVARIANTS
  TypeOK
  GoodAccepted
  AcceptedDecodes
CHECK_DEADLOCK FALSE
