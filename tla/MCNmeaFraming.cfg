CONSTANTS
  Byte <- Bytes
  Dollar = 36
  Star = 42
  CR = 13
  LF = 10
  Xor <- XorChar
  HexVal <- StrToHex
  Piece <- Pieces
  MaxLen = 7
SPECIFICATION Spec
INVARIANTS
  TypeOK
  FindTailExact
  SkipsNoSentence
  WaitsOnlyIfOpenOrBlocked
PROPERTIES
  DecisionsAreFinal
CHECK_DEADLOCK FALSE
