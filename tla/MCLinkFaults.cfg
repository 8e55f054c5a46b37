CONSTANTS
  Byte <- Bytes
  Dollar = 36
  Star = 42
  CR = 13
  LF = 10
  Xor <- XorChar
  HexVal <- StrToHex
  Chunk <- NoChunk
  BuffSize = 26
  HeapSize = 12
  MallocMayFail = TRUE
  pheads <- Headers
  ParseOk <- FieldsOk
  Stream <- CleanStreams
  MaxCut = 26
  MaxLost = 0
SPECIFICATION LinkSpec
INVARIANTS
  AtLeastOnce
  NoOvertaking
  OverflowOnlyLoses
CHECK_DEADLOCK FALSE
