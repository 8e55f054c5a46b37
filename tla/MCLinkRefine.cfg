CONSTANTS
  Byte <- Bytes
  Dollar = 36
  Star = 42
  CR = 13
  LF = 10
  Xor <- XorChar
  HexVal <- StrToHex
  Chunk <- NoChunk
  BuffSize = 40
  HeapSize = 12
  MallocMayFail = FALSE
  pheads <- Headers
  ParseOk <- FieldsOk
  Stream <- Streams
  MaxCut = 17
  MaxLost = 1
SPECIFICATION LinkSpec
PROPERTIES
  ImplementsStream
CHECK_DEADLOCK FALSE
