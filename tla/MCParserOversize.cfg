CONSTANTS
  Byte <- Bytes
  Dollar = 36
  Star = 42
  CR = 13
  LF = 10
  Xor <- XorChar
  HexVal <- StrToHex
  Chunk <- BigChunks
  BuffSize = 15
  HeapSize = 5
  MallocMayFail = FALSE
  pheads <- Headers
  ParseOk <- FieldsOk
SPECIFICATION Spec
INVARIANTS
  PushReadsOn
