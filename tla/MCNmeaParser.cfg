CONSTANTS
  Byte <- Bytes
  Dollar = 36
  Star = 42
  CR = 13
  LF = 10
  Xor <- XorChar
  HexVal <- StrToHex
  Chunk <- Chunks
  BuffSize = 19
  HeapSize = 5
  MallocMayFail = TRUE
  pheads <- Headers
  ParseOk <- FieldsOk
SPECIFICATION FairSpec
INVARIANTS
  TypeOK
  BufferFits
  NodesAccounted
  QueuedAreFrames
  ResidueScanned
PROPERTIES
  BlockedUntilCleared
  LeakOnlyOnBadFields
  CallReturns
  BlockedEventuallyCleared
CHECK_DEADLOCK FALSE
