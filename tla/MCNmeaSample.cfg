CONSTANTS
  BufSz = 4
  IndexRange = 16
  MaxMsgs = 2
  MaxBytes = 6
SPECIFICATION Spec
INVARIANTS
  TypeOK
  InOrder
  FifoExact
  BytesCounted
  BytesAnnounced
PROPERTIES
  EventuallyRead
CHECK_DEADLOCK FALSE
