CONSTANTS
  ByteRange = 256
  MaxView = 6
  MaxPack = 40
  GgaFields <- MCGgaFields
  RmcFields <- MCRmcFields
  SatCounts = {0, 1, 7}
  OddNumbers = {3, 65, 256}
  MaxCycles = 2
SPECIFICATION Spec
INVARIANTS
  TypeOK
  SectionsFound
  RecordsDecode
  TableIsCycle
CHECK_DEADLOCK FALSE
