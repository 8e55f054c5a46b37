CONSTANTS
  MaxSat = 4
  SatInPack = 2
  IntMax = 31
  Sat = {1, 2, 3, 4, 5}
  Views <- Views3
  GSA <- SomeGSA
  GGA <- SomeGGA
  RMC <- SomeRMC
  VTG <- SomeVTG
  OddGSV <- Odd
  MaxLost = 1
SPECIFICATION Spec
INVARIANTS
  TypeOK
  GsvStaysInTable
  CycleInstalled
  VerdictKept
CHECK_DEADLOCK FALSE
