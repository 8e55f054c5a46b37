CONSTANTS
  MaxSat = 4
  SatInPack = 2
  IntMax = 31
  Sat = {1, 2, 3, 4, 5}
  Views <- LargeViews
  GSA <- SomeGSA
  GGA <- None
  RMC <- None
  VTG <- None
  OddGSV <- None
  MaxLost = 0
SPECIFICATION Spec
INVARIANTS
  GsaStaysInTable
