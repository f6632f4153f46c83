CONSTANTS
  k1 = k1
  k2 = k2
  k3 = k3
  Keys = {k1, k2, k3}
  Hash <- Hashes
  Measures <- RowMeasures
  InitCap = 2
  MaxReserve = 3
  MaxRows = 2
SPECIFICATION RunSpec
INVARIANTS IInv ProbeEnds
PROPERTIES RefinesGroupMap CallsReturn
