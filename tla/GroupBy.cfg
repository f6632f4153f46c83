CONSTANTS
  NULL = NULL
  DenseMaxGroups = 2
  Families <- AllFamilies
  Batches <- SomeBatches
  MaxRows = 3
SPECIFICATION GroupSpec
INVARIANTS ReportsItsRows NoSplitGroup
