CONSTANTS
  NULL = NULL
  DenseMaxGroups = 4
  Mod = 3
  HasVal = TRUE
  Cases <- AllCases
  Requests = {0, 2, 3, 4}
  ParSlots = 12
  MinMergers = 2
  MinTotal = 3
  MaxParts = 3
SPECIFICATION FairSpec
INVARIANTS QuietAfterBarrier EarliestError MergedListsEachSlot
PROPERTIES RefinesAggCall CallReturns
CHECK_DEADLOCK FALSE
