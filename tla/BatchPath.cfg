CONSTANTS
  NULL = NULL
  YearOne = YearOne
  Undecodable = Undecodable
  Radix = 2
  MicrosPerSec = 10
  SecsPerDay = 3
  Y2K = 20
  Results <- SomeResults
  Cells <- SomeCells
  Values <- SomeValues
  Filters <- SomeFilters
  Projections <- SomeProjections
  Selections <- SomeSelections
  MaxRows = 3
  MaxRefill = 2
SPECIFICATION Spec
INVARIANTS RowPathAgrees BitmapFits
