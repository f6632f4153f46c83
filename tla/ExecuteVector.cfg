CONSTANTS
  NULL = NULL
  MaxRows = 5
  Size = 2
  NumChunks = 3
  QueueSize = 1
  Readers = {r1}
  Closers = {c1}
SPECIFICATION FairSpec
INVARIANTS ConnReleased ChunksAreTheRows CleanNextIsEveryRow
PROPERTIES CancelEnds CloseReturns
CHECK_DEADLOCK FALSE
