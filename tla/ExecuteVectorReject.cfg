CONSTANTS
  NULL = NULL
  MaxRows = 1
  Size = 2
  NumChunks = 1
  QueueSize = 1
  Readers = {r1}
  Closers = {c1}
SPECIFICATION FairSpec
PROPERTY TeardownBounded
CHECK_DEADLOCK FALSE
