CONSTANTS
  NumChunks = 1
  QueueSize = 1
  Readers = {r1, r2}
  Closers = {c1}
SPECIFICATION ExecuteSpec
INVARIANT CleanNextIsComplete
