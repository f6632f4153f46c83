CONSTANTS
  Workers = {w1}
  NumChunks = 2
  QueueSize = 1
  Readers = {r1}
  Closers = {c1}
SPECIFICATION FewRejectedSpec
INVARIANTS
  CleanNextIsComplete
  FirstErrorWins
PROPERTIES
  CallsReturn
  CloseReleases
