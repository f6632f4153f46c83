CONSTANTS
  NumChunks = 3
  QueueSize = 1
  Readers = {r1}
  Closers = {c1}
SPECIFICATION ExecuteFairSpec
INVARIANTS
  ExecuteTypeOK
  CleanNextIsComplete
PROPERTIES
  TerminalIsStable
  CallsReturn
  CloseReleases
  StraightRefinesStream
