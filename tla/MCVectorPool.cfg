CONSTANTS
  Workers = {w1, w2}
  NumChunks = 3
  QueueSize = 1
SYMMETRY WorkerSymmetry
SPECIFICATION VectorSpec
INVARIANTS
  IInv
  OneHolder
  BatchesIntact
  PendingWaitsForNext
  NoSendOnClosed
  CleanEOFIsComplete
  ScanErrorBeatsCloseError
PROPERTY RefinesStream
