CONSTANTS
  Workers = {w1}
  NumChunks = 1
  QueueSize = 1
SPECIFICATION Spec
PROPERTY CancellationSurfaces
