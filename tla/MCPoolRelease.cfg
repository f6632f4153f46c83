CONSTANTS
  Workers = {w1}
  NumChunks = 6
  QueueSize = 1
SPECIFICATION FullPipelineSpec
PROPERTIES
  CancelReleases
  ScanErrorReleases
  DrainReleases
  HungCloseWedgesNoWorker
