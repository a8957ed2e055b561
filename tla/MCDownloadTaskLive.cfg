SPECIFICATION FairSpec
CONSTANTS
  Workers = {w1, w2}
  NumSegments = 2
  SegmentSize <- MCTwoChunks
  MaxRetries = 1
  DiskFills = FALSE
  MaxCommands = 1
  MaxOutages = 1
PROPERTIES
  StopEndsRun
  RunEnds
