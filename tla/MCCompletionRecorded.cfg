SPECIFICATION FairSpec
CONSTANTS
  Workers = {w1, w2}
  NumSegments = 2
  SegmentSize <- MCTwoChunks
  MaxRetries = 1
  DiskFills = FALSE
  MaxCommands = 2
  MaxOutages = 0
PROPERTY
  CompletionRecorded
