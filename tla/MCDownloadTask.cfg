SPECIFICATION Spec
CONSTANTS
  Workers = {w1, w2}
  NumSegments = 2
  SegmentSize <- MCThreeChunks
  MaxRetries = 1
  DiskFills = FALSE
  MaxCommands = 2
  MaxOutages = 0
SYMMETRY Symmetry
INVARIANTS
  IInv
  SegmentExclusive
  MergeOnlyWhole
  CompletedIsWhole
  FinishedIsQuiet
  OnlyPauseKeepsParts
  TransfersAccounted
PROPERTIES
  NoByteLost
  ImplementsTransfer
