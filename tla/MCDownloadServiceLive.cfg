SPECIFICATION FairSpec
CONSTANTS
  Files = {fileA}
  MaxId = 2
  MaxLaunches = 2
  MaxCommands = 1
PROPERTIES
  RequestsAnswered
  ShutdownEnds
