SPECIFICATION Spec
CONSTANTS
  Size = 5
  EncodedSize = 4
  Servers <- AllServers
  MaxConnections = 3
  MaxRetries = 2
  StaleBytes = {1, 5}
  ErrorBytes = {0, 1, 6}
  Buffer = 2
  MaxFaults = 2
  MaxStops = 1
INVARIANTS ResumedIsRight UninterruptedIsRight StopsAtNextByte
