SPECIFICATION Spec
CONSTANTS
  FileSizes <- MCFileSizes
  Connections <- MCConnections
INVARIANTS
  Partition
  Balanced
