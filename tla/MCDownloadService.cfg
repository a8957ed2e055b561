SPECIFICATION Spec
CONSTANTS
  Files = {fileA, fileB}
  MaxId = 2
  MaxLaunches = 3
  MaxCommands = 2
SYMMETRY Symmetry
INVARIANTS
  IInv
  RowMatchesTask
  NothingForgotten
PROPERTIES
  LiveTaskKept
  
