SPECIFICATION Spec
CONSTANTS
  Callers = {a, b}
  MaxId = 2
  MaxSegId = 2
  Indexes <- TwoIndexes
  Bytes <- TwoBytes
  FirstBytes <- NoBytes
  Statuses <- TwoStatuses
  MaxOps = 5
  MaxOpens = 2
INVARIANTS ReferencesHold ProgressAddsUp RecoveredIsOnDisk
PROPERTIES NewIdsAreNew
SYMMETRY CallerSymmetry
CHECK_DEADLOCK FALSE
