SPECIFICATION MCSpec
CONSTANTS
  Downloads = {d1, d2}
  Categories = {c1}
  Rates <- SomeRates
  Requests <- SomeRequests
  TicksPerSecond = 2
  MaxTime = 4
  Delays <- SomeDelays
  MaxFailures = 6
  MaxDownloads = 3
  Priorities = {0, 1}
  MaxConcurrent = 2
  QueueIds = {1, 2}
  QueuePriorities <- SomeQueuePriorities
  MaxQueued = 3
  Day = 4
  MaxSchedules = 1
  MaxScheduleId = 2
  SomeFiles = {"f"}
  MaxCategoryId = 3
  MaxRules = 2
  Workers = {1, 2}
  SegmentBytes <- SomeBytes
  Overshoot = 1
INVARIANTS GrantedWithinRate DelayDoubles ActiveAccounted EndedReportsRight
PROPERTIES ListsKept QuietHoursKept
CHECK_DEADLOCK FALSE
