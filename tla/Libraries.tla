------------------------------ MODULE Libraries ------------------------------
(***************************************************************************)
(* The components that an embedding program calls one by one, and that do  *)
(* not call each other: each behaviour exercises one of them, the subject, *)
(* while the others rest, so that their state spaces add.                  *)
(***************************************************************************)
EXTENDS SpeedLimiter, Sequences, FiniteSets

CONSTANTS
  Delays, MaxFailures,                      \* ReconnectManager
  MaxDownloads, Priorities, MaxConcurrent,  \* DownloadManager
  QueueIds, QueuePriorities, MaxQueued,     \* QueueManager
  Day, MaxSchedules, MaxScheduleId,         \* ScheduleEngine
  SomeFiles, MaxCategoryId, MaxRules,       \* CategoryEngine
  Workers, SegmentBytes, Overshoot          \* ProgressReport

ASSUME ReconnectAssumption == Delays \subseteq Nat /\ MaxFailures \in Nat

ASSUME ManagerAssumption ==
  MaxDownloads \in Nat /\ Priorities \subseteq Int /\ MaxConcurrent \in Nat

ASSUME QueueAssumption == QueuePriorities \subseteq Int /\ MaxQueued \in Nat

ASSUME ScheduleAssumption == Day \in Nat \ {0} /\ MaxSchedules \in Nat /\ MaxScheduleId \in Nat

ASSUME CategoryAssumption == MaxCategoryId \in Nat /\ MaxRules \in Nat

ASSUME ProgressAssumption ==
  IsFiniteSet(Workers) /\ SegmentBytes \in [Workers -> Nat] /\ Overshoot \in Nat

VARIABLES
  subject,
  retryCount, networkAvailable, baseDelay, maxRetryDelay,
  downloads, nextId, activeCount, leaked,
  queue,
  schedules, minute,
  categories, rules, added,
  bytes, at, whole, sum, reported, checkpoint, outcome, stop, overshot

reconnectVars == <<retryCount, networkAvailable, baseDelay, maxRetryDelay>>
managerVars == <<downloads, nextId, activeCount, leaked>>
scheduleVars == <<schedules, minute>>
categoryVars == <<categories, rules, added>>
progressVars == <<bytes, at, whole, sum, reported, checkpoint, outcome, stop, overshot>>

Reconnect == INSTANCE ReconnectManager
Manager == INSTANCE DownloadManager
Queue == INSTANCE QueueManager
Scheduler == INSTANCE ScheduleEngine
Category == INSTANCE CategoryEngine
Progress == INSTANCE ProgressReport

AllInit ==
  /\ subject \in {"limiter", "reconnect", "manager", "queue", "scheduler", "category",
                  "progress"}
  /\ Init
  /\ Reconnect!Init
  /\ Manager!Init /\ Queue!Init /\ Category!Init /\ Progress!Init
  /\ Scheduler!Init

LimiterStep ==
  /\ subject = "limiter" /\ Next
  /\ UNCHANGED <<subject, reconnectVars, managerVars, queue,
                 scheduleVars, categoryVars, progressVars>>

ReconnectStep ==
  /\ subject = "reconnect" /\ Reconnect!Next
  /\ UNCHANGED <<subject, limiterVars, managerVars, queue,
                 scheduleVars, categoryVars, progressVars>>

ManagerStep ==
  /\ subject = "manager" /\ Manager!Next
  /\ UNCHANGED <<subject, limiterVars, reconnectVars, queue,
                 scheduleVars, categoryVars, progressVars>>

QueueStep ==
  /\ subject = "queue" /\ Queue!Next
  /\ UNCHANGED <<subject, limiterVars, reconnectVars, managerVars,
                 scheduleVars, categoryVars, progressVars>>

SchedulerStep ==
  /\ subject = "scheduler" /\ Scheduler!Next
  /\ UNCHANGED <<subject, limiterVars, reconnectVars, managerVars,
                 queue, categoryVars, progressVars>>

CategoryStep ==
  /\ subject = "category" /\ Category!Next
  /\ UNCHANGED <<subject, limiterVars, reconnectVars, managerVars,
                 queue, scheduleVars, progressVars>>

ProgressStep ==
  /\ subject = "progress" /\ Progress!Next
  /\ UNCHANGED <<subject, limiterVars, reconnectVars, managerVars,
                 queue, scheduleVars, categoryVars>>

AllNext ==
  \/ LimiterStep \/ ReconnectStep \/ ManagerStep \/ QueueStep \/ SchedulerStep
  \/ CategoryStep \/ ProgressStep

allVars == <<subject, limiterVars, reconnectVars, managerVars, queue,
             scheduleVars, categoryVars, progressVars>>

AllSpec == AllInit /\ [][AllNext]_allVars

\* After n failures in a row the delay is the base delay doubled n - 1 times, or the
\* maximum if that is less, whatever order failures, a restored network and changes
\* of the two bounds come in (ReconnectManager).
DelayDoubles == Reconnect!DelayDoubles

\* activeCount is the number of active downloads and of those that were removed while
\* active, through starts, pauses, resumes and cancels of one or of all of them
\* (DownloadManager).
ActiveAccounted == Manager!ActiveAccounted

\* A completed download shows its whole size and has complete checkpoints, though the
\* sums of its workers are stored in any order and a resume takes what it finds on disk;
\* and no number shows more than there is, as long as nothing is longer than its
\* segment (DownloadEngine).
EndedReportsRight == Progress!EndedReportsRight

\* A look at the clock triggers an active schedule exactly if its start has come and
\* it is outside its quiet hours, those that cross midnight included (ScheduleEngine).
QuietHoursKept == Scheduler!QuietHoursKept

\* The queue is sorted and ids ascend along the lists of categories and of rules,
\* after any sequence of insertions, removals and changes; and what the rules say of
\* a file changes only with the rules and the category concerned (QueueManager,
\* CategoryEngine).
ListsKept ==
  /\ [](Queue!HighestFirst /\ Category!IdsAscend)
  /\ Category!DecisionsKept
=============================================================================
