------------------------ MODULE DownloadServiceProofs ------------------------
(***************************************************************************)
(* Proofs about DownloadService for any number of downloads, save paths,   *)
(* sessions and commands: its invariant, and that no download is           *)
(* forgotten, replaced in memory, separated from its row or, in the        *)
(* database, replaced by a new one.                                        *)
(***************************************************************************)
EXTENDS DownloadServiceInv, TLAPS

\* A task is never mistaken for the absence of one, nor a row.
LEMMA TasksAreTasks ==
  /\ \A t \in TaskRecords : t # NoTask
  /\ \A f \in Files : NewTask(f) \in TaskRecords
  /\ \A r \in RowRecords : r # NoRow
<1>1. \A t \in TaskRecords : t # NoTask
  <2>1. \A t \in TaskRecords : "run" \in DOMAIN t
    BY DEF TaskRecords
  <2>2. "run" \notin DOMAIN NoTask
    BY DEF NoTask
  <2> QED BY <2>1, <2>2
<1>2. \A f \in Files : NewTask(f) \in TaskRecords
  BY DEF NewTask, TaskRecords
<1>3. \A r \in RowRecords : r # NoRow
  <2>1. \A r \in RowRecords : "file" \in DOMAIN r
    BY DEF RowRecords
  <2>2. "file" \notin DOMAIN NoRow
    BY DEF NoRow
  <2> QED BY <2>1, <2>2
<1> QED BY <1>1, <1>2, <1>3

\* What the actions may change of a task leaves it a task of the same file.
LEMMA TaskChanged ==
  ASSUME NEW t \in TaskRecords
  PROVE  /\ [t EXCEPT !.pause = TRUE] \in TaskRecords
         /\ [t EXCEPT !.pause = TRUE].file = t.file
         /\ [t EXCEPT !.cancel = TRUE] \in TaskRecords
         /\ [t EXCEPT !.cancel = TRUE].file = t.file
         /\ [t EXCEPT !.failed = TRUE] \in TaskRecords
         /\ [t EXCEPT !.failed = TRUE].file = t.file
         /\ NewTask(t.file) \in TaskRecords
         /\ NewTask(t.file).file = t.file
         /\ \A end \in {"paused", "cancelled", "failed", "completed",
                        "unmerged"} :
              /\ [t EXCEPT !.run = end] \in TaskRecords
              /\ [t EXCEPT !.run = end].file = t.file
              /\ [t EXCEPT !.run = end].run = end
BY DEF TaskRecords, NewTask

\* What updateDownloadStatus does to the table.
LEMMA StatusWritten ==
  ASSUME TypeOK, NEW id \in Ids,
         NEW s \in {"queued", "downloading", "reconnecting", "paused", "failed",
                    "cancelled"}
  PROVE  /\ WithStatus(id, s) \in [Ids -> RowRecords \cup {NoRow}]
         /\ \A k \in Ids : k # id => WithStatus(id, s)[k] = rows[k]
         /\ rows[id] = NoRow => WithStatus(id, s)[id] = NoRow
         /\ rows[id] # NoRow =>
              /\ WithStatus(id, s)[id] \in RowRecords
              /\ WithStatus(id, s)[id].file = rows[id].file
<1>1. rows \in [Ids -> RowRecords \cup {NoRow}]
  BY DEF TypeOK, RowsTyped
<1>2. ASSUME rows[id] # NoRow
      PROVE  /\ [rows[id] EXCEPT !.status = s] \in RowRecords
             /\ [rows[id] EXCEPT !.status = s].file = rows[id].file
             /\ rows[id] \in RowRecords
  <2>1. rows[id] \in RowRecords
    BY <1>1, <1>2
  <2> QED BY <2>1 DEF RowRecords
<1> QED BY <1>1, <1>2, TasksAreTasks DEF WithStatus

\* There is an id, and the first one is 1.
LEMMA FirstId == 1 \in Ids /\ 1 \in 1..(MaxId + 1)
BY ServiceAssumption DEF Ids

\* The invariant holds of a service never started.
LEMMA InitInv == Init => IInv
<1> SUFFICES ASSUME Init PROVE IInv
  OBVIOUS
<1>1. TypeOK
  <2>1. MemoryTyped /\ RowsTyped
    BY FirstId DEF Init, MemoryTyped, RowsTyped
  <2>2. launches \in 0..MaxLaunches /\ commands \in 0..MaxCommands
    BY ServiceAssumption DEF Init
  <2> QED BY FirstId, <2>1, <2>2 DEF Init, TypeOK, RestTyped
<1>2. \A id \in Ids : ~Live(id)
  BY DEF Init, Live
<1>3. IdsBelowCounter /\ NothingWhenDown
  BY <1>2 DEF Init, IdsBelowCounter, NothingWhenDown
<1>4. RequestAboutTask /\ RowMatchesTask
  BY <1>2 DEF Init, RequestAboutTask, RowMatchesTask
<1>5. UnfinishedHaveRows /\ NothingForgottenYet
  BY DEF Init, UnfinishedHaveRows, NothingForgottenYet
<1> QED BY <1>1, <1>3, <1>4, <1>5 DEF IInv

\* Typing, of what is neither a task nor a row.
LEMMA RestStep == IInv /\ [Next]_vars => RestTyped'
<1> SUFFICES ASSUME IInv, [Next]_vars PROVE RestTyped'
  OBVIOUS
<1>1. CASE Launch
  BY ServiceAssumption, <1>1
  DEF IInv, TypeOK, RestTyped, Launch, memoryVars, Ids, apiVars
<1>2. CASE RecoveryDone
  BY <1>2
  DEF IInv, TypeOK, RestTyped, RecoveryDone, memoryVars, apiVars, startVars
<1>3. CASE Relaunch
  BY <1>3 DEF IInv, TypeOK, RestTyped, Relaunch, startVars
<1>4. CASE WriteRow
  BY FirstId, <1>4 DEF IInv, TypeOK, RestTyped, WriteRow
<1>5. CASE Stop
  BY <1>5 DEF IInv, TypeOK, RestTyped, Stop, apiVars, startVars
<1>6. CASE Stopped
  BY FirstId, <1>6 DEF IInv, TypeOK, RestTyped, Stopped, EndOfSession
<1>7. CASE Crash
  BY FirstId, <1>7 DEF IInv, TypeOK, RestTyped, Crash, EndOfSession
<1>8. ASSUME NEW f \in Files, AddDownload(f) PROVE RestTyped'
  BY ServiceAssumption, <1>8
  DEF IInv, TypeOK, MemoryTyped, RestTyped, AddDownload, Ids, startVars
<1>9. ASSUME NEW id \in Ids, Recover(id) PROVE RestTyped'
  BY ServiceAssumption, <1>9 DEF IInv, TypeOK, RestTyped, Recover, Ids
<1>10. ASSUME NEW id \in Ids, SkipRecovery(id) PROVE RestTyped'
  BY <1>10 DEF IInv, TypeOK, RestTyped, SkipRecovery, memoryVars, apiVars
<1>11. ASSUME NEW id \in Ids, PauseDownload(id) PROVE RestTyped'
  BY ServiceAssumption, <1>11
  DEF IInv, TypeOK, RestTyped, PauseDownload, Command, startVars
<1>12. ASSUME NEW id \in Ids, CancelDownload(id) PROVE RestTyped'
  BY ServiceAssumption, <1>12
  DEF IInv, TypeOK, RestTyped, CancelDownload, Command, startVars
<1>13. ASSUME NEW id \in Ids, ResumeDownload(id) PROVE RestTyped'
  BY ServiceAssumption, <1>13
  DEF IInv, TypeOK, RestTyped, ResumeDownload, Command, startVars
<1>14. ASSUME NEW id \in Ids, Reconnect(id) PROVE RestTyped'
  BY <1>14
  DEF IInv, TypeOK, RestTyped, Reconnect, memoryVars, apiVars, startVars
<1>15. ASSUME NEW id \in Ids, GiveUp(id) PROVE RestTyped'
  BY <1>15 DEF IInv, TypeOK, RestTyped, GiveUp, apiVars, startVars
<1>16. ASSUME NEW id \in Ids, EndRun(id) PROVE RestTyped'
  BY <1>16 DEF IInv, TypeOK, RestTyped, EndRun, apiVars, startVars
<1>17. CASE Over \/ UNCHANGED vars
  BY <1>17 DEF IInv, TypeOK, RestTyped, Over, vars
<1> QED
  BY <1>1, <1>2, <1>3, <1>4, <1>5, <1>6, <1>7, <1>8, <1>9, <1>10, <1>11,
     <1>12, <1>13, <1>14, <1>15, <1>16, <1>17
  DEF Next, Run

\* Typing of the tasks and the counter.
LEMMA MemoryStep == IInv /\ [Next]_vars => MemoryTyped'
<1> SUFFICES ASSUME IInv, [Next]_vars PROVE MemoryTyped'
  OBVIOUS
<1>1. CASE Launch
  BY <1>1 DEF IInv, TypeOK, MemoryTyped, Launch, memoryVars
<1>2. CASE RecoveryDone
  BY <1>2
  DEF IInv, TypeOK, MemoryTyped, RecoveryDone, memoryVars, apiVars, startVars
<1>3. CASE Relaunch
  <2>1. /\ tasks \in [Ids -> TaskRecords \cup {NoTask}]
        /\ Live(apiId) /\ apiId \in Ids
    BY <1>3 DEF IInv, TypeOK, MemoryTyped, RestTyped, RequestAboutTask, Relaunch
  <2>2. tasks[apiId] \in TaskRecords
    BY <2>1 DEF Live
  <2>3. NewTask(tasks[apiId].file) \in TaskRecords
    BY <2>2, TaskChanged
  <2> QED
    BY <2>1, <2>3, <1>3 DEF IInv, TypeOK, MemoryTyped, Relaunch
<1>4. CASE WriteRow
  BY <1>4 DEF IInv, TypeOK, MemoryTyped, WriteRow, memoryVars, startVars
<1>5. CASE Stop
  <2>1. tasks \in [Ids -> TaskRecords \cup {NoTask}]
    BY DEF IInv, TypeOK, MemoryTyped
  <2>2. ASSUME NEW id \in Ids, Live(id)
        PROVE  [tasks[id] EXCEPT !.cancel = TRUE] \in TaskRecords
    <3>1. tasks[id] \in TaskRecords
      BY <2>1, <2>2 DEF Live
    <3> QED BY <3>1, TaskChanged
  <2> QED
    BY <2>2, <1>5 DEF IInv, TypeOK, MemoryTyped, Stop
<1>6. CASE Stopped
  BY ServiceAssumption, <1>6 DEF MemoryTyped, Stopped, EndOfSession, Ids
<1>7. CASE Crash
  BY ServiceAssumption, <1>7 DEF MemoryTyped, Crash, EndOfSession, Ids
<1>8. ASSUME NEW f \in Files, AddDownload(f) PROVE MemoryTyped'
  <2>1. nextDownloadId \in Ids /\ NewTask(f) \in TaskRecords
    BY ServiceAssumption, TasksAreTasks, <1>8
    DEF IInv, TypeOK, MemoryTyped, AddDownload, Ids
  <2> QED
    BY ServiceAssumption, <2>1, <1>8
    DEF IInv, TypeOK, MemoryTyped, AddDownload, Ids
<1>9. ASSUME NEW id \in Ids, Recover(id) PROVE MemoryTyped'
  <2>1. rows[id] \in RowRecords
    BY <1>9 DEF IInv, TypeOK, RowsTyped, UnfinishedHaveRows, Recover
  <2>2. NewTask(rows[id].file) \in TaskRecords
    BY <2>1, TasksAreTasks DEF RowRecords
  <2> QED
    BY ServiceAssumption, <2>2, <1>9
    DEF IInv, TypeOK, MemoryTyped, Recover, PastHint, Ids
<1>10. ASSUME NEW id \in Ids, SkipRecovery(id) PROVE MemoryTyped'
  BY <1>10 DEF IInv, TypeOK, MemoryTyped, SkipRecovery, memoryVars, apiVars
<1>11. ASSUME NEW id \in Ids, PauseDownload(id) PROVE MemoryTyped'
  <2>1. tasks \in [Ids -> TaskRecords \cup {NoTask}] /\ Live(id)
    BY <1>11 DEF IInv, TypeOK, MemoryTyped, PauseDownload, Command, Active
  <2>2. tasks[id] \in TaskRecords
    BY <2>1 DEF Live
  <2>3. [tasks[id] EXCEPT !.pause = TRUE] \in TaskRecords
    BY <2>2, TaskChanged
  <2> QED
    BY <2>1, <2>3, <1>11
    DEF IInv, TypeOK, MemoryTyped, PauseDownload, Command, startVars
<1>12. ASSUME NEW id \in Ids, CancelDownload(id) PROVE MemoryTyped'
  <2>1. tasks \in [Ids -> TaskRecords \cup {NoTask}] /\ Live(id)
    BY <1>12 DEF IInv, TypeOK, MemoryTyped, CancelDownload, Command, Active
  <2>2. tasks[id] \in TaskRecords
    BY <2>1 DEF Live
  <2>3. [tasks[id] EXCEPT !.cancel = TRUE] \in TaskRecords
    BY <2>2, TaskChanged
  <2> QED
    BY <2>1, <2>3, <1>12
    DEF IInv, TypeOK, MemoryTyped, CancelDownload, Command, startVars
<1>13. ASSUME NEW id \in Ids, ResumeDownload(id) PROVE MemoryTyped'
  BY <1>13 DEF IInv, TypeOK, MemoryTyped, ResumeDownload, Command, startVars
<1>14. ASSUME NEW id \in Ids, Reconnect(id) PROVE MemoryTyped'
  BY <1>14
  DEF IInv, TypeOK, MemoryTyped, Reconnect, memoryVars, apiVars, startVars
<1>15. ASSUME NEW id \in Ids, GiveUp(id) PROVE MemoryTyped'
  <2>1. tasks \in [Ids -> TaskRecords \cup {NoTask}] /\ Live(id)
    BY <1>15 DEF IInv, TypeOK, MemoryTyped, GiveUp, Active
  <2>2. tasks[id] \in TaskRecords
    BY <2>1 DEF Live
  <2>3. [tasks[id] EXCEPT !.failed = TRUE] \in TaskRecords
    BY <2>2, TaskChanged
  <2> QED
    BY <2>1, <2>3, <1>15
    DEF IInv, TypeOK, MemoryTyped, GiveUp, apiVars, startVars
<1>16. ASSUME NEW id \in Ids, EndRun(id) PROVE MemoryTyped'
  <2>1. tasks \in [Ids -> TaskRecords \cup {NoTask}] /\ Live(id)
    BY <1>16 DEF IInv, TypeOK, MemoryTyped, EndRun, Active
  <2>2. tasks[id] \in TaskRecords
    BY <2>1 DEF Live
  <2>3. PICK end \in Ends(tasks[id]) : tasks' = [tasks EXCEPT ![id].run = end]
    BY <1>16 DEF EndRun
  <2>4. [tasks[id] EXCEPT !.run = end] \in TaskRecords
    BY <2>2, TaskChanged DEF Ends
  <2> QED
    BY <2>1, <2>3, <2>4, <1>16 DEF IInv, TypeOK, MemoryTyped, EndRun
<1>17. CASE Over \/ UNCHANGED vars
  BY <1>17 DEF IInv, TypeOK, MemoryTyped, Over, vars
<1> QED
  BY <1>1, <1>2, <1>3, <1>4, <1>5, <1>6, <1>7, <1>8, <1>9, <1>10, <1>11,
     <1>12, <1>13, <1>14, <1>15, <1>16, <1>17
  DEF Next, Run

\* Typing of the rows.
LEMMA RowsStep == IInv /\ [Next]_vars => RowsTyped'
<1> SUFFICES ASSUME IInv, [Next]_vars PROVE RowsTyped'
  OBVIOUS
<1>1. CASE Launch
  <2>1. \A id \in Ids : rows[id] # NoRow =>
          [rows[id] EXCEPT !.status = "queued"] \in RowRecords
    BY DEF IInv, TypeOK, RowsTyped, RowRecords
  <2> QED
    BY <2>1, <1>1 DEF IInv, TypeOK, RowsTyped, Launch, memoryVars, Unfinished, apiVars
<1>2. CASE RecoveryDone
  BY <1>2
  DEF IInv, TypeOK, RowsTyped, RecoveryDone, memoryVars, apiVars, startVars
<1>3. CASE Relaunch
  <2>1. tasks[apiId] \in TaskRecords
    BY <1>3
    DEF IInv, TypeOK, MemoryTyped, RestTyped, RequestAboutTask, Relaunch, Live
  <2>2. apiRow' \in RowRecords
    BY <2>1, <1>3 DEF TaskRecords, RowRecords, Relaunch
  <2> QED
    BY <2>2, <1>3 DEF IInv, TypeOK, RowsTyped, Relaunch
<1>4. CASE WriteRow
  <2>1. apiId \in Ids /\ apiRow \in RowRecords
    BY <1>4 DEF IInv, TypeOK, RestTyped, RequestAboutTask, WriteRow
  <2>2. apiRow.status \in {"queued", "downloading", "reconnecting", "paused",
                           "failed", "cancelled"}
    BY <2>1 DEF RowRecords
  <2>3. WithStatus(apiId, apiRow.status) \in [Ids -> RowRecords \cup {NoRow}]
    BY <2>1, <2>2, StatusWritten DEF IInv
  <2> QED
    BY <2>1, <2>3, <1>4 DEF IInv, TypeOK, RowsTyped, WriteRow, memoryVars
<1>5. CASE Stop
  BY <1>5 DEF IInv, TypeOK, RowsTyped, Stop, apiVars, startVars
<1>6. CASE Stopped
  BY <1>6 DEF IInv, TypeOK, RowsTyped, Stopped, EndOfSession, apiVars, startVars
<1>7. CASE Crash
  BY <1>7 DEF IInv, TypeOK, RowsTyped, Crash, EndOfSession, startVars
<1>8. ASSUME NEW f \in Files, AddDownload(f) PROVE RowsTyped'
  <2>1. apiRow' \in RowRecords
    BY <1>8 DEF RowRecords, AddDownload
  <2> QED
    BY <2>1, <1>8 DEF IInv, TypeOK, RowsTyped, AddDownload
<1>9. ASSUME NEW id \in Ids, Recover(id) PROVE RowsTyped'
  <2>1. rows[id] \in RowRecords
    BY <1>9 DEF IInv, TypeOK, RowsTyped, UnfinishedHaveRows, Recover
  <2>2. apiRow' \in RowRecords
    BY <2>1, <1>9 DEF RowRecords, Recover
  <2> QED
    BY <2>2, <1>9 DEF IInv, TypeOK, RowsTyped, Recover
<1>10. ASSUME NEW id \in Ids, SkipRecovery(id) PROVE RowsTyped'
  BY <1>10 DEF IInv, TypeOK, RowsTyped, SkipRecovery, memoryVars, apiVars
<1>11. ASSUME NEW id \in Ids, PauseDownload(id) PROVE RowsTyped'
  <2>1. tasks[id] \in TaskRecords
    BY <1>11 DEF IInv, TypeOK, MemoryTyped, PauseDownload, Command, Live
  <2>2. apiRow' \in RowRecords
    BY <2>1, <1>11 DEF TaskRecords, RowRecords, PauseDownload
  <2> QED
    BY <2>2, <1>11 DEF IInv, TypeOK, RowsTyped, PauseDownload, Command
<1>12. ASSUME NEW id \in Ids, CancelDownload(id) PROVE RowsTyped'
  <2>1. tasks[id] \in TaskRecords
    BY <1>12 DEF IInv, TypeOK, MemoryTyped, CancelDownload, Command, Live
  <2>2. apiRow' \in RowRecords
    BY <2>1, <1>12 DEF TaskRecords, RowRecords, CancelDownload
  <2> QED
    BY <2>2, <1>12 DEF IInv, TypeOK, RowsTyped, CancelDownload, Command
<1>13. ASSUME NEW id \in Ids, ResumeDownload(id) PROVE RowsTyped'
  BY <1>13 DEF IInv, TypeOK, RowsTyped, ResumeDownload, Command, startVars
<1>14. ASSUME NEW id \in Ids, Reconnect(id) PROVE RowsTyped'
  BY StatusWritten, <1>14
  DEF IInv, TypeOK, RowsTyped, Reconnect, memoryVars, apiVars, startVars
<1>15. ASSUME NEW id \in Ids, GiveUp(id) PROVE RowsTyped'
  BY StatusWritten, <1>15
  DEF IInv, TypeOK, RowsTyped, GiveUp, apiVars, startVars
<1>16. ASSUME NEW id \in Ids, EndRun(id) PROVE RowsTyped'
  BY <1>16 DEF IInv, TypeOK, RowsTyped, EndRun, apiVars, startVars
<1>17. CASE Over \/ UNCHANGED vars
  BY <1>17 DEF IInv, TypeOK, RowsTyped, Over, vars
<1> QED
  BY <1>1, <1>2, <1>3, <1>4, <1>5, <1>6, <1>7, <1>8, <1>9, <1>10, <1>11,
     <1>12, <1>13, <1>14, <1>15, <1>16, <1>17
  DEF Next, Run

\* What a step may make of the task with an id: within a session it stays, is of
\* the same file and loses no request to stop while it runs; a task comes from
\* addDownload, under the id that is next, or from the recovery of its row.
TaskFate(k) ==
  /\ Live(k) /\ service' # "down" =>
       /\ Live(k)' /\ tasks'[k].file = tasks[k].file
       /\ Active(k) /\ Active(k)' =>
            /\ tasks[k].pause => tasks'[k].pause
            /\ tasks[k].cancel => tasks'[k].cancel
  /\ ~Live(k) /\ Live(k)' =>
       \/ Recover(k)
       \/ k = nextDownloadId /\ \E f \in Files : AddDownload(f)

\* A step that leaves tasksById alone.
LEMMA NoTaskChanges ==
  ASSUME tasks' = tasks
  PROVE  \A k \in Ids : TaskFate(k)
BY DEF TaskFate, Live, Active

\* A step that replaces one task by a task of the same file.
LEMMA OneTaskChanges ==
  ASSUME IInv, NEW id \in Ids, Live(id), NEW t \in TaskRecords,
         tasks' = [tasks EXCEPT ![id] = t], t.file = tasks[id].file,
         Active(id) /\ t.run = "running" =>
           /\ tasks[id].pause => t.pause
           /\ tasks[id].cancel => t.cancel
  PROVE  \A k \in Ids : TaskFate(k)
<1> SUFFICES ASSUME NEW k \in Ids PROVE TaskFate(k)
  OBVIOUS
<1>1. CASE k = id
  <2>1. tasks'[k] = t
    BY <1>1 DEF IInv, TypeOK, MemoryTyped
  <2>2. Live(k)'
    BY <2>1, TasksAreTasks DEF Live
  <2> QED BY <1>1, <2>1, <2>2 DEF TaskFate, Live, Active
<1>2. CASE k # id
  <2>1. tasks'[k] = tasks[k]
    BY <1>2 DEF IInv, TypeOK, MemoryTyped
  <2> QED BY <2>1 DEF TaskFate, Live, Active
<1> QED BY <1>1, <1>2

\* A session that ends has no tasks, so that nothing is to be shown of them.
LEMMA NoTasksLeft ==
  ASSUME service' = "down", tasks' = [id \in Ids |-> NoTask]
  PROVE  \A k \in Ids : TaskFate(k)
BY DEF TaskFate, Live

\* Every step makes of every task only what it may.
LEMMA TaskFates == IInv /\ [Next]_vars => \A k \in Ids : TaskFate(k)
<1> SUFFICES ASSUME IInv, [Next]_vars PROVE \A k \in Ids : TaskFate(k)
  OBVIOUS
<1>1. CASE Launch
  BY NoTaskChanges, <1>1 DEF Launch, memoryVars
<1>2. CASE RecoveryDone
  BY NoTaskChanges, <1>2 DEF RecoveryDone, memoryVars
<1>3. CASE Relaunch
  <2>1. tasks[apiId] \in TaskRecords /\ Live(apiId) /\ apiId \in Ids
    BY <1>3
    DEF IInv, TypeOK, MemoryTyped, RestTyped, RequestAboutTask, Relaunch, Live
  <2>2. /\ NewTask(tasks[apiId].file) \in TaskRecords
        /\ NewTask(tasks[apiId].file).file = tasks[apiId].file
    BY <2>1, TaskChanged
  <2>3. /\ tasks' = [tasks EXCEPT ![apiId] = NewTask(tasks[apiId].file)]
        /\ ~Active(apiId)
    BY <1>3 DEF Relaunch, JoinReturns
  <2> QED
    BY <2>1, <2>2, <2>3, OneTaskChanges
<1>4. CASE WriteRow
  BY NoTaskChanges, <1>4 DEF WriteRow, memoryVars
<1>5. CASE Stop
  <2> SUFFICES ASSUME NEW k \in Ids PROVE TaskFate(k)
    OBVIOUS
  <2>1. CASE Live(k)
    <3>1. tasks[k] \in TaskRecords
      BY <2>1 DEF IInv, TypeOK, MemoryTyped, Live
    <3>2. tasks'[k] = [tasks[k] EXCEPT !.cancel = TRUE]
      BY <2>1, <1>5 DEF Stop
    <3>3. /\ [tasks[k] EXCEPT !.cancel = TRUE] \in TaskRecords
          /\ [tasks[k] EXCEPT !.cancel = TRUE].file = tasks[k].file
          /\ [tasks[k] EXCEPT !.cancel = TRUE].pause = tasks[k].pause
          /\ [tasks[k] EXCEPT !.cancel = TRUE].cancel
      BY <3>1 DEF TaskRecords
    <3>4. Live(k)'
      BY <3>2, <3>3, TasksAreTasks DEF Live
    <3> QED BY <2>1, <3>2, <3>3, <3>4 DEF TaskFate
  <2>2. CASE ~Live(k)
    BY <2>2, <1>5 DEF Stop, TaskFate, Live
  <2> QED BY <2>1, <2>2
<1>6. CASE Stopped
  BY <1>6, NoTasksLeft DEF Stopped, EndOfSession
<1>7. CASE Crash
  BY <1>7, NoTasksLeft DEF Crash, EndOfSession
<1>8. ASSUME NEW f \in Files, AddDownload(f) PROVE \A k \in Ids : TaskFate(k)
  <2> SUFFICES ASSUME NEW k \in Ids PROVE TaskFate(k)
    OBVIOUS
  <2>1. CASE k = nextDownloadId
    <3>1. ~Live(k)
      BY <2>1 DEF IInv, IdsBelowCounter, TypeOK, MemoryTyped, Ids
    <3> QED BY <2>1, <3>1, <1>8 DEF TaskFate
  <2>2. CASE k # nextDownloadId
    <3>1. tasks'[k] = tasks[k]
      BY <2>2, <1>8 DEF AddDownload, IInv, TypeOK, MemoryTyped
    <3> QED BY <3>1 DEF TaskFate, Live, Active
  <2> QED BY <2>1, <2>2
<1>9. ASSUME NEW id \in Ids, Recover(id)
      PROVE  \A k \in Ids : TaskFate(k)
  <2> SUFFICES ASSUME NEW k \in Ids PROVE TaskFate(k)
    OBVIOUS
  <2>1. CASE k = id
    <3>1. ~Live(k)
      BY <2>1, <1>9 DEF IInv, UnfinishedHaveRows, Recover
    <3> QED BY <2>1, <3>1, <1>9 DEF TaskFate
  <2>2. CASE k # id
    <3>1. tasks'[k] = tasks[k]
      BY <2>2, <1>9 DEF Recover, IInv, TypeOK, MemoryTyped
    <3> QED BY <3>1 DEF TaskFate, Live, Active
  <2> QED BY <2>1, <2>2
<1>10. ASSUME NEW id \in Ids, SkipRecovery(id)
      PROVE  \A k \in Ids : TaskFate(k)
  BY NoTaskChanges, <1>10 DEF SkipRecovery, memoryVars
<1>11. ASSUME NEW id \in Ids, PauseDownload(id)
      PROVE  \A k \in Ids : TaskFate(k)
  <2>1. tasks[id] \in TaskRecords /\ Live(id)
    BY <1>11 DEF IInv, TypeOK, MemoryTyped, PauseDownload, Command, Active, Live
  <2> DEFINE t == [tasks[id] EXCEPT !.pause = TRUE]
  <2>2. /\ t \in TaskRecords /\ t.file = tasks[id].file
        /\ tasks[id].pause => t.pause
        /\ tasks[id].cancel => t.cancel
    BY <2>1 DEF TaskRecords
  <2>3. tasks' = [tasks EXCEPT ![id] = t]
    BY <1>11 DEF PauseDownload
  <2> HIDE DEF t
  <2> QED
    BY <2>1, <2>2, <2>3, OneTaskChanges
<1>12. ASSUME NEW id \in Ids, CancelDownload(id)
      PROVE  \A k \in Ids : TaskFate(k)
  <2>1. tasks[id] \in TaskRecords /\ Live(id)
    BY <1>12
    DEF IInv, TypeOK, MemoryTyped, CancelDownload, Command, Active, Live
  <2> DEFINE t == [tasks[id] EXCEPT !.cancel = TRUE]
  <2>2. /\ t \in TaskRecords /\ t.file = tasks[id].file
        /\ tasks[id].pause => t.pause
        /\ tasks[id].cancel => t.cancel
    BY <2>1 DEF TaskRecords
  <2>3. tasks' = [tasks EXCEPT ![id] = t]
    BY <1>12 DEF CancelDownload
  <2> HIDE DEF t
  <2> QED
    BY <2>1, <2>2, <2>3, OneTaskChanges
<1>13. ASSUME NEW id \in Ids, ResumeDownload(id)
      PROVE  \A k \in Ids : TaskFate(k)
  BY NoTaskChanges, <1>13 DEF ResumeDownload, Command
<1>14. ASSUME NEW id \in Ids, Reconnect(id)
      PROVE  \A k \in Ids : TaskFate(k)
  BY NoTaskChanges, <1>14 DEF Reconnect, memoryVars
<1>15. ASSUME NEW id \in Ids, GiveUp(id)
      PROVE  \A k \in Ids : TaskFate(k)
  <2>1. tasks[id] \in TaskRecords /\ Live(id)
    BY <1>15 DEF IInv, TypeOK, MemoryTyped, GiveUp, Active, Live
  <2> DEFINE t == [tasks[id] EXCEPT !.failed = TRUE]
  <2>2. /\ t \in TaskRecords /\ t.file = tasks[id].file
        /\ tasks[id].pause => t.pause
        /\ tasks[id].cancel => t.cancel
    BY <2>1 DEF TaskRecords
  <2>3. tasks' = [tasks EXCEPT ![id] = t]
    BY <1>15 DEF GiveUp
  <2> HIDE DEF t
  <2> QED
    BY <2>1, <2>2, <2>3, OneTaskChanges
<1>16. ASSUME NEW id \in Ids, EndRun(id)
      PROVE  \A k \in Ids : TaskFate(k)
  <2>1. tasks[id] \in TaskRecords /\ Live(id)
    BY <1>16 DEF IInv, TypeOK, MemoryTyped, EndRun, Active, Live
  <2>2. PICK end \in Ends(tasks[id]) : tasks' = [tasks EXCEPT ![id].run = end]
    BY <1>16 DEF EndRun
  <2> DEFINE t == [tasks[id] EXCEPT !.run = end]
  <2>3. t \in TaskRecords /\ t.file = tasks[id].file /\ t.run # "running"
    BY <2>1, <2>2 DEF TaskRecords, Ends
  <2>4. tasks' = [tasks EXCEPT ![id] = t]
    BY <2>2
  <2> HIDE DEF t
  <2> QED
    BY <2>1, <2>3, <2>4, OneTaskChanges
<1>17. CASE Over \/ UNCHANGED vars
  BY NoTaskChanges, <1>17 DEF Over, vars
<1> QED
  BY <1>1, <1>2, <1>3, <1>4, <1>5, <1>6, <1>7, <1>8, <1>9, <1>10, <1>11,
     <1>12, <1>13, <1>14, <1>15, <1>16, <1>17
  DEF Next, Run

\* What a step may make of a row: it appears or is replaced when addDownload
\* saves it; otherwise only its status changes, to that of a download that has
\* failed or been cancelled only while its task is in memory.
RowFate(k) ==
  \/ WriteRow /\ api = "save" /\ k = apiId /\ rows'[k] = apiRow
  \/ rows'[k] = rows[k]
  \/ /\ rows[k] # NoRow
     /\ rows'[k] \in RowRecords
     /\ rows'[k].file = rows[k].file
     /\ \/ Live(k)
        \/ Launch /\ Unfinished(k)

\* A step that writes the status of one download in memory.
LEMMA OneStatusChanges ==
  ASSUME IInv, NEW id \in Ids, Live(id),
         NEW s \in {"queued", "downloading", "reconnecting", "paused", "failed",
                    "cancelled"},
         rows' = WithStatus(id, s)
  PROVE  \A k \in Ids : RowFate(k)
<1> SUFFICES ASSUME NEW k \in Ids PROVE RowFate(k)
  OBVIOUS
<1>1. TypeOK
  BY DEF IInv
<1>2. CASE k # id
  BY <1>1, <1>2, StatusWritten DEF RowFate
<1>3. CASE k = id /\ rows[k] = NoRow
  BY <1>1, <1>3, StatusWritten DEF RowFate
<1>4. CASE k = id /\ rows[k] # NoRow
  BY <1>1, <1>4, StatusWritten DEF RowFate
<1> QED BY <1>2, <1>3, <1>4

\* Every step makes of every row only what it may.
LEMMA RowFates == IInv /\ [Next]_vars => \A k \in Ids : RowFate(k)
<1> SUFFICES ASSUME IInv, [Next]_vars PROVE \A k \in Ids : RowFate(k)
  OBVIOUS
<1>1. CASE Launch
  <2> SUFFICES ASSUME NEW k \in Ids PROVE RowFate(k)
    OBVIOUS
  <2>1. rows'[k] = IF stored' /\ Unfinished(k)
                   THEN [rows[k] EXCEPT !.status = "queued"]
                   ELSE rows[k]
    BY <1>1 DEF Launch
  <2>2. CASE stored' /\ Unfinished(k)
    <3>1. rows[k] # NoRow /\ rows[k] \in RowRecords
      BY <2>2 DEF Unfinished, IInv, TypeOK, RowsTyped
    <3>2. /\ [rows[k] EXCEPT !.status = "queued"] \in RowRecords
          /\ [rows[k] EXCEPT !.status = "queued"].file = rows[k].file
      BY <3>1 DEF RowRecords
    <3> QED BY <1>1, <2>1, <2>2, <3>1, <3>2 DEF RowFate
  <2>3. CASE ~(stored' /\ Unfinished(k))
    BY <2>1, <2>3 DEF RowFate
  <2> QED BY <2>2, <2>3
<1>2. CASE RecoveryDone
  BY <1>2 DEF RowFate, RecoveryDone, vars
<1>3. CASE Relaunch
  BY <1>3 DEF RowFate, Relaunch, vars
<1>4. CASE WriteRow
  <2>1. Live(apiId) /\ apiId \in Ids /\ apiRow \in RowRecords
    BY <1>4 DEF IInv, TypeOK, RestTyped, RequestAboutTask, WriteRow
  <2>2. CASE api = "save"
    <3>1. rows' = rows \/ rows' = [rows EXCEPT ![apiId] = apiRow]
      BY <2>2, <1>4 DEF WriteRow
    <3> SUFFICES ASSUME NEW k \in Ids PROVE RowFate(k)
      OBVIOUS
    <3> QED BY <2>1, <2>2, <3>1, <1>4 DEF RowFate, IInv, TypeOK, RowsTyped
  <2>3. CASE api # "save"
    <3>1. rows' = WithStatus(apiId, apiRow.status)
      BY <2>3, <1>4 DEF WriteRow
    <3>2. apiRow.status \in {"queued", "downloading", "reconnecting", "paused",
                             "failed", "cancelled"}
      BY <2>1 DEF RowRecords
    <3> QED BY <2>1, <3>1, <3>2, OneStatusChanges
  <2> QED BY <2>2, <2>3
<1>5. CASE Stop
  BY <1>5 DEF RowFate, Stop, vars
<1>6. CASE Stopped
  BY <1>6 DEF RowFate, Stopped, EndOfSession, vars
<1>7. CASE Crash
  BY <1>7 DEF RowFate, Crash, EndOfSession, vars
<1>8. ASSUME NEW f \in Files, AddDownload(f) PROVE \A k \in Ids : RowFate(k)
  BY <1>8 DEF RowFate, AddDownload, vars
<1>9. ASSUME NEW id \in Ids, Recover(id) PROVE \A k \in Ids : RowFate(k)
  BY <1>9 DEF RowFate, Recover, vars
<1>10. ASSUME NEW id \in Ids, SkipRecovery(id) PROVE \A k \in Ids : RowFate(k)
  BY <1>10 DEF RowFate, SkipRecovery, vars
<1>11. ASSUME NEW id \in Ids, PauseDownload(id) PROVE \A k \in Ids : RowFate(k)
  BY <1>11 DEF RowFate, PauseDownload, Command, vars
<1>12. ASSUME NEW id \in Ids, CancelDownload(id) PROVE \A k \in Ids : RowFate(k)
  BY <1>12 DEF RowFate, CancelDownload, Command, vars
<1>13. ASSUME NEW id \in Ids, ResumeDownload(id) PROVE \A k \in Ids : RowFate(k)
  BY <1>13 DEF RowFate, ResumeDownload, Command, vars
<1>14. ASSUME NEW id \in Ids, Reconnect(id) PROVE \A k \in Ids : RowFate(k)
  BY <1>14, OneStatusChanges DEF Reconnect, Active
<1>15. ASSUME NEW id \in Ids, GiveUp(id) PROVE \A k \in Ids : RowFate(k)
  BY <1>15, OneStatusChanges DEF GiveUp, Active
<1>16. ASSUME NEW id \in Ids, EndRun(id) PROVE \A k \in Ids : RowFate(k)
  BY <1>16 DEF RowFate, EndRun, vars
<1>17. CASE Over \/ UNCHANGED vars
  BY <1>17 DEF RowFate, Over, vars
<1> QED
  BY <1>1, <1>2, <1>3, <1>4, <1>5, <1>6, <1>7, <1>8, <1>9, <1>10, <1>11,
     <1>12, <1>13, <1>14, <1>15, <1>16, <1>17
  DEF Next, Run

\* A session ends after its last request, and takes its tasks with it.
LEMMA DownStep == IInv /\ [Next]_vars => NothingWhenDown'
<1> SUFFICES ASSUME IInv, [Next]_vars PROVE NothingWhenDown'
  OBVIOUS
<1>1. CASE Launch
  BY <1>1 DEF IInv, NothingWhenDown, Launch, memoryVars, apiVars
<1>2. CASE RecoveryDone
  BY <1>2
  DEF IInv, NothingWhenDown, Live, RecoveryDone, memoryVars, apiVars,
      startVars
<1>3. CASE Relaunch
  BY <1>3 DEF IInv, NothingWhenDown, Relaunch
<1>4. CASE WriteRow
  BY <1>4 DEF IInv, NothingWhenDown, Live, WriteRow, memoryVars, startVars
<1>5. CASE Stop
  BY <1>5 DEF IInv, NothingWhenDown, Live, Stop, apiVars, startVars
<1>6. CASE Stopped
  BY <1>6 DEF IInv, NothingWhenDown, Live, Stopped, EndOfSession, apiVars
<1>7. CASE Crash
  BY <1>7 DEF IInv, NothingWhenDown, Live, Crash, EndOfSession
<1>8. ASSUME NEW f \in Files, AddDownload(f) PROVE NothingWhenDown'
  BY <1>8 DEF IInv, NothingWhenDown, Live, AddDownload, startVars
<1>9. ASSUME NEW id \in Ids, Recover(id) PROVE NothingWhenDown'
  BY <1>9 DEF IInv, NothingWhenDown, Live, Recover
<1>10. ASSUME NEW id \in Ids, SkipRecovery(id) PROVE NothingWhenDown'
  BY <1>10 DEF IInv, NothingWhenDown, Live, SkipRecovery, memoryVars, apiVars
<1>11. ASSUME NEW id \in Ids, PauseDownload(id) PROVE NothingWhenDown'
  BY <1>11 DEF IInv, NothingWhenDown, Live, PauseDownload, Command, startVars
<1>12. ASSUME NEW id \in Ids, CancelDownload(id) PROVE NothingWhenDown'
  BY <1>12 DEF IInv, NothingWhenDown, Live, CancelDownload, Command, startVars
<1>13. ASSUME NEW id \in Ids, ResumeDownload(id) PROVE NothingWhenDown'
  BY <1>13 DEF IInv, NothingWhenDown, Live, ResumeDownload, Command, startVars
<1>14. ASSUME NEW id \in Ids, Reconnect(id) PROVE NothingWhenDown'
  BY <1>14
  DEF IInv, NothingWhenDown, Live, Active, Reconnect, memoryVars, apiVars,
      startVars
<1>15. ASSUME NEW id \in Ids, GiveUp(id) PROVE NothingWhenDown'
  BY <1>15 DEF IInv, NothingWhenDown, Live, Active, GiveUp, apiVars, startVars
<1>16. ASSUME NEW id \in Ids, EndRun(id) PROVE NothingWhenDown'
  BY <1>16 DEF IInv, NothingWhenDown, Live, Active, EndRun, apiVars, startVars
<1>17. CASE Over \/ UNCHANGED vars
  BY <1>17 DEF IInv, NothingWhenDown, Live, Over, vars
<1> QED
  BY <1>1, <1>2, <1>3, <1>4, <1>5, <1>6, <1>7, <1>8, <1>9, <1>10, <1>11,
     <1>12, <1>13, <1>14, <1>15, <1>16, <1>17
  DEF Next, Run

\* The counter only grows within a session.
LEMMA CounterGrows ==
  IInv /\ [Next]_vars => service' = "down" \/ nextDownloadId' >= nextDownloadId
<1> SUFFICES ASSUME IInv, [Next]_vars, service' # "down"
             PROVE  nextDownloadId' >= nextDownloadId
  OBVIOUS
<1>1. CASE Launch
  BY <1>1 DEF IInv, TypeOK, MemoryTyped, Launch, memoryVars, apiVars
<1>2. CASE RecoveryDone
  BY <1>2
  DEF IInv, TypeOK, MemoryTyped, RecoveryDone, memoryVars, apiVars, startVars
<1>3. CASE Relaunch
  BY <1>3 DEF IInv, TypeOK, MemoryTyped, Relaunch, startVars
<1>4. CASE WriteRow
  BY <1>4 DEF IInv, TypeOK, MemoryTyped, WriteRow, memoryVars, startVars
<1>5. CASE Stop
  BY <1>5 DEF IInv, TypeOK, MemoryTyped, Stop, apiVars, startVars
<1>6. CASE Stopped
  BY <1>6 DEF Stopped, EndOfSession
<1>7. CASE Crash
  BY <1>7 DEF Crash, EndOfSession
<1>8. ASSUME NEW f \in Files, AddDownload(f)
      PROVE  nextDownloadId' >= nextDownloadId
  BY <1>8 DEF IInv, TypeOK, MemoryTyped, AddDownload, startVars
<1>9. ASSUME NEW id \in Ids, Recover(id)
      PROVE  nextDownloadId' >= nextDownloadId
  BY <1>9 DEF IInv, TypeOK, MemoryTyped, Ids, PastHint, Recover
<1>10. ASSUME NEW id \in Ids, SkipRecovery(id)
      PROVE  nextDownloadId' >= nextDownloadId
  BY <1>10 DEF IInv, TypeOK, MemoryTyped, SkipRecovery, memoryVars, apiVars
<1>11. ASSUME NEW id \in Ids, PauseDownload(id)
      PROVE  nextDownloadId' >= nextDownloadId
  BY <1>11 DEF IInv, TypeOK, MemoryTyped, PauseDownload, Command, startVars
<1>12. ASSUME NEW id \in Ids, CancelDownload(id)
      PROVE  nextDownloadId' >= nextDownloadId
  BY <1>12 DEF IInv, TypeOK, MemoryTyped, CancelDownload, Command, startVars
<1>13. ASSUME NEW id \in Ids, ResumeDownload(id)
      PROVE  nextDownloadId' >= nextDownloadId
  BY <1>13 DEF IInv, TypeOK, MemoryTyped, ResumeDownload, Command, startVars
<1>14. ASSUME NEW id \in Ids, Reconnect(id)
      PROVE  nextDownloadId' >= nextDownloadId
  BY <1>14
  DEF IInv, TypeOK, MemoryTyped, Reconnect, memoryVars, apiVars, startVars
<1>15. ASSUME NEW id \in Ids, GiveUp(id)
      PROVE  nextDownloadId' >= nextDownloadId
  BY <1>15 DEF IInv, TypeOK, MemoryTyped, GiveUp, apiVars, startVars
<1>16. ASSUME NEW id \in Ids, EndRun(id)
      PROVE  nextDownloadId' >= nextDownloadId
  BY <1>16 DEF IInv, TypeOK, MemoryTyped, EndRun, apiVars, startVars
<1>17. CASE Over \/ UNCHANGED vars
  BY <1>17 DEF IInv, TypeOK, MemoryTyped, Over, vars
<1> QED
  BY <1>1, <1>2, <1>3, <1>4, <1>5, <1>6, <1>7, <1>8, <1>9, <1>10, <1>11,
     <1>12, <1>13, <1>14, <1>15, <1>16, <1>17
  DEF Next, Run

\* Ids stay below the counter: a new session counts from 1, and recovery moves
\* the counter past every id it hands to the engine.
LEMMA IdsStep == IInv /\ [Next]_vars => IdsBelowCounter'
<1> SUFFICES ASSUME IInv, [Next]_vars, NEW id \in Ids, Live(id)'
             PROVE  id < nextDownloadId'
  BY DEF IdsBelowCounter
<1>1. nextDownloadId \in Nat /\ nextDownloadId' \in Nat /\ id \in Nat
  BY MemoryStep, ServiceAssumption DEF IInv, TypeOK, MemoryTyped, Ids
<1>2. CASE Live(id)
  <2>1. service' # "down"
    BY DownStep DEF NothingWhenDown
  <2>2. id < nextDownloadId
    BY <1>2 DEF IInv, IdsBelowCounter
  <2> QED BY <1>1, <2>1, <2>2, CounterGrows
<1>3. CASE Recover(id)
  BY <1>1, <1>3 DEF Recover, PastHint
<1>4. CASE id = nextDownloadId /\ \E f \in Files : AddDownload(f)
  BY <1>1, <1>4 DEF AddDownload
<1> QED BY <1>2, <1>3, <1>4, TaskFates DEF TaskFate

\* A request in progress stays about a download in memory.
LEMMA RequestStep == IInv /\ [Next]_vars => RequestAboutTask'
<1> SUFFICES ASSUME IInv, [Next]_vars PROVE RequestAboutTask'
  OBVIOUS
<1>0. ASSUME apiId' = apiId, apiRow' = apiRow, api' = api,
             api = "idle" \/ service' # "down"
      PROVE  RequestAboutTask'
  <2>1. api # "idle" => Live(apiId)' /\ tasks'[apiId].file = tasks[apiId].file
    BY <1>0, TaskFates DEF TaskFate, IInv, TypeOK, RestTyped, RequestAboutTask
  <2> QED BY <1>0, <2>1 DEF IInv, RequestAboutTask, Live
<1>1. CASE Launch
  <2>1. apiId' = apiId /\ apiRow' = apiRow /\ api' = api
    BY <1>1 DEF Launch, memoryVars, apiVars
  <2>2. api = "idle" \/ service' # "down"
    BY <1>1 DEF IInv, NothingWhenDown, Launch, memoryVars
  <2> QED BY <1>0, <2>1, <2>2
<1>2. CASE RecoveryDone
  <2>1. apiId' = apiId /\ apiRow' = apiRow /\ api' = api
    BY <1>2 DEF RecoveryDone, apiVars
  <2>2. api = "idle" \/ service' # "down"
    BY <1>2 DEF IInv, NothingWhenDown, RecoveryDone
  <2> QED BY <1>0, <2>1, <2>2
<1>3. CASE Relaunch
  <2>1. tasks[apiId] \in TaskRecords /\ apiId \in Ids
    BY <1>3
    DEF IInv, TypeOK, MemoryTyped, RestTyped, RequestAboutTask, Relaunch, Live
  <2>2. /\ tasks'[apiId] = NewTask(tasks[apiId].file)
        /\ apiRow' = [file |-> tasks[apiId].file, status |-> "downloading"]
        /\ api' = "update" /\ apiId' = apiId
    BY <2>1, <1>3 DEF Relaunch, IInv, TypeOK, MemoryTyped
  <2>3. /\ NewTask(tasks[apiId].file) # NoTask
        /\ NewTask(tasks[apiId].file).file = tasks[apiId].file
    BY <2>1, TaskChanged, TasksAreTasks
  <2>4. apiRow' \in RowRecords /\ apiRow'.file = tasks[apiId].file
    BY <2>1, <2>2 DEF RowRecords, TaskRecords
  <2> QED BY <2>2, <2>3, <2>4 DEF RequestAboutTask, Live
<1>4. CASE WriteRow
  BY <1>4 DEF WriteRow, RequestAboutTask
<1>5. CASE Stop
  <2>1. apiId' = apiId /\ apiRow' = apiRow /\ api' = api
    BY <1>5 DEF Stop, apiVars
  <2>2. api = "idle" \/ service' # "down"
    BY <1>5 DEF IInv, NothingWhenDown, Stop
  <2> QED BY <1>0, <2>1, <2>2
<1>6. CASE Stopped
  BY <1>6 DEF Stopped, EndOfSession, RequestAboutTask
<1>7. CASE Crash
  BY <1>7 DEF Crash, EndOfSession, RequestAboutTask
<1>8. ASSUME NEW f \in Files, AddDownload(f) PROVE RequestAboutTask'
  <2>1. nextDownloadId \in Ids
    BY ServiceAssumption, <1>8 DEF IInv, TypeOK, MemoryTyped, AddDownload, Ids
  <2>2. /\ apiId' = nextDownloadId /\ tasks'[nextDownloadId] = NewTask(f)
        /\ apiRow' = [file |-> f, status |-> "downloading"]
    BY <2>1, <1>8 DEF IInv, TypeOK, MemoryTyped, AddDownload
  <2>3. /\ NewTask(f) # NoTask /\ NewTask(f).file = f
        /\ apiRow' \in RowRecords /\ apiRow'.file = f
    BY <2>2, TasksAreTasks DEF NewTask, RowRecords
  <2> QED BY <2>2, <2>3 DEF RequestAboutTask, Live
<1>9. ASSUME NEW id \in Ids, Recover(id) PROVE RequestAboutTask'
  <2>1. rows[id] \in RowRecords
    BY <1>9 DEF IInv, TypeOK, RowsTyped, UnfinishedHaveRows, Recover
  <2>2. /\ apiId' = id /\ tasks'[id] = NewTask(rows[id].file)
        /\ apiRow' = [file |-> rows[id].file, status |-> "downloading"]
    BY <1>9 DEF IInv, TypeOK, MemoryTyped, Recover
  <2>3. /\ NewTask(rows[id].file) # NoTask
        /\ NewTask(rows[id].file).file = rows[id].file
        /\ apiRow' \in RowRecords /\ apiRow'.file = rows[id].file
    BY <2>1, <2>2, TasksAreTasks DEF NewTask, RowRecords
  <2> QED BY <2>2, <2>3 DEF RequestAboutTask, Live
<1>10. ASSUME NEW id \in Ids, SkipRecovery(id) PROVE RequestAboutTask'
  <2>1. apiId' = apiId /\ apiRow' = apiRow /\ api' = api
    BY <1>10 DEF SkipRecovery, apiVars
  <2>2. api = "idle" \/ service' # "down"
    BY <1>10 DEF IInv, NothingWhenDown, SkipRecovery
  <2> QED BY <1>0, <2>1, <2>2
<1>11. ASSUME NEW id \in Ids, PauseDownload(id) PROVE RequestAboutTask'
  <2>1. tasks[id] \in TaskRecords /\ Live(id) /\ service' # "down"
    BY <1>11 DEF IInv, TypeOK, MemoryTyped, PauseDownload, Command, Live
  <2>2. Live(id)' /\ tasks'[id].file = tasks[id].file
    BY <2>1, TaskFates DEF TaskFate
  <2>3. apiId' = id /\ apiRow' \in RowRecords /\ apiRow'.file = tasks[id].file
    BY <2>1, <1>11 DEF PauseDownload, Command, RowRecords, TaskRecords
  <2> QED BY <2>2, <2>3 DEF RequestAboutTask
<1>12. ASSUME NEW id \in Ids, CancelDownload(id) PROVE RequestAboutTask'
  <2>1. tasks[id] \in TaskRecords /\ Live(id) /\ service' # "down"
    BY <1>12 DEF IInv, TypeOK, MemoryTyped, CancelDownload, Command, Live
  <2>2. Live(id)' /\ tasks'[id].file = tasks[id].file
    BY <2>1, TaskFates DEF TaskFate
  <2>3. apiId' = id /\ apiRow' \in RowRecords /\ apiRow'.file = tasks[id].file
    BY <2>1, <1>12 DEF CancelDownload, Command, RowRecords, TaskRecords
  <2> QED BY <2>2, <2>3 DEF RequestAboutTask
<1>13. ASSUME NEW id \in Ids, ResumeDownload(id) PROVE RequestAboutTask'
  <2>1. Live(id)' /\ apiId' = id /\ api' = "join"
    BY <1>13 DEF ResumeDownload, Command, Live
  <2> QED BY <2>1 DEF RequestAboutTask
<1>14. ASSUME NEW id \in Ids, Reconnect(id) PROVE RequestAboutTask'
  <2>1. apiId' = apiId /\ apiRow' = apiRow /\ api' = api
    BY <1>14 DEF Reconnect, apiVars
  <2>2. api = "idle" \/ service' # "down"
    BY <1>14 DEF IInv, NothingWhenDown, Reconnect
  <2> QED BY <1>0, <2>1, <2>2
<1>15. ASSUME NEW id \in Ids, GiveUp(id) PROVE RequestAboutTask'
  <2>1. apiId' = apiId /\ apiRow' = apiRow /\ api' = api
    BY <1>15 DEF GiveUp, apiVars
  <2>2. api = "idle" \/ service' # "down"
    BY <1>15 DEF IInv, NothingWhenDown, GiveUp
  <2> QED BY <1>0, <2>1, <2>2
<1>16. ASSUME NEW id \in Ids, EndRun(id) PROVE RequestAboutTask'
  <2>1. apiId' = apiId /\ apiRow' = apiRow /\ api' = api
    BY <1>16 DEF EndRun, apiVars
  <2>2. api = "idle" \/ service' # "down"
    BY <1>16 DEF IInv, NothingWhenDown, EndRun
  <2> QED BY <1>0, <2>1, <2>2
<1>17. CASE Over \/ UNCHANGED vars
  <2>1. apiId' = apiId /\ apiRow' = apiRow /\ api' = api
    BY <1>17 DEF Over, vars
  <2>2. api = "idle" \/ service' # "down"
    BY <1>17 DEF IInv, NothingWhenDown, Over, vars
  <2> QED BY <1>0, <2>1, <2>2
<1> QED
  BY <1>1, <1>2, <1>3, <1>4, <1>5, <1>6, <1>7, <1>8, <1>9, <1>10, <1>11,
     <1>12, <1>13, <1>14, <1>15, <1>16, <1>17
  DEF Next, Run

\* A row to be saved is the next thing the listener does, unless the service
\* crashes; and what has once not been saved is noted until the session ends.
SaveFate ==
  /\ api = "save" =>
       \/ WriteRow
       \/ service' = "down"
       \/ UNCHANGED <<api, apiId>>
  /\ service' = "down" \/ unsaved \subseteq unsaved'

\* Every step leaves the row to be saved alone, or writes it.
LEMMA SaveEnds == IInv /\ [Next]_vars => SaveFate
<1> SUFFICES ASSUME IInv, [Next]_vars PROVE SaveFate
  OBVIOUS
<1>1. CASE Launch
  BY <1>1 DEF SaveFate, Launch, memoryVars, apiVars, startVars
<1>2. CASE RecoveryDone
  BY <1>2 DEF SaveFate, RecoveryDone, memoryVars, apiVars, startVars
<1>3. CASE Relaunch
  BY <1>3 DEF SaveFate, Relaunch, memoryVars, startVars
<1>4. CASE WriteRow
  BY <1>4 DEF SaveFate, WriteRow
<1>5. CASE Stop
  BY <1>5 DEF SaveFate, Stop, memoryVars, apiVars, startVars
<1>6. CASE Stopped
  BY <1>6 DEF SaveFate, Stopped, EndOfSession, memoryVars, apiVars, startVars
<1>7. CASE Crash
  BY <1>7 DEF SaveFate, Crash, EndOfSession, memoryVars, startVars
<1>8. ASSUME NEW f \in Files, AddDownload(f) PROVE SaveFate
  BY <1>8 DEF SaveFate, AddDownload, memoryVars, startVars
<1>9. ASSUME NEW id \in Ids, Recover(id) PROVE SaveFate
  BY <1>9 DEF SaveFate, Recover, memoryVars, startVars
<1>10. ASSUME NEW id \in Ids, SkipRecovery(id) PROVE SaveFate
  BY <1>10 DEF SaveFate, SkipRecovery, memoryVars, apiVars, startVars
<1>11. ASSUME NEW id \in Ids, PauseDownload(id) PROVE SaveFate
  BY <1>11 DEF SaveFate, PauseDownload, Command, memoryVars, startVars
<1>12. ASSUME NEW id \in Ids, CancelDownload(id) PROVE SaveFate
  BY <1>12 DEF SaveFate, CancelDownload, Command, memoryVars, startVars
<1>13. ASSUME NEW id \in Ids, ResumeDownload(id) PROVE SaveFate
  BY <1>13 DEF SaveFate, ResumeDownload, Command, memoryVars, startVars
<1>14. ASSUME NEW id \in Ids, Reconnect(id) PROVE SaveFate
  BY <1>14 DEF SaveFate, Reconnect, memoryVars, apiVars, startVars
<1>15. ASSUME NEW id \in Ids, GiveUp(id) PROVE SaveFate
  BY <1>15 DEF SaveFate, GiveUp, memoryVars, apiVars, startVars
<1>16. ASSUME NEW id \in Ids, EndRun(id) PROVE SaveFate
  BY <1>16 DEF SaveFate, EndRun, memoryVars, apiVars, startVars
<1>17. CASE Over \/ UNCHANGED vars
  BY <1>17 DEF SaveFate, Over, memoryVars, startVars, vars
<1> QED
  BY <1>1, <1>2, <1>3, <1>4, <1>5, <1>6, <1>7, <1>8, <1>9, <1>10, <1>11,
     <1>12, <1>13, <1>14, <1>15, <1>16, <1>17
  DEF Next, Run

\* The rows stay those of the tasks in memory.
LEMMA RowMatchStep == IInv /\ [Next]_vars => RowMatchesTask'
<1> SUFFICES ASSUME IInv, [Next]_vars, NEW id \in Ids, Live(id)',
                    id \notin unsaved', ~(api' = "save" /\ apiId' = id)
             PROVE  rows'[id] # NoRow /\ rows'[id].file = tasks'[id].file
  BY DEF RowMatchesTask
<1>1. CASE Recover(id)
  <2>1. rows[id] # NoRow /\ rows'[id] = rows[id]
    BY <1>1 DEF IInv, UnfinishedHaveRows, Recover
  <2>2. tasks'[id].file = rows[id].file
    BY <1>1 DEF Recover, NewTask, IInv, TypeOK, MemoryTyped
  <2> QED BY <2>1, <2>2
<1>2. CASE id = nextDownloadId /\ \E f \in Files : AddDownload(f)
  BY <1>2 DEF AddDownload
<1>3. CASE Live(id)
  <2>1. service' # "down"
    BY DownStep DEF NothingWhenDown
  <2>2. tasks'[id].file = tasks[id].file
    BY <1>3, <2>1, TaskFates DEF TaskFate
  <2>3. CASE api = "save" /\ apiId = id
    <3>1. WriteRow
      BY <2>1, <2>3, SaveEnds DEF SaveFate
    <3>2. rows'[id] = apiRow
      BY <2>3, <3>1 DEF WriteRow, IInv, TypeOK, RowsTyped, RestTyped
    <3>3. apiRow \in RowRecords /\ apiRow.file = tasks[id].file
      BY <2>3 DEF IInv, RequestAboutTask
    <3> QED BY <2>2, <3>2, <3>3, TasksAreTasks
  <2>4. CASE ~(api = "save" /\ apiId = id)
    <3>0. id \notin unsaved
      BY <2>1, SaveEnds DEF SaveFate
    <3>1. rows[id] # NoRow /\ rows[id].file = tasks[id].file
      BY <1>3, <2>4, <3>0 DEF IInv, RowMatchesTask
    <3>2. rows'[id] # NoRow /\ rows'[id].file = rows[id].file
      BY <2>4, <3>1, RowFates, TasksAreTasks DEF RowFate
    <3> QED BY <2>2, <3>1, <3>2
  <2> QED BY <2>3, <2>4
<1> QED BY <1>1, <1>2, <1>3, TaskFates DEF TaskFate

\* What a step makes of the recovery of a session: a record that has still to be
\* restarted stays so, is restarted or is noted as skipped.
RecoveryFate ==
  service' \in {"recovering", "up"} =>
    \/ Launch
    \/ /\ service \in {"recovering", "up"}
       /\ stored' = stored
       /\ skipped \subseteq skipped'
       /\ service' = "recovering" =>
            service = "recovering" /\ unfinished' \subseteq unfinished
       /\ service = "recovering" =>
            \A id \in unfinished :
              \/ service' = "recovering" /\ id \in unfinished'
              \/ Recover(id) /\ id \notin unfinished'
              \/ id \in skipped'

\* Every step makes of the recovery only what it may.
LEMMA RecoveryFates == IInv /\ [Next]_vars => RecoveryFate
<1> SUFFICES ASSUME IInv, [Next]_vars PROVE RecoveryFate
  OBVIOUS
<1>1. CASE Launch
  BY <1>1 DEF RecoveryFate
<1>2. CASE RecoveryDone
  BY <1>2 DEF RecoveryFate, RecoveryDone, memoryVars, apiVars, startVars
<1>3. CASE Relaunch
  BY <1>3 DEF RecoveryFate, Relaunch, startVars
<1>4. CASE WriteRow
  BY <1>4 DEF RecoveryFate, WriteRow, memoryVars, startVars
<1>5. CASE Stop
  BY <1>5 DEF RecoveryFate, Stop, apiVars, startVars
<1>6. CASE Stopped
  BY <1>6 DEF RecoveryFate, Stopped, EndOfSession, apiVars, startVars
<1>7. CASE Crash
  BY <1>7 DEF RecoveryFate, Crash, EndOfSession, startVars
<1>8. ASSUME NEW f \in Files, AddDownload(f) PROVE RecoveryFate
  BY <1>8 DEF RecoveryFate, AddDownload, startVars
<1>9. ASSUME NEW id \in Ids, Recover(id) PROVE RecoveryFate
  BY <1>9 DEF RecoveryFate, Recover
<1>10. ASSUME NEW id \in Ids, SkipRecovery(id) PROVE RecoveryFate
  BY <1>10 DEF RecoveryFate, SkipRecovery, memoryVars, apiVars
<1>11. ASSUME NEW id \in Ids, PauseDownload(id) PROVE RecoveryFate
  BY <1>11 DEF RecoveryFate, PauseDownload, Command, startVars
<1>12. ASSUME NEW id \in Ids, CancelDownload(id) PROVE RecoveryFate
  BY <1>12 DEF RecoveryFate, CancelDownload, Command, startVars
<1>13. ASSUME NEW id \in Ids, ResumeDownload(id) PROVE RecoveryFate
  BY <1>13 DEF RecoveryFate, ResumeDownload, Command, startVars
<1>14. ASSUME NEW id \in Ids, Reconnect(id) PROVE RecoveryFate
  BY <1>14 DEF RecoveryFate, Reconnect, memoryVars, apiVars, startVars
<1>15. ASSUME NEW id \in Ids, GiveUp(id) PROVE RecoveryFate
  BY <1>15 DEF RecoveryFate, GiveUp, apiVars, startVars
<1>16. ASSUME NEW id \in Ids, EndRun(id) PROVE RecoveryFate
  BY <1>16 DEF RecoveryFate, EndRun, apiVars, startVars
<1>17. CASE Over \/ UNCHANGED vars
  BY <1>17 DEF RecoveryFate, Over, vars
<1> QED
  BY <1>1, <1>2, <1>3, <1>4, <1>5, <1>6, <1>7, <1>8, <1>9, <1>10, <1>11,
     <1>12, <1>13, <1>14, <1>15, <1>16, <1>17
  DEF Next, Run

\* What recovery has still to restart keeps its row and comes to memory by the
\* recovery only.
LEMMA UnfinishedStep == IInv /\ [Next]_vars => UnfinishedHaveRows'
<1> SUFFICES ASSUME IInv, [Next]_vars, service' = "recovering",
                    NEW id \in unfinished'
             PROVE  rows'[id] # NoRow /\ ~Live(id)'
  BY DEF UnfinishedHaveRows
<1>1. id \in Ids
  BY RestStep DEF RestTyped
<1>2. CASE Launch
  <2>1. /\ Unfinished(id) /\ ~Live(id)'
        /\ rows'[id] = [rows[id] EXCEPT !.status = "queued"]
    BY <1>1, <1>2 DEF Launch, memoryVars, IInv, NothingWhenDown, Live
  <2>2. [rows[id] EXCEPT !.status = "queued"] \in RowRecords
    BY <1>1, <2>1 DEF IInv, TypeOK, RowsTyped, RowRecords, Unfinished
  <2> QED BY <2>1, <2>2, TasksAreTasks
<1>3. CASE ~Launch
  <2>1. service = "recovering" /\ id \in unfinished
    BY <1>3, RecoveryFates DEF RecoveryFate
  <2>2. rows[id] # NoRow /\ ~Live(id)
    BY <2>1 DEF IInv, UnfinishedHaveRows
  <2>3. rows'[id] # NoRow
    <3>1. CASE WriteRow /\ api = "save" /\ id = apiId
      BY <2>2, <3>1 DEF IInv, RequestAboutTask
    <3>2. CASE ~(WriteRow /\ api = "save" /\ id = apiId)
      BY <1>1, <2>2, <3>2, RowFates, TasksAreTasks DEF RowFate
    <3> QED BY <3>1, <3>2
  <2>4. ~Recover(id) /\ ~\E f \in Files : AddDownload(f)
    BY <2>1 DEF Recover, AddDownload
  <2> QED BY <1>1, <2>2, <2>3, <2>4, TaskFates DEF TaskFate
<1> QED BY <1>2, <1>3

\* No step makes the service forget a download.
LEMMA ForgottenStep == IInv /\ [Next]_vars => NothingForgottenYet'
<1> SUFFICES ASSUME IInv, [Next]_vars, service' \in {"recovering", "up"}, stored',
                    NEW id \in Ids, rows'[id] # NoRow,
                    rows'[id].status \notin {"failed", "cancelled"}
             PROVE  \/ Live(id)'
                    \/ id \in skipped'
                    \/ service' = "recovering" /\ id \in unfinished'
  BY DEF NothingForgottenYet
<1>1. CASE Launch
  <2>1. CASE Unfinished(id)
    BY <1>1, <2>1 DEF Launch, memoryVars
  <2>2. CASE ~Unfinished(id)
    <3>1. rows'[id] = rows[id]
      BY <1>1, <2>2 DEF Launch, memoryVars
    <3>2. rows[id] \in RowRecords
      BY <3>1 DEF IInv, TypeOK, RowsTyped
    <3> QED BY <2>2, <3>1, <3>2 DEF Unfinished, UnfinishedStatuses, RowRecords
  <2> QED BY <2>1, <2>2
<1>2. CASE ~Launch
  <2>1. /\ service \in {"recovering", "up"}
        /\ stored
        /\ skipped \subseteq skipped'
        /\ service = "recovering" =>
             \A k \in unfinished :
               \/ service' = "recovering" /\ k \in unfinished'
               \/ Recover(k) /\ k \notin unfinished'
               \/ k \in skipped'
    BY <1>2, RecoveryFates DEF RecoveryFate
  <2>2. CASE Live(id)
    BY <2>2, TaskFates DEF TaskFate
  <2>3. CASE ~Live(id)
    <3>1. rows'[id] = rows[id]
      BY <1>2, <2>3, RowFates DEF RowFate, IInv, RequestAboutTask
    <3>2. \/ id \in skipped
          \/ service = "recovering" /\ id \in unfinished
      <4>1. rows[id] # NoRow /\ rows[id].status \notin {"failed", "cancelled"}
        BY <3>1
      <4>2. NothingForgottenYet /\ service \in {"recovering", "up"} /\ stored
        BY <2>1 DEF IInv
      <4> QED BY <2>3, <4>1, <4>2 DEF NothingForgottenYet
    <3>3. Recover(id) => Live(id)'
      <4> SUFFICES ASSUME Recover(id) PROVE Live(id)'
        OBVIOUS
      <4>1. rows[id] \in RowRecords
        BY DEF Recover, IInv, UnfinishedHaveRows, TypeOK, RowsTyped
      <4>2. NewTask(rows[id].file) # NoTask
        BY <4>1, TasksAreTasks DEF RowRecords
      <4>3. tasks'[id] = NewTask(rows[id].file)
        BY DEF Recover, IInv, TypeOK, MemoryTyped
      <4> QED BY <4>2, <4>3 DEF Live
    <3> QED BY <2>1, <3>2, <3>3
  <2> QED BY <2>2, <2>3
<1> QED BY <1>1, <1>2

\* The invariant is inductive.
LEMMA StepInv == IInv /\ [Next]_vars => IInv'
<1> SUFFICES ASSUME IInv, [Next]_vars PROVE IInv'
  OBVIOUS
<1>1. TypeOK'
  BY MemoryStep, RowsStep, RestStep DEF TypeOK
<1>2. IdsBelowCounter' /\ NothingWhenDown' /\ RequestAboutTask'
  BY IdsStep, DownStep, RequestStep
<1>3. RowMatchesTask' /\ UnfinishedHaveRows' /\ NothingForgottenYet'
  BY RowMatchStep, UnfinishedStep, ForgottenStep
<1> QED BY <1>1, <1>2, <1>3 DEF IInv

\* The inductive invariant: the counter is past every id in memory, a request is
\* about a download in memory, rows are those of the tasks, and recovery has a
\* row for everything it has still to restart.
THEOREM InvHolds == Spec => []IInv
<1>1. Init => IInv
  BY InitInv
<1>2. IInv /\ [Next]_vars => IInv'
  BY StepInv
<1> QED BY <1>1, <1>2, PTL DEF Spec

\* The state of DownloadEngine and of the table always has its type, for any
\* number of downloads, save paths, sessions and commands.
THEOREM TypesHold == Spec => []TypeOK
<1>1. IInv => TypeOK
  BY DEF IInv
<1> QED BY <1>1, InvHolds, PTL

\* getStatus and every update of a row are about the download in memory that has
\* the row's id: a hinted id of the recovery, a fresh id of addDownload and the
\* row written after either never come apart.
THEOREM RowsMatch == Spec => []RowMatchesTask
<1>1. IInv => RowMatchesTask
  BY DEF IInv
<1> QED BY <1>1, InvHolds, PTL

\* start() brings back, or notes as skipped, every download whose row is not
\* that of a failed or a cancelled one, whenever the last session ended.
THEOREM NoneForgotten == Spec => []NothingForgotten
<1>1. IInv => NothingForgotten
  BY DEF IInv, NothingForgottenYet, NothingForgotten
<1> QED BY <1>1, InvHolds, PTL

\* startDownload never puts a task over another, hinted or not, and neither a
\* resume nor a shutdown takes back a pause or a cancellation of a running one.
THEOREM LiveKept == Spec => LiveTaskKept
<1>1. ASSUME IInv, [Next]_vars
      PROVE  [\A id \in Ids : Live(id) /\ service' # "down" =>
                /\ Live(id)' /\ tasks'[id].file = tasks[id].file
                /\ Active(id) /\ Active(id)' =>
                     /\ tasks[id].pause => tasks'[id].pause
                     /\ tasks[id].cancel => tasks'[id].cancel]_vars
  BY <1>1, TaskFates DEF TaskFate
<1> QED BY <1>1, InvHolds, PTL DEF Spec, LiveTaskKept

\* addDownload counts ids from 1 again in every session and saves its record over
\* whatever has the id: over none that this session could still finish, unless it
\* is one that recovery has skipped.
THEOREM NewIdsFree == Spec => NewIdIsFree
<1>1. ASSUME IInv, [Next]_vars, NEW id \in Ids, service = "up", stored,
             ~Live(id), rows[id] # NoRow
      PROVE  rows[id].status \in {"failed", "cancelled"} \/ id \in skipped
  BY <1>1 DEF IInv, NothingForgottenYet
<1>2. IInv /\ [Next]_vars =>
        [\A id \in Ids : service = "up" /\ stored /\ ~Live(id) /\ Live(id)'
                          /\ rows[id] # NoRow =>
           rows[id].status \in {"failed", "cancelled"} \/ id \in skipped]_vars
  BY <1>1
<1> QED BY <1>2, InvHolds, PTL DEF Spec, NewIdIsFree

=============================================================================
