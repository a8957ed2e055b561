--------------------------- MODULE DownloadService ---------------------------
(***************************************************************************)
(* The service over several sessions: its downloads in memory (tasksById   *)
(* of DownloadEngine, src/src/engine/download_engine.cpp), their rows in   *)
(* the database (src/src/storage/storage_manager.cpp), and                 *)
(* DownloadOrchestrator (src/src/core/download_orchestrator.cpp), which    *)
(* starts, recovers, commands and stops them.  The service may crash at    *)
(* any point; the rows survive it.  Opening the database may fail, and so  *)
(* may saving a record: nobody looks at what saveDownload returns.         *)
(*                                                                         *)
(* What one run does inside is DownloadTask; here a run only makes         *)
(* progress, reports trouble and ends.  Requests come one at a time, from  *)
(* the IPC listener: `api' is where the one in progress is.                *)
(***************************************************************************)
EXTENDS Integers, FiniteSets

CONSTANTS Files,        \* the save paths downloads may have
          MaxId,        \* bound: the ids handed out
          MaxLaunches,  \* bound: sessions
          MaxCommands   \* bound: pause, resume and cancel commands

Ids == 1..MaxId

ASSUME ServiceAssumption ==
  /\ Files # {}
  /\ MaxId \in Nat \ {0}
  /\ MaxLaunches \in Nat
  /\ MaxCommands \in Nat

NoTask == [file |-> "none"]
NoRow  == [status |-> "none"]

VARIABLES
  service,         \* "down", "recovering", "up" or "stopping"
  nextDownloadId,
  tasks,           \* tasksById
  rows,            \* the downloads table
  unfinished,      \* the records start() has still to restart
  skipped,         \* those whose restart failed in this session
  stored,          \* whether this session has a database
  unsaved,         \* history: the downloads of this session that have not got a row
  api, apiId, apiRow,
  launches, commands

memoryVars == <<nextDownloadId, tasks>>
apiVars    == <<api, apiId, apiRow>>
startVars  == <<unfinished, skipped, stored, unsaved>>
vars == <<service, nextDownloadId, tasks, rows, unfinished, skipped, stored, unsaved,
          api, apiId, apiRow, launches, commands>>

-----------------------------------------------------------------------------
Live(id) == tasks[id] # NoTask
Active(id) == Live(id) /\ tasks[id].run = "running"

NewTask(f) == [file |-> f, run |-> "running", pause |-> FALSE, cancel |-> FALSE,
               failed |-> FALSE]

\* updateDownloadStatus: an UPDATE, without effect if there is no such row, or no
\* database.
WithStatus(id, status) ==
  [rows EXCEPT ![id] = IF @ = NoRow \/ ~stored THEN @ ELSE [@ EXCEPT !.status = status]]

\* Mutant form of UnfinishedStatuses: a download whose connection broke before
\* the crash is taken for a finished one.
NotReconnecting == {"downloading", "paused", "queued"}

\* The statuses getUnfinishedDownloads selects.
UnfinishedStatuses == {"downloading", "paused", "reconnecting", "queued"}

Unfinished(id) == rows[id] # NoRow /\ rows[id].status \in UnfinishedStatuses

Init ==
  /\ service = "down"
  /\ nextDownloadId = 1
  /\ tasks = [id \in Ids |-> NoTask]
  /\ rows = [id \in Ids |-> NoRow]
  /\ unfinished = {} /\ skipped = {} /\ stored = FALSE /\ unsaved = {}
  /\ api = "idle" /\ apiId = 1 /\ apiRow = NoRow
  /\ launches = 0 /\ commands = 0

-----------------------------------------------------------------------------
(* Start and recovery.                                                       *)

\* A new engine, then recoverUnfinishedDownloads: every record that is not
\* finished becomes "queued".  start() goes on to restart them one by one.  If the
\* database cannot be opened the session has none and recovers nothing.
Launch ==
  /\ service = "down" /\ launches < MaxLaunches
  /\ launches' = launches + 1
  /\ service' = "recovering"
  /\ stored' \in BOOLEAN
  /\ rows' = [id \in Ids |-> IF stored' /\ Unfinished(id)
                             THEN [rows[id] EXCEPT !.status = "queued"]
                             ELSE rows[id]]
  /\ unfinished' = {id \in Ids : stored' /\ Unfinished(id)}
  /\ UNCHANGED <<memoryVars, skipped, unsaved, apiVars, commands>>

\* Mutant form of PastHint: the counter is left where it was.
CounterKept(id) == nextDownloadId

\* The counter after the compare-and-exchange loop for a hinted id.
PastHint(id) == IF nextDownloadId <= id THEN id + 1 ELSE nextDownloadId

\* Mutant form of Recover: the id in the record is not handed to the engine.
RecoverUnhinted(id) ==
  /\ service = "recovering" /\ api = "idle" /\ id \in unfinished
  /\ nextDownloadId <= MaxId
  /\ tasks' = [tasks EXCEPT ![nextDownloadId] = NewTask(rows[id].file)]
  /\ nextDownloadId' = nextDownloadId + 1
  /\ unfinished' = unfinished \ {id}
  /\ api' = "update" /\ apiId' = id
  /\ apiRow' = [file |-> rows[id].file, status |-> "downloading"]
  /\ UNCHANGED <<service, rows, skipped, stored, unsaved, launches, commands>>

\* startDownload with the record's id as hint, when the HEAD request succeeds;
\* then the row becomes "downloading" (WriteRow).
Recover(id) ==
  /\ service = "recovering" /\ api = "idle" /\ id \in unfinished
  /\ tasks' = [tasks EXCEPT ![id] = NewTask(rows[id].file)]
  /\ nextDownloadId' = PastHint(id)
  /\ unfinished' = unfinished \ {id}
  /\ api' = "update" /\ apiId' = id
  /\ apiRow' = [file |-> rows[id].file, status |-> "downloading"]
  /\ UNCHANGED <<service, rows, skipped, stored, unsaved, launches, commands>>

\* The HEAD request fails: startDownload returns before it looks at the hint,
\* and the record is left for the next launch.
SkipRecovery(id) ==
  /\ service = "recovering" /\ api = "idle" /\ id \in unfinished
  /\ unfinished' = unfinished \ {id}
  /\ skipped' = skipped \cup {id}
  /\ UNCHANGED <<service, memoryVars, rows, stored, unsaved, apiVars, launches, commands>>

RecoveryDone ==
  /\ service = "recovering" /\ api = "idle" /\ unfinished = {}
  /\ service' = "up"
  /\ UNCHANGED <<memoryVars, rows, startVars, apiVars, launches, commands>>

-----------------------------------------------------------------------------
(* Requests.                                                                 *)

\* addDownload: the engine takes the next id and starts the run; the row is
\* saved afterwards (WriteRow).  A failed HEAD request changes nothing.
AddDownload(f) ==
  /\ service = "up" /\ api = "idle" /\ nextDownloadId <= MaxId
  /\ tasks' = [tasks EXCEPT ![nextDownloadId] = NewTask(f)]
  /\ nextDownloadId' = nextDownloadId + 1
  /\ api' = "save" /\ apiId' = nextDownloadId
  /\ apiRow' = [file |-> f, status |-> "downloading"]
  /\ UNCHANGED <<service, rows, startVars, launches, commands>>

\* The engine finds the task; without one, pause, resume and cancel return false
\* and change nothing.
Command(id) ==
  /\ service = "up" /\ api = "idle" /\ Live(id) /\ commands < MaxCommands
  /\ commands' = commands + 1
  /\ apiId' = id
  /\ UNCHANGED <<service, nextDownloadId, rows, startVars, launches>>

PauseDownload(id) ==
  /\ Command(id)
  /\ tasks' = [tasks EXCEPT ![id].pause = TRUE]
  /\ api' = "update" /\ apiRow' = [file |-> tasks[id].file, status |-> "paused"]

CancelDownload(id) ==
  /\ Command(id)
  /\ tasks' = [tasks EXCEPT ![id].cancel = TRUE]
  /\ api' = "update" /\ apiRow' = [file |-> tasks[id].file, status |-> "cancelled"]

\* resumeDownload first joins the runner, and every other request waits.
ResumeDownload(id) ==
  /\ Command(id)
  /\ api' = "join"
  /\ UNCHANGED <<tasks, apiRow>>

\* Mutant form of JoinReturns: the end waited for is the one of a pause.
PausedOnly == tasks[apiId].run = "paused"

\* join() returns when the previous run has ended, however it did.
JoinReturns == ~Active(apiId)

Relaunch ==
  /\ api = "join" /\ JoinReturns
  /\ tasks' = [tasks EXCEPT ![apiId] = NewTask(@.file)]
  /\ api' = "update"
  /\ apiRow' = [file |-> tasks[apiId].file, status |-> "downloading"]
  /\ UNCHANGED <<service, nextDownloadId, rows, startVars, apiId, launches,
                 commands>>

\* saveDownload replaces whatever row has the id; updateDownloadStatus changes
\* the status of a row that is there.  The request is answered in the same way if
\* the row could not be saved.
WriteRow ==
  /\ \/ /\ api = "save"
        /\ \/ rows' = rows /\ unsaved' = unsaved \cup {apiId}
           \/ stored /\ rows' = [rows EXCEPT ![apiId] = apiRow] /\ UNCHANGED unsaved
     \/ /\ api = "update"
        /\ rows' = WithStatus(apiId, apiRow.status)
        /\ UNCHANGED unsaved
  /\ api' = "idle" /\ apiId' = 1 /\ apiRow' = NoRow
  /\ UNCHANGED <<service, memoryVars, unfinished, skipped, stored, launches, commands>>

-----------------------------------------------------------------------------
(* Runs.                                                                     *)

\* A worker writes the row, whatever has been requested meanwhile.
Reconnect(id) ==
  /\ Active(id)
  /\ rows' = WithStatus(id, "reconnecting")
  /\ UNCHANGED <<service, memoryVars, startVars, apiVars, launches, commands>>

GiveUp(id) ==
  /\ Active(id) /\ ~tasks[id].failed
  /\ tasks' = [tasks EXCEPT ![id].failed = TRUE]
  /\ rows' = WithStatus(id, "failed")
  /\ UNCHANGED <<service, nextDownloadId, startVars, apiVars, launches,
                 commands>>

\* The ends a run may come to.  runTask looks once at the pause, then once at
\* the cancellation, and requests made after it has looked are ignored; the
\* merge may fail half way.
Ends(t) ==
  {e \in {"paused", "cancelled", "failed", "completed", "unmerged"} :
     \/ e = "paused" /\ t.pause
     \/ e = "cancelled" /\ t.cancel
     \/ e = "failed" /\ t.failed
     \/ e \in {"completed", "unmerged"} /\ ~t.failed}

EndRun(id) ==
  /\ Active(id)
  /\ \E end \in Ends(tasks[id]) : tasks' = [tasks EXCEPT ![id].run = end]
  /\ UNCHANGED <<service, nextDownloadId, rows, startVars, apiVars, launches, commands>>

-----------------------------------------------------------------------------
(* The end of a session.                                                     *)

\* The listener has finished its request; stop() destroys the engine, whose
\* destructor cancels every task and joins its runner.
Stop ==
  /\ service = "up" /\ api = "idle"
  /\ service' = "stopping"
  /\ tasks' = [id \in Ids |-> IF Live(id) THEN [tasks[id] EXCEPT !.cancel = TRUE]
                              ELSE NoTask]
  /\ UNCHANGED <<nextDownloadId, rows, startVars, apiVars, launches, commands>>

\* Mutant form of AllJoined: the destructor waits for what it has asked for.
AllCancelled == \A id \in Ids : Live(id) => tasks[id].run = "cancelled"

\* The destructor joins every runner, whatever the run came to.
AllJoined == \A id \in Ids : ~Active(id)

\* What was in memory is gone.
EndOfSession ==
  /\ service' = "down"
  /\ tasks' = [id \in Ids |-> NoTask] /\ nextDownloadId' = 1
  /\ unfinished' = {} /\ skipped' = {} /\ stored' = FALSE /\ unsaved' = {}
  /\ api' = "idle" /\ apiId' = 1 /\ apiRow' = NoRow
  /\ UNCHANGED <<rows, launches, commands>>

Stopped == service = "stopping" /\ AllJoined /\ EndOfSession

\* The process dies, by a crash or because the machine is switched off.
Crash == service # "down" /\ EndOfSession

Run(id) == Reconnect(id) \/ GiveUp(id) \/ EndRun(id)

\* Nobody starts the service again.
Over == service = "down" /\ launches = MaxLaunches /\ UNCHANGED vars

Next ==
  \/ Launch \/ RecoveryDone \/ Relaunch \/ WriteRow \/ Stop \/ Stopped \/ Crash
  \/ \E f \in Files : AddDownload(f)
  \/ \E id \in Ids :
       \/ Recover(id) \/ SkipRecovery(id)
       \/ PauseDownload(id) \/ CancelDownload(id) \/ ResumeDownload(id)
       \/ Run(id)
  \/ Over

\* The threads of the service are scheduled fairly; a HEAD request and a run come
\* to an end (RunEnds of DownloadTask).  Launches, requests and shutdowns are
\* not owed.
Fairness ==
  /\ WF_vars(\E id \in Ids : Recover(id) \/ SkipRecovery(id))
  /\ WF_vars(RecoveryDone) /\ WF_vars(Relaunch) /\ WF_vars(WriteRow)
  /\ WF_vars(Stopped)
  /\ \A id \in Ids : WF_vars(EndRun(id))

Spec == Init /\ [][Next]_vars
FairSpec == Spec /\ Fairness

-----------------------------------------------------------------------------
TaskRecords ==
  [file : Files, pause : BOOLEAN, cancel : BOOLEAN, failed : BOOLEAN,
   run : {"running", "paused", "cancelled", "failed", "completed", "unmerged"}]
RowRecords ==
  [file : Files, status : {"queued", "downloading", "reconnecting", "paused",
                           "failed", "cancelled"}]

MemoryTyped ==
  /\ service \in {"down", "recovering", "up", "stopping"}
  /\ nextDownloadId \in 1..(MaxId + 1)
  /\ tasks \in [Ids -> TaskRecords \cup {NoTask}]

RowsTyped ==
  /\ rows \in [Ids -> RowRecords \cup {NoRow}]
  /\ apiRow \in RowRecords \cup {NoRow}

RestTyped ==
  /\ unfinished \subseteq Ids /\ skipped \subseteq Ids
  /\ stored \in BOOLEAN /\ unsaved \subseteq Ids
  /\ api \in {"idle", "save", "update", "join"} /\ apiId \in Ids
  /\ launches \in 0..MaxLaunches /\ commands \in 0..MaxCommands

\* Type invariant; in it, that the counter stays at most one past the ids.
TypeOK == MemoryTyped /\ RowsTyped /\ RestTyped

\* A download in memory and the row with its id are of the same file, so that
\* getStatus, which looks up the engine's progress by the row's id, and every
\* later update of the row are about the right download; only addDownload is
\* ahead of its row for a moment, and for the session if saving the row failed.
RowMatchesTask ==
  \A id \in Ids : Live(id) /\ id \notin unsaved /\ ~(api = "save" /\ apiId = id) =>
    rows[id] # NoRow /\ rows[id].file = tasks[id].file

\* Once the service is up, whatever it found in the database that had neither
\* failed nor been cancelled is in memory again, or is known to have been
\* skipped: no crash, whenever it came, makes a download forgotten.
NothingForgotten ==
  service = "up" /\ stored =>
    \A id \in Ids :
      rows[id] # NoRow /\ rows[id].status \notin {"failed", "cancelled"} =>
        Live(id) \/ id \in skipped

\* Ids start at 1 again in every session, and saving a new download replaces the
\* record that has its id: that record is never one of a download that could still
\* be finished, except one that this session failed to restart.
NewIdIsFree ==
  [][\A id \in Ids : service = "up" /\ stored /\ ~Live(id) /\ Live(id)' /\ rows[id] # NoRow =>
       rows[id].status \in {"failed", "cancelled"} \/ id \in skipped]_vars

\* Within a session no download takes the place of another in tasksById, whose
\* runner would be lost, and no request to stop a run is withdrawn while the
\* run goes on: the ids of new and of recovered downloads never meet.
LiveTaskKept ==
  [][\A id \in Ids : Live(id) /\ service' # "down" =>
       /\ Live(id)' /\ tasks'[id].file = tasks[id].file
       /\ Active(id) /\ Active(id)' =>
            /\ tasks[id].pause => tasks'[id].pause
            /\ tasks[id].cancel => tasks'[id].cancel]_vars

\* Every request is answered, also one to resume a download that is running,
\* during which the listener takes no other.
RequestsAnswered == api # "idle" ~> api = "idle"

\* A shutdown comes to its end: the destructor's join of every runner returns.
ShutdownEnds == service = "stopping" ~> service = "down"
=============================================================================
