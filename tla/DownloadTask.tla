---------------------------- MODULE DownloadTask ----------------------------
(***************************************************************************)
(* One download of DownloadEngine (src/src/engine/download_engine.cpp) and *)
(* its row of the downloads table, which DownloadOrchestrator              *)
(* (src/src/core/download_orchestrator.cpp) and the engine both write.     *)
(*                                                                         *)
(* Four kinds of threads interleave:                                       *)
(*   - the API thread: the service's IPC listener, which calls the         *)
(*     orchestrator one request at a time, and shuts it down at the end;   *)
(*   - the runner, Impl::runTask: starts the workers, joins them, then     *)
(*     keeps, deletes or merges the part files;                            *)
(*   - the workers, the lambda inside runTask: each claims segments and    *)
(*     fetches them into their part files, retrying on failures;           *)
(*   - the network monitor, which goes offline and online.                 *)
(*                                                                         *)
(* Sizes are counted in chunks, the amount one progress callback reports.  *)
(* Left out, because no step depends on them: the byte counts shown to the *)
(* user, Segment::status, error texts, delays and event rows.              *)
(***************************************************************************)
EXTENDS Integers, FiniteSets

CONSTANTS Workers,      \* the worker threads of a run
          NumSegments,  \* the number of segments of the plan
          SegmentSize,  \* the chunks of each segment
          MaxRetries,   \* request.maxRetries, or 10
          DiskFills,    \* whether writing the final file may fail
          MaxCommands,  \* bound: pause, resume and cancel commands
          MaxOutages    \* bound: times the monitor goes offline

Segments == 1..NumSegments

ASSUME TaskAssumption ==
  /\ Workers # {}
  /\ NumSegments \in Nat \ {0}
  /\ SegmentSize \in [Segments -> Nat \ {0}]
  /\ MaxRetries \in Nat
  /\ DiskFills \in BOOLEAN
  /\ MaxCommands \in Nat
  /\ MaxOutages \in Nat

VARIABLES
  \* the atomics of struct DownloadTask
  pauseRequested, cancelRequested, isRunning, isFinished,
  currentRetryCount,   \* a plain int the workers share without a lock
  \* the engine's Impl
  activeTransfers,
  statusMessage,       \* progressById[id].statusMessage
  \* locals of runTask
  runner,              \* where the runner is
  ok,
  nextSegment,
  mergeNext,           \* the segment the merge loop is at
  \* the workers
  worker,              \* where each worker is
  claimed,             \* its segmentIndex
  loaded,              \* the retry count it read and has not yet written back
  \* the disk
  part,                \* chunks in each part file, 0: absent or empty
  tempFilePath,        \* whether the task remembers the part file's path
  finalFile,           \* chunks of each segment in the final file
  \* the database
  row,                 \* downloads.status, "none": no such row
  \* the API thread
  api, toWrite, commands,
  \* the network monitor
  network, outages

flagVars   == <<pauseRequested, cancelRequested>>
stateVars  == <<isRunning, isFinished, activeTransfers>>
runVars    == <<ok, nextSegment, mergeNext>>
workerVars == <<worker, claimed, loaded, currentRetryCount>>
fileVars   == <<part, tempFilePath, finalFile>>
apiVars    == <<api, toWrite, commands>>
netVars    == <<network, outages>>

vars == <<pauseRequested, cancelRequested, isRunning, isFinished,
          currentRetryCount, activeTransfers, statusMessage, runner, ok,
          nextSegment, mergeNext, worker, claimed, loaded, part, tempFilePath,
          finalFile, row, api, toWrite, commands, network, outages>>

-----------------------------------------------------------------------------
StopRequested == pauseRequested \/ cancelRequested

Full(s) == part[s] = SegmentSize[s]

\* An UPDATE ... WHERE id = ? changes nothing while the row does not exist.
UpdateRow(status) == row' = IF row = "none" THEN row ELSE status

Goto(w, place) == worker' = [worker EXCEPT ![w] = place]

\* A download is new, with no row yet, or one of an earlier session that
\* start() takes up again from its "queued" row.  In both cases part files of
\* an earlier attempt may be on disk.
Init ==
  /\ pauseRequested = FALSE /\ cancelRequested = FALSE
  /\ isRunning = FALSE /\ isFinished = FALSE
  /\ currentRetryCount = 0
  /\ activeTransfers = 0
  /\ statusMessage = "none"
  /\ runner = "idle"
  /\ ok = TRUE
  /\ nextSegment = 1
  /\ mergeNext = 1
  /\ worker = [w \in Workers |-> "exit"]
  /\ claimed = [w \in Workers |-> 1]
  /\ loaded = [w \in Workers |-> 0]
  /\ part \in [Segments -> UNION {0..SegmentSize[s] : s \in Segments}]
  /\ \A s \in Segments : part[s] <= SegmentSize[s]
  /\ tempFilePath = [s \in Segments |-> FALSE]
  /\ finalFile = [s \in Segments |-> 0]
  /\ row \in {"none", "queued"}
  /\ api = "new" /\ toWrite = "downloading" /\ commands = 0
  /\ network = "Online" /\ outages = 0

-----------------------------------------------------------------------------
(* The API thread.  Every command is an engine call followed by a write of   *)
(* the row, with nothing held in between.                                    *)

\* startDownload publishes the task and launches the runner; addDownload then
\* saves the row (start() updates the one it recovered): WriteRow.
StartDownload ==
  /\ api = "new"
  /\ activeTransfers' = activeTransfers + 1
  /\ statusMessage' = "downloading"
  /\ runner' = "begin"
  /\ api' = "write" /\ toWrite' = "downloading"
  /\ UNCHANGED <<flagVars, isRunning, isFinished, runVars, workerVars, fileVars,
                 row, commands, netVars>>

Command ==
  /\ api = "ready" /\ commands < MaxCommands
  /\ commands' = commands + 1

PauseDownload ==
  /\ Command
  /\ pauseRequested' = TRUE
  /\ statusMessage' = "paused"
  /\ api' = "write" /\ toWrite' = "paused"
  /\ UNCHANGED <<cancelRequested, stateVars, runner, runVars, workerVars,
                 fileVars, row, netVars>>

CancelDownload ==
  /\ Command
  /\ cancelRequested' = TRUE
  /\ statusMessage' = "cancelled"
  /\ api' = "write" /\ toWrite' = "cancelled"
  /\ UNCHANGED <<pauseRequested, stateVars, runner, runVars, workerVars,
                 fileVars, row, netVars>>

\* Mutant form of ResumeDownload: the stop requests are withdrawn before the
\* runner that is to obey them has been joined.
ResumeClearsFirst ==
  /\ Command
  /\ api' = "joining"
  /\ pauseRequested' = FALSE /\ cancelRequested' = FALSE
  /\ UNCHANGED <<stateVars, statusMessage, runner, runVars, workerVars,
                 fileVars, row, toWrite, netVars>>

\* resumeDownload finds the task, then joins the runner of the previous run,
\* without the engine's mutex, however long that run takes.
ResumeDownload ==
  /\ Command
  /\ api' = "joining"
  /\ UNCHANGED <<flagVars, stateVars, statusMessage, runner, runVars, workerVars,
                 fileVars, row, toWrite, netVars>>

\* Mutant form of Relaunched: isFinished keeps its value of the previous run.
StillFinished == isFinished
Relaunched == FALSE

\* The runner is joined: clear the requests and launch it again.  A task still
\* marked as running is refused.
RelaunchRunner ==
  /\ api = "joining" /\ runner = "idle"
  /\ IF isRunning
     THEN /\ api' = "ready"
          /\ UNCHANGED <<flagVars, isFinished, activeTransfers, statusMessage,
                         runner, toWrite>>
     ELSE /\ pauseRequested' = FALSE /\ cancelRequested' = FALSE
          /\ isFinished' = Relaunched
          /\ activeTransfers' = activeTransfers + 1
          /\ statusMessage' = "downloading"
          /\ runner' = "begin"
          /\ api' = "write" /\ toWrite' = "downloading"
  /\ UNCHANGED <<isRunning, runVars, workerVars, fileVars, row, commands, netVars>>

\* saveDownload's INSERT OR REPLACE, or updateDownloadStatus.
WriteRow ==
  /\ api = "write"
  /\ row' = toWrite
  /\ api' = "ready"
  /\ UNCHANGED <<flagVars, stateVars, statusMessage, runner, runVars, workerVars,
                 fileVars, toWrite, commands, netVars>>

\* stop() destroys the engine, whose destructor cancels and joins the task.
StopService ==
  /\ api = "ready"
  /\ cancelRequested' = TRUE
  /\ api' = "stopping"
  /\ UNCHANGED <<pauseRequested, stateVars, statusMessage, runner, runVars,
                 workerVars, fileVars, row, toWrite, commands, netVars>>

ServiceStopped ==
  /\ api = "stopping" /\ runner = "idle"
  /\ api' = "stopped"
  /\ UNCHANGED <<flagVars, stateVars, statusMessage, runner, runVars, workerVars,
                 fileVars, row, toWrite, commands, netVars>>

-----------------------------------------------------------------------------
(* The runner.                                                               *)

\* runTask's prologue and the start of the workers.
BeginRun ==
  /\ runner = "begin"
  /\ isRunning' = TRUE /\ isFinished' = FALSE
  /\ ok' = TRUE
  /\ nextSegment' = 1
  /\ worker' = [w \in Workers |-> "claim"]
  /\ runner' = "joinWorkers"
  /\ UNCHANGED <<flagVars, activeTransfers, statusMessage, mergeNext, claimed,
                 loaded, currentRetryCount, fileVars, row, apiVars, netVars>>

\* Mutant form of AllExited: the runner goes on as soon as one worker is back.
SomeExited == \E w \in Workers : worker[w] = "exit"

AllExited == \A w \in Workers : worker[w] = "exit"

\* Join the workers, then look at pauseRequested.
JoinWorkers ==
  /\ runner = "joinWorkers" /\ AllExited
  /\ runner' = IF pauseRequested THEN "keepParts" ELSE "checkCancel"
  /\ UNCHANGED <<flagVars, stateVars, statusMessage, runVars, workerVars,
                 fileVars, row, apiVars, netVars>>

CheckCancel ==
  /\ runner = "checkCancel"
  /\ runner' = IF cancelRequested THEN "removeCancelled"
               ELSE IF ok THEN "openOutput" ELSE "removeFailed"
  /\ UNCHANGED <<flagVars, stateVars, statusMessage, runVars, workerVars,
                 fileVars, row, apiVars, netVars>>

\* Delete the part files whose paths this task knows.  Nobody looks at the error of a
\* removal, here or in MergeSegment; that a file cannot be removed is left out.
RemoveParts ==
  /\ runner \in {"removeCancelled", "removeFailed"}
  /\ part' = [s \in Segments |-> IF tempFilePath[s] THEN 0 ELSE part[s]]
  /\ runner' = IF runner = "removeCancelled" THEN "finishCancelled" ELSE "finish"
  /\ UNCHANGED <<flagVars, stateVars, statusMessage, runVars, workerVars,
                 tempFilePath, finalFile, row, apiVars, netVars>>

\* Truncate the final file; opening it may fail.
OpenOutput ==
  /\ runner = "openOutput"
  /\ \/ /\ finalFile' = [s \in Segments |-> 0]
        /\ mergeNext' = 1
        /\ runner' = "merge"
        /\ UNCHANGED ok
     \/ /\ ok' = FALSE
        /\ runner' = "finish"
        /\ UNCHANGED <<finalFile, mergeNext>>
  /\ UNCHANGED <<flagVars, stateVars, statusMessage, nextSegment, workerVars,
                 part, tempFilePath, row, apiVars, netVars>>

\* How much of a part file of n chunks reaches the final file.  A write that
\* fails is not noticed: the stream drops it and all that follows.
Written(n) ==
  IF \E s \in Segments : s < mergeNext /\ finalFile[s] # SegmentSize[s] THEN {0}
  ELSE IF DiskFills THEN 0..n ELSE {n}

\* Append one part file to the final file and delete it, unless it cannot be
\* opened, which is certain when it is not there.
MergeSegment ==
  /\ runner = "merge" /\ mergeNext <= NumSegments
  /\ \/ /\ part[mergeNext] > 0
        /\ \E n \in Written(part[mergeNext]) :
             finalFile' = [finalFile EXCEPT ![mergeNext] = n]
        /\ part' = [part EXCEPT ![mergeNext] = 0]
        /\ mergeNext' = mergeNext + 1
        /\ UNCHANGED <<ok, runner>>
     \/ /\ ok' = FALSE
        /\ runner' = "finish"
        /\ UNCHANGED <<finalFile, part, mergeNext>>
  /\ UNCHANGED <<flagVars, stateVars, statusMessage, nextSegment, workerVars,
                 tempFilePath, row, apiVars, netVars>>

MergeDone ==
  /\ runner = "merge" /\ mergeNext > NumSegments
  /\ runner' = "finish"
  /\ UNCHANGED <<flagVars, stateVars, statusMessage, runVars, workerVars,
                 fileVars, row, apiVars, netVars>>

\* Mutant form of Released: the transfer is never given back.
NotReleased == activeTransfers
Released == IF activeTransfers > 1 THEN activeTransfers - 1 ELSE 0

\* The three ends of runTask: none of them writes the row.
FinishRun ==
  /\ \/ runner = "keepParts" /\ statusMessage' = "paused"
     \/ runner = "finishCancelled" /\ statusMessage' = "cancelled"
     \/ runner = "finish" /\ statusMessage' = IF ok THEN "completed" ELSE "failed"
  /\ isRunning' = FALSE /\ isFinished' = TRUE
  /\ activeTransfers' = Released
  /\ runner' = "idle"
  /\ UNCHANGED <<flagVars, runVars, workerVars, fileVars, row, apiVars, netVars>>

Runner ==
  \/ BeginRun \/ JoinWorkers \/ CheckCancel \/ RemoveParts
  \/ OpenOutput \/ MergeSegment \/ MergeDone \/ FinishRun

-----------------------------------------------------------------------------
(* The workers.                                                              *)

\* Mutant form of AfterClaim: the shared index is not advanced.
SameSegment == nextSegment
AfterClaim == nextSegment + 1

NoneLeft == nextSegment > NumSegments

\* Under stateMutex: leave, or take the next segment.
ClaimSegment(w) ==
  /\ worker[w] = "claim"
  /\ IF ~ok \/ StopRequested \/ NoneLeft
     THEN /\ Goto(w, "exit")
          /\ UNCHANGED <<claimed, nextSegment>>
     ELSE /\ claimed' = [claimed EXCEPT ![w] = nextSegment]
          /\ nextSegment' = AfterClaim
          /\ Goto(w, "check")
  /\ UNCHANGED <<flagVars, stateVars, statusMessage, runner, ok, mergeNext,
                 loaded, currentRetryCount, fileVars, row, apiVars, netVars>>

\* The head of the retry loop: leave, or look at the part file and ask for what
\* is missing.  A part file already full needs no request.
CheckPart(w) ==
  LET s == claimed[w] IN
  /\ worker[w] = "check"
  /\ tempFilePath' = [tempFilePath EXCEPT ![s] = TRUE]
  /\ Goto(w, IF ~ok \/ StopRequested THEN "exit"
             ELSE IF Full(s) THEN "segmentDone" ELSE "transfer")
  /\ UNCHANGED <<flagVars, stateVars, statusMessage, runner, runVars, claimed,
                 loaded, currentRetryCount, part, finalFile, row, apiVars, netVars>>

\* downloadToFile appends a chunk; the progress callback then refuses to go on
\* if a stop was requested.
ReceiveChunk(w) ==
  LET s == claimed[w] IN
  /\ worker[w] = "transfer" /\ ~Full(s)
  /\ part' = [part EXCEPT ![s] = @ + 1]
  /\ Goto(w, IF StopRequested THEN "notFetched" ELSE "transfer")
  /\ UNCHANGED <<flagVars, stateVars, statusMessage, runner, runVars, claimed,
                 loaded, currentRetryCount, tempFilePath, finalFile, row,
                 apiVars, netVars>>

\* downloadToFile returns false: the connection broke or timed out, or the
\* server answered with an error.
TransferFails(w) ==
  /\ worker[w] = "transfer"
  /\ Goto(w, "notFetched")
  /\ UNCHANGED <<flagVars, stateVars, statusMessage, runner, runVars, claimed,
                 loaded, currentRetryCount, fileVars, row, apiVars, netVars>>

\* Mutant form of RangeReceived: a broken transfer is taken for a whole one.
SomethingReceived(s) == part[s] > 0

\* The range has arrived.
RangeReceived(s) == Full(s)

\* downloadToFile returns true, once the range has arrived.
TransferSucceeds(w) ==
  /\ worker[w] = "transfer" /\ RangeReceived(claimed[w])
  /\ currentRetryCount' = 0
  /\ Goto(w, "segmentDone")
  /\ UNCHANGED <<flagVars, stateVars, statusMessage, runner, runVars, claimed,
                 loaded, fileVars, row, apiVars, netVars>>

\* A stop explains the failure; otherwise it counts, and the unprotected
\* increment starts by reading the counter.
AfterFailure(w) ==
  /\ worker[w] = "notFetched"
  /\ IF StopRequested
     THEN Goto(w, "exit") /\ UNCHANGED loaded
     ELSE Goto(w, "count") /\ loaded' = [loaded EXCEPT ![w] = currentRetryCount]
  /\ UNCHANGED <<flagVars, stateVars, statusMessage, runner, runVars, claimed,
                 currentRetryCount, fileVars, row, apiVars, netVars>>

\* Mutant form of Counted: the failure is not counted.
Uncounted(n) == n
Counted(n) == n + 1

CountFailure(w) ==
  /\ worker[w] = "count"
  /\ currentRetryCount' = Counted(loaded[w])
  /\ Goto(w, "compare")
  /\ UNCHANGED <<flagVars, stateVars, statusMessage, runner, runVars, claimed,
                 loaded, fileVars, row, apiVars, netVars>>

\* The counter is read again, without a lock.
CompareRetries(w) ==
  /\ worker[w] = "compare"
  /\ Goto(w, IF currentRetryCount > MaxRetries THEN "giveUp" ELSE "reconnecting")
  /\ UNCHANGED <<flagVars, stateVars, statusMessage, runner, runVars, claimed,
                 loaded, currentRetryCount, fileVars, row, apiVars, netVars>>

\* Under stateMutex and the engine's mutex: the run has failed.
GiveUp(w) ==
  /\ worker[w] = "giveUp"
  /\ ok' = FALSE
  /\ statusMessage' = "failed"
  /\ UpdateRow("failed")
  /\ Goto(w, "exit")
  /\ UNCHANGED <<flagVars, stateVars, runner, nextSegment, mergeNext, claimed,
                 loaded, currentRetryCount, fileVars, apiVars, netVars>>

\* Under the engine's mutex, with no look at ok or at the stop requests.
Reconnect(w) ==
  /\ worker[w] = "reconnecting"
  /\ statusMessage' = "reconnecting"
  /\ UpdateRow("reconnecting")
  /\ Goto(w, "backOff")
  /\ UNCHANGED <<flagVars, stateVars, runner, runVars, claimed, loaded,
                 currentRetryCount, fileVars, apiVars, netVars>>

\* Mutant form of MayRetry: a worker that waits for the network does not look
\* at the stop requests.
OnlineOnly == network = "Online"

\* The back-off is over, the network is back, or a stop was requested.
MayRetry == network # "Offline" \/ StopRequested

BackOff(w) ==
  /\ worker[w] = "backOff" /\ MayRetry
  /\ Goto(w, "check")
  /\ UNCHANGED <<flagVars, stateVars, statusMessage, runner, runVars, claimed,
                 loaded, currentRetryCount, fileVars, row, apiVars, netVars>>

\* The segment is complete: back to claim another.
FinishSegment(w) ==
  /\ worker[w] = "segmentDone"
  /\ Goto(w, "claim")
  /\ UNCHANGED <<flagVars, stateVars, statusMessage, runner, runVars, claimed,
                 loaded, currentRetryCount, fileVars, row, apiVars, netVars>>

Worker(w) ==
  \/ ClaimSegment(w) \/ CheckPart(w) \/ ReceiveChunk(w) \/ TransferFails(w)
  \/ TransferSucceeds(w) \/ AfterFailure(w) \/ CountFailure(w)
  \/ CompareRetries(w) \/ GiveUp(w) \/ Reconnect(w) \/ BackOff(w)
  \/ FinishSegment(w)

-----------------------------------------------------------------------------
\* The network monitor.  (setStatus of src/src/engine/network_monitor.cpp.)
NetworkLost ==
  /\ network = "Online" /\ outages < MaxOutages
  /\ network' = "Offline" /\ outages' = outages + 1
  /\ UNCHANGED <<flagVars, stateVars, statusMessage, runner, runVars, workerVars,
                 fileVars, row, apiVars>>

NetworkRestored ==
  /\ network = "Offline"
  /\ network' = "Online"
  /\ UNCHANGED <<flagVars, stateVars, statusMessage, runner, runVars, workerVars,
                 fileVars, row, apiVars, outages>>

\* The service has stopped: nothing is left to do.
Stopped == api = "stopped" /\ runner = "idle" /\ UNCHANGED vars

Next ==
  \/ StartDownload \/ PauseDownload \/ CancelDownload \/ ResumeDownload
  \/ RelaunchRunner \/ WriteRow \/ StopService \/ ServiceStopped
  \/ Runner
  \/ \E w \in Workers : Worker(w)
  \/ NetworkLost \/ NetworkRestored
  \/ Stopped

\* The threads are scheduled fairly.  A transfer always ends: libcurl gives up
\* after CURLOPT_TIMEOUT (300 s).  The user's commands are not owed, nor is the
\* network's return: a wait for it is only ended by a stop request.
Fairness ==
  /\ WF_vars(StartDownload) /\ WF_vars(RelaunchRunner) /\ WF_vars(WriteRow)
  /\ WF_vars(ServiceStopped)
  /\ WF_vars(Runner)
  /\ \A w \in Workers : WF_vars(Worker(w))

Spec == Init /\ [][Next]_vars
FairSpec == Spec /\ Fairness

-----------------------------------------------------------------------------
RunnerPlaces ==
  {"idle", "begin", "joinWorkers", "checkCancel", "keepParts", "removeCancelled",
   "finishCancelled", "removeFailed", "openOutput", "merge", "finish"}
WorkerPlaces ==
  {"claim", "check", "transfer", "notFetched", "count", "compare", "giveUp",
   "reconnecting", "backOff", "segmentDone", "exit"}
ApiPlaces == {"new", "ready", "write", "joining", "stopping", "stopped"}
RowStatuses == {"none", "queued", "downloading", "reconnecting", "paused",
                "failed", "cancelled"}

FlagsTyped ==
  /\ pauseRequested \in BOOLEAN /\ cancelRequested \in BOOLEAN
  /\ isRunning \in BOOLEAN /\ isFinished \in BOOLEAN
  /\ ok \in BOOLEAN
  /\ tempFilePath \in [Segments -> BOOLEAN]

PlacesTyped ==
  /\ statusMessage \in RowStatuses \cup {"completed"}
  /\ runner \in RunnerPlaces
  /\ worker \in [Workers -> WorkerPlaces]
  /\ row \in RowStatuses
  /\ api \in ApiPlaces
  /\ toWrite \in {"downloading", "paused", "cancelled"}
  /\ network \in {"Online", "Offline"}

CountersTyped ==
  /\ currentRetryCount \in Nat /\ loaded \in [Workers -> Nat]
  /\ activeTransfers \in Nat
  /\ commands \in 0..MaxCommands /\ outages \in 0..MaxOutages

SegmentsTyped ==
  /\ nextSegment \in 1..(NumSegments + 1)
  /\ mergeNext \in 1..(NumSegments + 1)
  /\ claimed \in [Workers -> Segments]
  /\ part \in [Segments -> Nat]
  /\ \A s \in Segments : part[s] <= SegmentSize[s]
  /\ finalFile \in [Segments -> Nat]

\* Type invariant; in it, that the shared index stays in range and that no part
\* file outgrows its segment.
TypeOK == FlagsTyped /\ PlacesTyped /\ CountersTyped /\ SegmentsTyped

Holds(w, s) == worker[w] \notin {"claim", "exit"} /\ claimed[w] = s

\* Two workers never have the same segment, so no part file has two writers:
\* bytes appended twice would corrupt the merged file without any error.
SegmentExclusive ==
  \A v, w \in Workers, s \in Segments : Holds(v, s) /\ Holds(w, s) => v = w

\* The final file is opened and written only when every part file that is still
\* to be merged is whole, whatever pauses, cancels, resumes, failures and stops
\* came in between: a worker that left early is never mistaken for one that
\* had finished.
MergeOnlyWhole ==
  /\ runner = "openOutput" => \A s \in Segments : Full(s)
  /\ runner = "merge" => \A s \in mergeNext..NumSegments : Full(s)

\* A download reported as completed has every byte of every segment in the
\* final file, also after it has been paused, resumed or downloaded again
\* (docs/03-Architecture.md:297).  NOT TRUE if the disk fills up: see the README.
CompletedIsWhole ==
  statusMessage = "completed" =>
    \A s \in Segments : finalFile[s] = SegmentSize[s]

\* The part files this task knows are gone, or the merge broke off at some segment,
\* and that one and the later ones are whole.
BrokenOff(n) == \A s \in Segments : IF s < n THEN part[s] = 0 ELSE Full(s)
Tidied ==
  \/ \A s \in Segments : tempFilePath[s] => part[s] = 0
  \/ ~ok /\ \E n \in Segments : BrokenOff(n)

\* Only a pause keeps a part of a segment: once a run that nobody asked to pause has
\* ended, whether cancelled, failed or completed, the part files this task knows are
\* gone, or else the merge broke off and what it has not merged is whole.  No worker
\* brings a part file back after the runner has removed it, and the file of a cancel
\* is left only if a pause was requested too.
OnlyPauseKeepsParts == isFinished /\ ~pauseRequested => Tidied

\* isFinished, on which waitForDownload polls, is only seen true once the runner
\* and all the workers are done with the files.
FinishedIsQuiet ==
  isFinished => /\ runner = "idle" /\ ~isRunning
                /\ \A w \in Workers : worker[w] = "exit"

\* activeTransfers counts the launched runs that have not ended, so that
\* hasActiveDownloads is neither stuck at true nor false during a transfer.
TransfersAccounted ==
  activeTransfers = IF runner = "idle" THEN 0 ELSE 1

\* What a step takes from a part file is accounted for.
BytesKept ==
  \A s \in Segments : part'[s] < part[s] =>
    /\ \A w \in Workers : worker[w] = "exit"
    /\ \/ cancelRequested
       \/ ~ok
       \/ part[s] = SegmentSize[s] /\ finalFile'[s] = part[s]

\* A part file shrinks only when no worker is left, and then only because the
\* download was cancelled or failed or because its bytes, all of them, are now
\* in the final file.  A pause, and a resume after it, lose nothing.  (While the
\* disk does not fill up.)
NoByteLost == [][BytesKept]_vars

\* A requested pause or cancel, and the shutdown of the service, end the run,
\* even one that waits for a network that never comes back.
StopEndsRun == StopRequested ~> runner = "idle"

\* With the network up, a run ends, however often transfers fail: the workers'
\* unprotected increments of the shared counter may lose counts, but not
\* forever.
RunEnds ==
  <>[](network = "Online") => (runner # "idle" ~> runner = "idle")

\* docs/03-Architecture.md:301, that final states change only by an explicit
\* command, of a cancelled row.  NOT TRUE of the code: see the README.
CancelledRowFinal ==
  [][row = "cancelled" /\ row' # row => api = "write"]_vars

\* docs/03-Architecture.md:283, that a finished download becomes completed, in
\* the row too.  NOT TRUE of the code: the runner never writes the row.
CompletionRecorded ==
  statusMessage = "completed" ~> row = "completed" \/ statusMessage # "completed"
=============================================================================
