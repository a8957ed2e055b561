# Verification of remoo-download

TLA+ modules that model the download service of this repository, TLC
configurations that check them on small instances, and TLAPS proofs for every
value of the constants. Paths below are relative to the repository
(`src/engine/...` is the C++ code). All modules are in this directory.

## 1. The system

A service process (`src/service/main.cpp`) owns a `DownloadOrchestrator`, which
owns a `DownloadEngine` and a `StorageManager` (SQLite). Clients (the Qt
interface, a command line, the browser's native messaging host) send one JSON
request per connection over a named pipe; a single listener thread serves them.

| Component | State it keeps | Operations | Talks to |
|---|---|---|---|
| `SegmentPlanner` (`engine/segment_planner.cpp`) | none | `planSegments` | called by the engine |
| `DownloadEngine` (`engine/download_engine.cpp`) | `tasksById`, `progressById`, `nextDownloadId`, `activeTransfers`; per task: pause, cancel, running and finished flags, a retry count, a runner thread with up to 4 workers, part files | start, pause, resume, cancel, recover, destroy | network client, storage, network monitor |
| `DownloadOrchestrator` (`core/download_orchestrator.cpp`) | engine, storage, `running` | start with recovery, add, pause, resume, cancel, status, stop | engine first, then the row, with nothing held in between |
| `StorageManager` (`storage/storage_manager.cpp`) | SQLite tables of downloads, segments and events | open with migration, save, update, delete, checkpoints, select unfinished; one to three statements each, no transaction | called by the IPC thread and by the workers |
| `HttpEngine`, `CurlNetworkClient` (`engine/http_engine.cpp`, `network_client.cpp`) | the transfer under way | HEAD, ranged GET appended to a file, stopped by its progress callback | libcurl |
| `NetworkMonitor` | status | set, read | read by waiting workers; never set in the service, only by embedders and tests |
| `ReconnectManager` | retry count, delays | failure, restored, delay | one per task, shared by its workers |
| `NamedPipeIpc` (`ipc/named_pipe_ipc.cpp`) | listener thread, `running`, one pipe instance | start, stop through a dummy connection, one request at a time; the clients' `sendRequest` with its retries | orchestrator |
| `DownloadManager`, `QueueManager`, `SpeedLimiter`, `ScheduleEngine`, `CategoryEngine` | lists, counters, token buckets | in memory only | not used by the service today |
| Desktop window, native host, command line | connection flag and label, the rows shown, the last answer | poll, add, forward, one request at a time | named pipe |
| Browser extensions, clipboard monitor, logging, checksum, plugins | small or none | | not modelled |

What is hard in it:

* **Threads.** The IPC thread, a runner per download, its workers and the
  monitor share flags, some atomic, some (`ok`, `currentRetryCount`) plain.
* **Two writers of one row.** The orchestrator writes the row after the engine
  call; workers write `reconnecting` and `failed`, with no look at what has been
  requested meanwhile; the runner, which alone knows the outcome, writes nothing.
* **Restarts.** Part files and rows survive a crash; ids, flags and counters do
  not. Recovery rebuilds memory from the rows, one HEAD request per download.
* **Two stops.** A pause keeps part files, a cancel deletes them, a shutdown is
  a cancel, and a resume joins the previous run before it withdraws them.
* **One listener.** A single thread accepts, reads, handles and answers, and is
  stopped by a connection made by the one who then waits for it.
* **Statements without transactions.** A method of the store is several
  statements; two callers, or a crash, come between them.
* **Servers as they are.** They ignore ranges, send error pages, hide the size,
  encode or change the file; the part file's length is all a resume looks at, and a
  restart plans the segments anew over the part files of the last plan.
* **The merge.** Part files are appended to the final file and removed one by
  one; it may break off anywhere and be repeated by a resume.

What makes each component correct:

* planner: ranges partition the file, evenly (`Partition`, `Balanced`);
* task: one writer per part file, only whole files are merged, a report of
  completion is true, no bytes are lost, a run that was not paused leaves no part of
  a segment behind, one that was asked to stop ends (`SegmentExclusive`,
  `MergeOnlyWhole`, `CompletedIsWhole`, `NoByteLost`, `OnlyPauseKeepsParts`,
  `FinishedIsQuiet`, `TransfersAccounted`, `StopEndsRun`, `RunEnds`), all of it
  a `ResumableTransfer`;
* service: rows and memory agree, nothing is forgotten across crashes, no
  download takes another's place in memory, nor in the table that of one which could
  still be finished, requests are answered (`RowMatchesTask`, `NothingForgotten`,
  `LiveTaskKept`, `NewIdIsFree`, `RequestsAnswered`, `ShutdownEnds`);
* pipe: an answer is true, at most one handling per call, what was handled is
  answered, `stop()` leaves nothing behind and returns (`AnswerTruthful`,
  `ServedIsAnswered`, `QuietAfterStop`, `SendReturns`, `StopReturnsUnlessCreating`);
* transfer: what a resume leaves in a part file is a beginning of the segment,
  what counts as done is all of it, or all but what the output stream lost, nothing
  is written after a stop but what is under way (`ResumedIsRight`,
  `UninterruptedIsRight`, `StopsAtNextByte`);
* store: references hold, sums add up, recovery writes what is on disk, ids are
  new (`ReferencesHold`, `ProgressAddsUp`, `RecoveredIsOnDisk`, `NewIdsAreNew`);
* clients: no request makes two downloads, an id that is shown is right, nothing was
  made where a refusal or an unreached service is printed, the label follows the
  service (`ReportsRight`, `LabelFollows`);
* libraries: the rates hold, the delay doubles, the count is right, the numbers of a
  completed download are right and others not too large, lists stay in order, quiet
  hours are kept
  (`GrantedWithinRate`, `DelayDoubles`, `ActiveAccounted`, `EndedReportsRight`,
  `ListsKept`, `QuietHoursKept`).

## 2. Modules and how they correspond to the code

**`SegmentPlanner`** models `planSegments` one loop iteration per step.
`AtLeastOne` is the `max(1, .)` of lines 11 and 20, `FallBack` the early return,
`EnterLoop`, `AddSegment` and `LeaveLoop` the loop. The arguments are chosen in
`Init` from two constant sets. Integers are unbounded: the sums stay below the
file size, so 64 bits suffice.

**`DownloadTask`** is one download with every thread that touches it and its
database row. Each thread has a place:

| Variable | Code |
|---|---|
| `api`, `toWrite` | the IPC thread in `DownloadOrchestrator`: between the engine call and the write of the row (`write`), in `resumeDownload`'s join (`joining`), in the destructor (`stopping`) |
| `runner` | `Impl::runTask` after `BeginRun`: the join of the workers, the two looks at the requests, removal, merge, the final locked block |
| `worker`, `claimed`, `loaded` | the lambda in `runTask`: claim under `stateMutex`, the retry loop, the unprotected `currentRetryCount++` as a load and a store |
| `pauseRequested`, `cancelRequested`, `isRunning`, `isFinished`, `currentRetryCount` | the fields of `DownloadTask` |
| `ok`, `nextSegment`, `mergeNext` | locals of `runTask` |
| `part`, `tempFilePath`, `finalFile` | part files, whether this task knows their paths, the merged file, in chunks |
| `row` | `downloads.status`, `none` while there is no row |
| `statusMessage`, `activeTransfers` | the engine's tables |
| `network`, `outages` | `NetworkMonitor` |

One action is one step between two points where other threads may interfere: a
locked block is one action; a read and a later write without a lock are two.
`Init` allows any part files of an earlier attempt, and a row that is absent (a
new download) or `queued` (one that recovery restarts). The removals of part files
are taken to succeed: the code ignores their errors (lines 383, 401, 420).

**`DownloadTaskInv`** has the inductive invariant `IInv` in named parts and the
refinement mapping. **`ResumableTransfer`** is the abstract promise: bytes are
collected, survive a suspension, are delivered only when all are there, and
completion is reported only of a whole file. The phase of the abstract transfer
is the place of the runner (`Phase`); `part` is what has been collected.

**`DownloadService`** is the service over several sessions: ids, tasks and rows of
several downloads, recovery, requests, shutdown and crashes. A run is reduced to what
the other parts can see (the row is written, it ends in one of five ways), which
`DownloadTask` justifies: `Ends` are the ends of `FinishRun`. What becomes of part
files is in `DownloadTask`, `HttpTransfer` and `Storage`. A crash is possible at
every step and loses memory, not rows. `stored` says whether this session has a
database: `start()` goes on without one if it cannot be opened, recovers nothing
then, and every later write is without effect. `unsaved` are the downloads whose
`saveDownload` failed, which nobody looks at; with a database, the UPDATE of a status
is taken to succeed.

**`DownloadServiceInv`** has its inductive invariant `IInv`.

**`NamedPipeIpc`** has the service's main thread (`main`), the listener
(`listener`), the pipe (`pipe`: none, free, open to a client, or abandoned by
one), the messages in it, and each client's `sendRequest` (`client`, `tries`).
Every call of the operating system is one action, named for it: `CreatePipe` or
`CreateFails`, `Connected` or `ConnectFails`, `ReadRequest` or `ReadFails`,
`Handle`, `Flush`, `Close`. `WakeUp` is the dummy connection of `stop()`, made
once and without looking at the result, as at line 90. The pipe is the Windows one: one
instance, so that a client finds it busy while another has it, and what was
written can be read after the writer has hung up. Clients send, hang up and
crash as they like; a request or response may be longer than the reader's
buffer. **`NamedPipeIpcInv`** has its inductive invariant.

**`HttpTransfer`** follows the bytes of one segment: `part` and `body` are
sequences of bytes that know which version of the file they are of, or that they
are of an error page or of another download. The server is any combination of
honouring ranges, announcing them, sending a length and encoding what it sends, which
curl is told to accept (`CURLOPT_ACCEPT_ENCODING`): lengths and ranges are then of the
encoded form, the bytes written are decoded (`RespondEncoded`, `NotDecoded`).
`HeadRequest` is the plan (with the two HEAD requests, whose answers may differ),
`Request` the open of the part file for appending, `Respond` the server with
`HttpEngine`'s rule that a range of one byte has no Range header, `Receive` the write
callback followed by the progress callback, `Complete` the look at the status, `Count`
the retry. `held` is what the `ofstream` has not written yet; `TransferReturns` closes
it, and any of these bytes may be lost there unnoticed (`cut`). `Resume` is the
`resumeDownload` of a task in memory, with its plan; `Restart` is the end of the
service at any moment and the recovery of the next start, which asks for size and
ranges again and plans anew, so that the same part file may now belong to another
range, or to none (`NotPlanned`). `plans` and `sources` are histories of what has been
planned for it and of what has come into it.

**`Storage`** has the tables with their keys, the AUTOINCREMENT counters, the
connection's last rowid, and what each caller is in the middle of: the actions are
statements, and a method of two or three statements is as many actions. `SaveWithId`
is `INSERT OR REPLACE` with its cascade and `SaveNew` an insertion that lets the
database choose the id, `LogCreated` the event written next, `SaveCheckpoint` and
`SumUp` the two statements of a checkpoint, between which the download is in
`Writing`; `Crash` may come between any two. Recovery reads the unfinished rows, looks
at the part files and writes back, one statement at a time.

**`Clients`** is the window, the native host and the command line against a
service that is launched, crashes and takes or refuses downloads. Answers are
records with the keys the code sends, because what a client makes of an answer
hangs on them: the rows of `getStatus` carry `id`, the window looks for
`downloadId`; the host takes for accepted only an answer with `ok` or
`status: accepted`, which `addDownload` does not send. `report` is what each of them
says of it: the command line prints the answer (`CliPrints`); the dialog shows the id,
or one text for every failure, that the request could not be sent and that the service
should be running (`DialogSays`); the host says `service_error`. A crash may end any
request under way, handled or not, as a failed read.

**`SpeedLimiter`, `ReconnectManager`, `DownloadManager`, `QueueManager`,
`ScheduleEngine`, `CategoryEngine`, `ProgressReport`** are one class each (the
last: the progress callback and totals of `runTask`, with its two locks as two
steps). All but the last hold one lock per method or are used by one thread, so
that a method is an action. In `ProgressReport` a worker that looks at its part file
may find any length (`Look`), takes it for the bytes of its segment and stores no
checkpoint of it; a task has any number of runs, each with the numbers of the last
(`Resume`); a server may send more than was asked for (`Overshoot`). A download whose
size is not known is left out of it. `std::sort` is any sorted order
(`SortedForms`); text times are minutes, unreadable ones `NoTime`; a rule is the
set of files it matches. **`Lists`** has the removal from a list by id that three
of them do. **`Libraries`** puts the seven side by side, one of them per behaviour
(`subject`), since none calls another, and states their properties.

**`SegmentPlannerProofs`, `DownloadTaskProofs`, `DownloadServiceProofs`,
`NamedPipeIpcProofs`, `HttpTransferProofs`, `StorageProofs`, `LibrariesProofs`,
`ClientsProofs`** hold the theorems. The **`MC...`** modules give the constants
their values.

How they join: `HttpTransfer` shows when the assumption of `DownloadTask`, that
a transfer reported as successful has filled its part file (`RangeReceived`) and
that a part file never outgrows its segment, is justified (one source, one plan, no
range of one byte, nothing lost at the close), and section 3 names
the cases in which the code does not meet it; `DownloadTask` justifies the runs
of `DownloadService`; `DownloadService` shows that a handler returns
(`RequestsAnswered`), which `NamedPipeIpc` takes as one step; `NamedPipeIpc`
justifies that in `Clients` a request reaches the service once or fails;
`Storage` refines the single rows `DownloadTask` and `DownloadService` write,
for which a statement takes effect at once or not at all. That a `HEAD` request
and a transfer end are libcurl's timeouts of 15 s and 300 s. These joints are
arguments, not theorems, except for the refinement of `ResumableTransfer`.

## 3. Runs

| Run | What it checks | Result |
|---|---|---|
| `segment_planner` | the plan for sizes -1..13 and connections -1..6 | holds |
| `download_task` | safety of one task, and that it implements `ResumableTransfer` | holds |
| `download_task_live` | a stop ends a run, also in an outage; with the network up runs end | holds |
| `download_service` | safety over three sessions, with and without a database | holds |
| `download_service_live` | requests are answered, shutdowns end | holds |
| `pipe_ipc` | answers are true, handled requests answered, calls and `stop()` return | holds |
| `http_transfer` | what is in the part file, for every kind of server | holds |
| `storage` | references, sums, recovery and ids under interleaved statements and crashes | holds |
| `libraries` | seven components without calls to each other | holds |
| `clients` | one download per request, ids shown and refusals printed are right, and the label follows the service | holds |
| `cancelled_row_final` | a cancelled row changes only by a command | **violated** |
| `completion_recorded` | a finished download becomes completed in the row | **violated** |

Each violated run checks one sentence of the repository's documents (quoted in
`PROJECT.json`), and the counterexample is a run of the code:

* `cancelled_row_final`: a transfer fails, the worker passes its last look at
  the stop requests, the user cancels and the row becomes `cancelled`, the
  worker writes `reconnecting`. Nothing writes the row again, and the next
  launch restarts the download. In the same way `failed` is overwritten when two
  workers fail at about the same time.
* `completion_recorded`: the last block of `runTask` writes no row at all.

Other places where the code differs from its documents, or does what a reader
would not expect, are behaviours of the models, and the properties say exactly
where they stop:

* A pause followed by a cancel ends as paused, with its part files kept
  (`DownloadTask`: the runner looks at the pause first); a cancel followed by a pause
  may end either way. `OnlyPauseKeepsParts` says that nothing else leaves a part.
* The state of the merged file's stream is never checked, so a full disk goes
  unnoticed; `CompletedIsWhole`, `NoByteLost` and the refinement assume
  `~DiskFills`.
* A record recovery could not restart does not move the id counter, and the next
  new download replaces its row, though the log says "will retry on next launch"
  (`core/download_orchestrator.cpp:135`); failed and cancelled rows are replaced
  likewise (`DownloadService`; `NothingForgotten` and `NewIdIsFree` let those go that
  are in `skipped`).
* `start()` returns true without a database if it cannot be opened
  (`core/download_orchestrator.cpp:91-95`), and nothing of that session is kept. What
  `saveDownload` returns is not looked at (line 262): such a download has no row, or
  that of an older download with its id, which its updates of status then change
  (`RowMatchesTask` excepts `unsaved`).
* Recovery restarts paused downloads, and a graceful shutdown is a cancel that
  deletes the part files of running downloads. No property forbids it:
  `OnlyPauseKeepsParts` and `NoByteLost` count it as the cancel it is for the engine.
* `stop()` connects once. If the listener has tested `running` but not yet created
  the next pipe, it then waits for a client and `stop()` for it: action `Hung`,
  excluded by name in `StopReturnsUnlessCreating`.
* A range of one byte has no Range header and brings the whole file
  (`NoSingleByteAsked`); a part file of another download or of an older version of
  the file is continued (`OneSource`), since part files go by the name of the download
  and the index of the segment alone; an error page stays in the part file; a
  server that ignores ranges ruins a resume; one that hides the size gets a plan
  of one byte, 0..0; one that encodes what it sends announces the wrong size
  (`OneSource` excludes it).
* A restart plans anew. If the second HEAD request answers differently, or fails, a part
  file of the old plan is continued, or taken for whole, as a segment of the new one
  (`OnePlan`).
* `file.close()` after a transfer is not checked (`engine/http_engine.cpp:184`): on a
  full disk the stream's tail is lost and the segment counts as done.
  `ResumedIsRight` allows a done segment to lack what the stream held, and
  `UninterruptedIsRight` excepts it (`cut`).
* A crash between the two statements of a checkpoint leaves the download's row behind
  its segments until the next checkpoint or recovery; `ProgressAddsUp` exempts that
  download only, and only until then.
* A resumed worker takes the length of its part file for its progress and stores no
  checkpoint of it, so that after a pause the checkpoint may be behind the segment;
  `EndedReportsRight` says of paused and failed runs only that no number is too large,
  and nothing once a part file or transfer was longer than its segment.
* `saveSegment` is never called by the service, so its checkpoints update nothing
  (`Storage` has both, for callers that do).
* The window shows no rows from `getStatus`, by the keys named above. The host reports
  every download as `service_error`, also one that was taken, where
  `docs/V0.5-MANUAL-VERIFICATION.md` expects an answer with `ok` and `accepted`
  (line 92) and a notification that the download has started (line 340). The dialog
  says that the request could not be sent also after a refusal, and after an answer
  that was lost when the download had been made; a user who follows its advice to retry
  makes a second one. `ReportsRight` therefore says nothing of these texts: it is about
  ids shown, and about refusals and unreached services that the command line prints or
  the host reports before its first message.
* The last category's id is given out again after its removal, and its old rules
  then belong to the new one (`CategoryEngine`; `DecisionsKept`, part of
  `ListsKept`, lets a file move when a category is added, removed, or loses a rule).
* Removing an active download keeps its place in `activeCount`; `ActiveAccounted`
  counts those as `leaked`.

Bounds, and why they are enough:

* `download_task`: two workers and two segments, of two chunks and of one, so
  that workers finish in either order, one worker may do both segments, and a
  part file may be empty, partial or full; one retry, so that a run fails after
  the second failure and the counter's increments and resets race; two commands
  (`MaxCommands`), which gives every pair of pause, resume and cancel in every
  position, followed by a shutdown. The network stays up (`MaxOutages = 0`, as
  in the service, which sets no monitor). Workers are symmetric; the properties
  of that run are safety properties.
* `download_task_live` and the violated runs: two segments of one chunk, no
  symmetry; the live run has one command and one outage, which may come before,
  during or after the other.
* `download_service`: two ids and two save paths; three sessions (`MaxLaunches`),
  since a record must be saved in the first and skipped in the second to be
  damaged by then or found in the third; two commands. Save paths are symmetric.
* `download_service_live`: two sessions and one command, no symmetry. The bound
  on commands limits the user; the requests within it are all interleavings.
* `pipe_ipc`: two clients with two requests each, so that one waits while the
  other is served and an abandoned request meets a later one; two attempts
  instead of 50, which give "busy, then free" and "busy to the end"; two starts
  and one crash, so that a stop, a crash and a new session meet any request.
* `http_transfer`: a file of five bytes, or four encoded (`EncodedSize`), and three
  connections, which gives segments of one and of two bytes, and of five without ranges;
  part files of another download shorter than and as long as the file; error pages of
  none, one and more bytes than the file; a stream that holds up to two bytes; two
  faults (breaks, errors, lost tails, changes of the file, restarts) and one stop, each
  anywhere: a break and a restart with another plan meet the same part file.
* `storage`: two callers, two ids, two segment rows, five method calls and two
  openings, so that a deletion or a replacement falls between the statements of
  another's call, twice, and a crash between any two.
* `libraries`: two downloads and a category with two ticks to a second and a rate
  they do not divide; six failures in a row, past every maximum; three downloads
  for two places; three queue entries with two ids; a day of four minutes, in
  which quiet hours may or may not cross midnight; three categories and two rules;
  two workers with segments of one byte and of two, and one byte more than planned.
* `clients`: two downloads, a request each of the window and the command line and two
  of the host, which may have been launched anew in between, one crash, and an answer
  buffer that holds one row, so that longer answers are cut.

`Stopped`, `Over`, `Rest` and `Hung` are self-loops of a system that has been
shut down for good, so that deadlock checking stays on: no other state may be
stuck. It is off in `storage` and `libraries`, whose bounded calls run out, while
nothing in them waits for anything.

Fairness: weak fairness of each thread (every worker, the runner, the IPC thread
once it has begun a request, the listener, a client inside `sendRequest`), which
preemptive threads give; that a transfer ends is the libcurl timeout. Commands,
launches, shutdowns, crashes, new requests, hang-ups and the return of the
network are not assumed. `RunEnds` therefore has the hypothesis that the network
stays up in the end, and `StopEndsRun` has none. In `DownloadService` the end of
a run is assumed (`WF_vars(EndRun(id))`), which is `RunEnds` and `StopEndsRun` of
`DownloadTask`; without a monitor, as in the service, no wait for the network
exists. Strong fairness is used twice: of `CreatePipe`, that the operating system
does not refuse a pipe for ever while the listener retries, and of `Poll` in
`Clients`, that a timer fires in an event loop that keeps returning to its queue.

Every property of a passing run has a mutated definition in `PROJECT.json`
(`SameSegment`, `SomeExited`, `ResumeClearsFirst`, `ReceiveOn`, ...), a
plausible slip in that code under which TLC finds the property violated.

## 4. Proofs

`SegmentPlannerProofs` proves `TypeOK`, `Partition` and `Balanced` for every set
of sizes and connection counts. The invariant says that what has been planned so
far is contiguous, that `nextStart` is `i * baseSize + Least(i, remainder)`, and
that segment `k` has `SizeOf(k)` bytes; Euclidean division closes the loop.

`DownloadTaskProofs` proves, for any number of workers, segments, chunks, retries,
commands and outages, that `IInv` is an invariant (`InvHolds`), and from it `TypeOK`,
`SegmentExclusive`, `MergeOnlyWhole`, `CompletedIsWhole`, `FinishedIsQuiet`,
`TransfersAccounted`, `OnlyPauseKeepsParts` and `NoByteLost`. Why the strengthening is
needed:

* `WorkersJoined` and `ClaimsHandedOut` make `SegmentExclusive` inductive: a
  claimed index is below the shared one, so the next claim is new.
* `NothingDropped` is the heart of `MergeOnlyWhole`: as long as nothing has
  failed and no stop is requested, a segment handed out is full or held, and a
  worker that left has seen the end of the plan. When the runner has joined the
  workers and sees neither request, every segment is full.
* That a resume cannot withdraw a request between a worker's look and the
  runner's is `RelaunchRunner`'s guard, `runner = "idle"`; the mutant
  `ResumeClearsFirst` shows what happens without it.
* `MergeProgress` carries this over the two looks and the merge; `RunReported`
  ties the message and the flags to the runner.
* `PartsSettled` follows the part files from the runner's last look to the end of the
  run and beyond, when no worker is left to bring one back: `OnlyPauseKeepsParts`.

The lemmas (`FlagsStep` ... `RunReportedStep`) each prove one part of `IInv'`
by cases on the actions; `PartsStep` is the step of `NoByteLost`.
`CompletedWhole`, `BytesSurvive` and `TaskRefines` assume `~DiskFills`, that
writes to the final file succeed, which the code does not check.

The last part of the module proves `Spec => ImplementsTransfer`: the initial state
maps to an initial one, and each step, under `IInv` before and after, to a step
of `ResumableTransfer` or a stutter.

`DownloadServiceProofs` proves, for any number of ids, save paths, sessions and
commands, that the `IInv` of `DownloadServiceInv` is an invariant, and from it
`TypeOK`, `RowMatchesTask`, `NothingForgotten`, `LiveTaskKept` and
`NewIdIsFree`. Three lemmas say what a step may make of a task (`TaskFates`),
of a row (`RowFates`) and of the recovery (`RecoveryFates`), each by cases on the
actions; the rest argues from them alone:

* `IdsBelowCounter` is why `addDownload` finds its id free: recovery moves the
  counter past each hinted id. With it, a task appears only where there was none.
* `UnfinishedHaveRows` does the same for recovery, which writes to `tasksById`
  without looking: what it has still to restart is not in memory yet.
* `RequestAboutTask` carries the file from the request to the row it writes;
  `NothingForgottenYet` is `NothingForgotten` with what recovery has still to do.
  `NewIdIsFree` follows from it: once recovery is done, a record without a task that
  is not in `skipped` has failed or was cancelled.
* `NothingWhenDown` says that a session ends after its last request: `stop()`
  comes after the listener has been joined.

`NamedPipeIpcProofs` proves, for any number of clients, requests, attempts,
sessions and crashes, `TypeOK`, `AnswerTruthful`, `ServedIsAnswered` and
`QuietAfterStop`. The invariant of `NamedPipeIpcInv` says that the two threads and
the pipe move together, that the client which has the pipe is in one of three
phases of its exchange (`OwnExchange`), and that a request still in the pipe has
not been served (`Pending`, `ServedSoFar`).

`HttpTransferProofs` proves, for files of any size, all servers, and any number
of connections, faults, retries, stops and restarts, `TypeOK`, `ResumedIsRight`,
`UninterruptedIsRight` and `StopsAtNextByte`. `Control` says that the range
asked for is what the part file lacks, `Holding` bounds what the stream may still
lose, and `Right` follows the bytes from the answer to the part file: together with
what is still to come they are the segment, in place (`InPart`, `Coming`, `Come`), and
a segment that is done lacks at most what the stream lost when it closed (`Kept`). Both
properties have circumstances (`Sound`) that a step may end but not bring about:
`plans` and `sources` only grow, so a restart that plans otherwise ends them for good.
Each step needs `Sound` only afterwards.

`StorageProofs` proves, for any number of callers, ids, segments, calls and openings,
`ReferencesHold` and `NewIdsAreNew`, from `RefInv`: shapes of the rows, the references
themselves, and that the counters are ahead of every id that has been used. Upon that,
`SumInv` gives `ProgressAddsUp` and `RecoveredIsOnDisk`. They are about sums over the
segments of a download, and need no induction: a step either leaves the segments of a
download and their bytes alone, and then the two sums are of the same function
(`SameSums`), or it takes the download out of those that have been summed up, or it is
the first statement of that download's own checkpoint (`Writing`), which the second
ends. The proof attempt is what showed that every statement that touches a segment
must do one or the other, cascades included.

`LibrariesProofs` proves every property of `Libraries` about its composition, for
all values of the constants:

* `GrantedWithinRate` (`WithinRate`): `PaidFor` counts the tokens still in a bucket
  together with the bytes passed. The truncation of tokens to whole bytes is a
  quotient times its divisor, which never exceeds the dividend.
* `DelayDoubles`: `DelayAfter` says of every round of the loop what it has doubled
  to, by induction on the rounds: below the maximum exactly a power of two times the
  base, and from the first delay that is not below it at least the maximum.
* `ActiveAccounted`: the count and the size of the set of active downloads move
  together, one by one and all at once; what is `leaked` never comes back.
* `EndedReportsRight`: as long as nothing was longer than its segment, no sum a worker
  carries exceeds the file, because sums grow with their terms (`SumGrows`, by induction
  on the number of workers); a whole segment is noted with all its bytes and has its
  checkpoint when its worker ends, and without a stop or a failure no worker ends
  before that (`WorkerInv`), so that a completed run has every checkpoint.
* `QuietHoursKept`: the intervals of the code, in one or two pieces, are the minutes
  counted off round the clock from the start of the quiet hours to their end.
* `ListsKept`: `Without` keeps the other elements in their order (`OthersLeft`), so
  that sorted stays sorted and ascending stays ascending; the decision about a file
  is that of the first rule that matches, and a step that changes it has removed a
  rule or a category, or added a category that an old rule names.

Induction is by least counterexample (`LeastNat`, from the well-foundedness of the
natural numbers), and a recursive function is first shown to exist for each bound
(`SomeDoubled`, `SomeKept`, `SomeSmallSum`). This is why `Without`, `PowerOfTwo` and
the sums are recursive functions and folds.

`ClientsProofs` proves, for any number of downloads, requests and crashes, `TypeOK`
and `ReportsRight`. `ToldRight` follows what a client says back to the answer it is
made of: an answer under way, or the one read last, tells of what the call has
`made`, and no id is in two calls' `made` (`IdsCounted`: the service's counter is
ahead of every id). A new host has told nothing (`LaunchHost`), and the run allows the
host a second request, so that it may be launched anew after its first.

Only model-checked: the liveness properties (`StopEndsRun`, `RunEnds`,
`RequestsAnswered`, `ShutdownEnds`, `SendReturns`, `StopReturnsUnlessCreating`,
`LabelFollows`), which are out of the prover's reach. Every other property of a
passing run is a theorem. The type invariants of the queue, the categories, the
schedules, the manager, the retry delays and the progress numbers are parts of the
invariants of `LibrariesProofs`; those of the other modules are theorems or, for the
store, part of `RefInv`.

Assumptions on constants are `PlannerAssumption`, `TaskAssumption`,
`ServiceAssumption`, `PipeAssumption`, `TransferAssumption`, `StorageAssumption`,
`BoundsAssumption`, that of the limiter and those of `Libraries`
(`ReconnectAssumption` and five more, which say that bounds are natural numbers,
priorities integers and workers finitely many). TLC evaluates all of them in every
run of their modules.

## 5. Not modelled

* Error texts, speeds, `Segment::status`: nothing in the modelled control depends
  on them.
* Settings and saved categories in the database, and queries that only read.
* Part files that cannot be removed, and an UPDATE that fails in an open database: the
  code looks at neither result.
* The progress numbers of a download of unknown size; a client that gives up on a pipe
  that was busy for its 50 attempts (`NamedPipeIpc` has it, `Clients` does not).
* JSON and option parsing, echoed request ids; the framing bytes of native
  messaging; reads and writes of parts of a message.
* Recurring schedules, which need a cron expression the code never evaluates.
* The menus and dialogs of the window other than the one for a new download; the
  second command line program, which downloads without the service.
* Browser extensions (JavaScript in the browser's event loop, of which the host
  is the only point of contact), the clipboard monitor, logging, checksums and
  plugin stubs: small settable flags, pure functions or output.
* Torn reads and writes of plain fields. `currentRetryCount` is a load and a store
  apart; `ok` is only ever set to false by workers and read once they are joined.

## 6. What could follow

* The `RangeReceived` of `DownloadTask` derived from `HttpTransfer` by a
  refinement, for servers that meet `Sound`, instead of the argument in section 2.
* The runs of `DownloadService` derived from `DownloadTask` in the same way.
* `SegmentPlanner` joined to `DownloadTask`: that the plan it is given is one that
  `Partition` describes.
