--------------------------- MODULE DownloadTaskInv ---------------------------
(***************************************************************************)
(* The inductive invariant of DownloadTask, in named parts, and the map    *)
(* from its state to that of ResumableTransfer.                            *)
(***************************************************************************)
EXTENDS DownloadTask

Active(w) == worker[w] \notin {"claim", "exit"}

\* Workers are only about while the runner waits to join them.
WorkersJoined ==
  runner # "joinWorkers" => \A w \in Workers : worker[w] = "exit"

\* A worker's segment is one this run has handed out, and one that says it is
\* done has filled its part file.
ClaimsHandedOut ==
  \A w \in Workers : /\ Active(w) => claimed[w] < nextSegment
                     /\ worker[w] = "segmentDone" => Full(claimed[w])

\* While nothing has gone wrong, what has been handed out is either full or
\* being worked on, and a worker only leaves when everything is handed out.
NothingDropped ==
  runner = "joinWorkers" /\ ok /\ ~StopRequested =>
    /\ \A s \in Segments : s < nextSegment =>
         Full(s) \/ \E w \in Workers : Holds(w, s)
    /\ \A w \in Workers : worker[w] = "exit" => nextSegment > NumSegments

\* Unless the disk may fill up, the final file has the first n segments.
Delivered(n) ==
  DiskFills \/ \A s \in Segments : s <= n => finalFile[s] = SegmentSize[s]

\* What the runner knows at each place after the join.
MergeProgress ==
  /\ runner = "checkCancel" => cancelRequested \/ ~ok \/ \A s \in Segments : Full(s)
  /\ runner \in {"openOutput", "merge"} => ok
  /\ runner = "removeFailed" => ~ok
  /\ runner = "openOutput" => \A s \in Segments : Full(s)
  /\ runner = "merge" =>
       /\ \A s \in mergeNext..NumSegments : Full(s)
       /\ Delivered(mergeNext - 1)
  /\ runner = "finish" /\ ok => Delivered(NumSegments)
  /\ runner \in {"removeCancelled", "finishCancelled"} => cancelRequested

\* The words about the task agree with where its runner is.
RunReported ==
  /\ statusMessage = "completed" =>
       /\ runner = "idle"
       /\ Delivered(NumSegments)
  /\ isFinished => runner = "idle"
  /\ isRunning => runner \notin {"idle", "begin"}
  /\ TransfersAccounted
  /\ api = "new" => runner = "idle" /\ ~isFinished

\* What the runner has made of the part files.
PartsSettled ==
  /\ runner = "keepParts" => pauseRequested
  /\ runner = "merge" => \A s \in Segments : s < mergeNext => part[s] = 0
  /\ runner \in {"finish", "finishCancelled"} => Tidied
  /\ OnlyPauseKeepsParts

IInv ==
  /\ TypeOK
  /\ WorkersJoined
  /\ ClaimsHandedOut
  /\ SegmentExclusive
  /\ NothingDropped
  /\ MergeProgress
  /\ RunReported
  /\ PartsSettled

\* One task of the engine is a resumable transfer: its part files are what has
\* been collected, and the place of the runner is the phase.
Phase ==
  IF runner = "idle" THEN "stopped"
  ELSE IF runner = "merge" \/ (runner = "finish" /\ ok) THEN "delivering"
  ELSE IF runner \in {"finishCancelled", "finish"} THEN "ending"
  ELSE "fetching"

Reported == statusMessage = "completed"

Transfer == INSTANCE ResumableTransfer WITH
  phase <- Phase, have <- part, file <- finalFile, reported <- Reported

\* The engine's threads, whatever is commanded and whatever fails, implement
\* the promise of ResumableTransfer, while the disk does not fill up.
ImplementsTransfer == Transfer!Spec
=============================================================================
