---------------------------- MODULE ProgressReport ----------------------------
(***************************************************************************)
(* The progress numbers of one download, through any number of runs of its *)
(* task (DownloadEngine::Impl::runTask,                                    *)
(* src/src/engine/download_engine.cpp).  A worker takes the length of the  *)
(* part file for the bytes of its segment when it looks at it, notes those *)
(* that arrive, adds up all segments and stores the sum, under two locks   *)
(* one after the other; another worker may be at any other of these steps, *)
(* so that an older sum replaces a newer one.  The runner has the last     *)
(* word.  Claiming, retries and the merge are in DownloadTask: here a      *)
(* worker has one segment.  How a part file comes to its length is in      *)
(* HttpTransfer: here it may have any when it is looked at, as it may hold *)
(* chunks that were never noted, lack what its stream lost, be left by     *)
(* another download, or be longer than its segment because a server sent   *)
(* more than it was asked for.  The size of the file is known.             *)
(***************************************************************************)
EXTENDS Integers, Functions

CONSTANTS Workers,
          SegmentBytes,  \* the bytes of the segment of each worker
          Overshoot      \* bound: the bytes that come in addition

VARIABLES
  bytes,      \* downloadedBytes of the segment of each worker
  at,         \* "loop", "transfer", "complete", "noted", "summed" or "ended"
  whole,      \* whether the segment is complete
  sum,        \* totalDownloaded, a local of the worker
  reported,   \* progress.downloadedSize
  checkpoint, \* the last value given to saveCheckpoint for each segment
  outcome,    \* what the runner ended with, or "downloading"
  stop,       \* "pause" and "cancel" that were asked for, "fail" if a worker gave up
  overshot    \* history: some segment has counted more bytes than it has

progressVars == <<bytes, at, whole, sum, reported, checkpoint, outcome, stop, overshot>>

Total == SumFunction(bytes)
FileSize == SumFunction(SegmentBytes)

Init ==
  /\ bytes = [w \in Workers |-> 0] /\ at = [w \in Workers |-> "loop"]
  /\ whole = [w \in Workers |-> FALSE] /\ sum = [w \in Workers |-> 0]
  /\ reported = 0 /\ checkpoint = [w \in Workers |-> 0]
  /\ outcome = "downloading" /\ stop = {} /\ overshot = FALSE

Moves(w, from, to) == at[w] = from /\ at' = [at EXCEPT ![w] = to]

Counts(w, n) ==
  /\ bytes' = [bytes EXCEPT ![w] = n]
  /\ overshot' = (overshot \/ n > SegmentBytes[w])

\* The part file is looked at, and nothing stored of what is found.
Look(w) ==
  /\ stop = {}
  /\ \E existing \in 0..(SegmentBytes[w] + Overshoot) :
       /\ Counts(w, existing)
       /\ Moves(w, "loop", IF existing < SegmentBytes[w] THEN "transfer" ELSE "complete")
  /\ UNCHANGED <<whole, sum, reported, checkpoint, outcome, stop>>

WorkerStops(w) ==
  /\ stop # {}
  /\ Moves(w, "loop", "ended")
  /\ UNCHANGED <<bytes, whole, sum, reported, checkpoint, outcome, stop, overshot>>

\* The callback for bytes that arrived, unless a stop was asked for.
Note(w) ==
  /\ stop \cap {"pause", "cancel"} = {}
  /\ \E n \in (bytes[w] + 1)..(SegmentBytes[w] + Overshoot) : Counts(w, n)
  /\ Moves(w, "transfer", "noted")
  /\ UNCHANGED <<whole, sum, reported, checkpoint, outcome, stop>>

\* A transfer that succeeds has brought the segment, however many bytes came.
TransferDone(w) ==
  /\ Moves(w, "transfer", "complete")
  /\ UNCHANGED <<bytes, whole, sum, reported, checkpoint, outcome, stop, overshot>>

\* A transfer that fails, as it does when the callback refuses to go on, is tried
\* again, unless a stop was asked for.
TransferFails(w) ==
  /\ Moves(w, "transfer", IF stop \cap {"pause", "cancel"} = {} THEN "loop" ELSE "ended")
  /\ UNCHANGED <<bytes, whole, sum, reported, checkpoint, outcome, stop, overshot>>

\* The last attempt was one too many.
GiveUp(w) ==
  /\ stop \cap {"pause", "cancel"} = {}
  /\ Moves(w, "transfer", "ended")
  /\ stop' = stop \cup {"fail"}
  /\ UNCHANGED <<bytes, whole, sum, reported, checkpoint, outcome, overshot>>

\* The end of a segment: its bytes are set to what they should be.
SegmentComplete(w) ==
  /\ Moves(w, "complete", "noted")
  /\ Counts(w, SegmentBytes[w])
  /\ whole' = [whole EXCEPT ![w] = TRUE]
  /\ UNCHANGED <<sum, reported, checkpoint, outcome, stop>>

SumUp(w) ==
  /\ Moves(w, "noted", "summed")
  /\ sum' = [sum EXCEPT ![w] = Total]
  /\ UNCHANGED <<bytes, whole, reported, checkpoint, outcome, stop, overshot>>

\* Under the mutex of the engine, with the checkpoint of the segment.
Report(w) ==
  /\ Moves(w, "summed", IF whole[w] THEN "ended" ELSE "transfer")
  /\ reported' = sum[w] /\ sum' = [sum EXCEPT ![w] = 0]
  /\ checkpoint' = [checkpoint EXCEPT ![w] = bytes[w]]
  /\ UNCHANGED <<bytes, whole, outcome, stop, overshot>>

Ask(how) ==
  /\ outcome = "downloading" /\ how \notin stop
  /\ stop' = stop \cup {how}
  /\ UNCHANGED <<bytes, at, whole, sum, reported, checkpoint, outcome, overshot>>

\* What the runner may end with after its last worker: a merge may fail.
Outcomes ==
  IF "pause" \in stop THEN {"paused"}
  ELSE IF "cancel" \in stop THEN {"cancelled"}
  ELSE IF "fail" \in stop THEN {"failed"}
  ELSE {"completed", "failed"}

\* Mutant form of Reached: the numbers are taken to be right already.
AsReported(how) == reported

\* The size reported at the end.
Reached(how) == IF how = "completed" THEN FileSize ELSE reported

Finish ==
  /\ outcome = "downloading" /\ \A w \in Workers : at[w] = "ended"
  /\ outcome' \in Outcomes
  /\ reported' = Reached(outcome')
  /\ UNCHANGED <<bytes, at, whole, sum, checkpoint, stop, overshot>>

\* Another run of the task, with the numbers of the last one.
Resume ==
  /\ outcome # "downloading"
  /\ outcome' = "downloading" /\ stop' = {}
  /\ at' = [w \in Workers |-> "loop"] /\ whole' = [w \in Workers |-> FALSE]
  /\ UNCHANGED <<bytes, sum, reported, checkpoint, overshot>>

Next ==
  \/ \E w \in Workers : \/ Look(w) \/ WorkerStops(w) \/ Note(w) \/ TransferDone(w)
                        \/ TransferFails(w) \/ GiveUp(w) \/ SegmentComplete(w)
                        \/ SumUp(w) \/ Report(w)
  \/ \E how \in {"pause", "cancel"} : Ask(how)
  \/ Finish \/ Resume

\* A completed download shows its whole size and has a checkpoint at the end of every
\* segment, though the sums of its workers may be stored in any order, and whatever the
\* runs before it left; and no number ever shows more than there is, unless a part file
\* or a transfer was longer than its segment.
EndedReportsRight ==
  /\ outcome = "completed" =>
       reported = FileSize /\ \A w \in Workers : checkpoint[w] = SegmentBytes[w]
  /\ ~overshot =>
       reported <= FileSize /\ \A w \in Workers : checkpoint[w] <= SegmentBytes[w]
=============================================================================
