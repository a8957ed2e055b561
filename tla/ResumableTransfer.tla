-------------------------- MODULE ResumableTransfer --------------------------
(***************************************************************************)
(* What one download promises, without workers, requests, retries or       *)
(* database: bytes are collected per segment, survive a suspension, are    *)
(* moved to the final file only when all of them are there, and completion *)
(* is reported only of a whole file.                                       *)
(***************************************************************************)
EXTENDS Integers

CONSTANTS NumSegments, SegmentSize

Segments == 1..NumSegments

VARIABLES phase,     \* "stopped", "fetching", "delivering" or "ending"
          have,      \* the chunks collected of each segment
          file,      \* the chunks of each segment in the final file
          reported   \* whether the download is reported as completed

transferVars == <<phase, have, file, reported>>

Whole(f) == \A s \in Segments : f[s] = SegmentSize[s]

Init ==
  /\ phase = "stopped"
  /\ have \in [Segments -> UNION {0..SegmentSize[s] : s \in Segments}]
  /\ \A s \in Segments : have[s] <= SegmentSize[s]
  /\ file = [s \in Segments |-> 0]
  /\ reported = FALSE

Start ==
  /\ phase = "stopped" /\ phase' = "fetching"
  /\ reported' = FALSE
  /\ UNCHANGED <<have, file>>

Fetch(s) ==
  /\ phase = "fetching" /\ have[s] < SegmentSize[s]
  /\ have' = [have EXCEPT ![s] = @ + 1]
  /\ UNCHANGED <<phase, file, reported>>

\* A pause: what was collected is kept.
Suspend ==
  /\ phase = "fetching" /\ phase' = "stopped"
  /\ UNCHANGED <<have, file, reported>>

\* A cancel or a failure: some of what was collected may be thrown away.
Abandon ==
  /\ phase = "fetching" /\ phase' = "ending"
  /\ have' \in [Segments -> UNION {0..SegmentSize[s] : s \in Segments}]
  /\ \A s \in Segments : have'[s] \in {0, have[s]}
  /\ UNCHANGED <<file, reported>>

BeginDelivery ==
  /\ phase = "fetching" /\ Whole(have)
  /\ phase' = "delivering"
  /\ file' = [s \in Segments |-> 0]
  /\ UNCHANGED <<have, reported>>

Deliver(s) ==
  /\ phase = "delivering" /\ have[s] = SegmentSize[s]
  /\ file' = [file EXCEPT ![s] = have[s]]
  /\ have' = [have EXCEPT ![s] = 0]
  /\ UNCHANGED <<phase, reported>>

\* Delivery breaks off: what has not been moved is still there.
BreakOff ==
  /\ phase = "delivering" /\ phase' = "ending"
  /\ UNCHANGED <<have, file, reported>>

End ==
  /\ phase = "ending" /\ phase' = "stopped"
  /\ UNCHANGED <<have, file, reported>>

Complete ==
  /\ phase = "delivering" /\ Whole(file)
  /\ phase' = "stopped"
  /\ reported' = TRUE
  /\ UNCHANGED <<have, file>>

\* A later command replaces the report.
Withdraw ==
  /\ phase = "stopped" /\ reported' = FALSE
  /\ UNCHANGED <<phase, have, file>>

Next ==
  \/ Start \/ Suspend \/ Abandon \/ BeginDelivery \/ BreakOff \/ End
  \/ Complete \/ Withdraw
  \/ \E s \in Segments : Fetch(s) \/ Deliver(s)

Spec == Init /\ [][Next]_transferVars
=============================================================================
