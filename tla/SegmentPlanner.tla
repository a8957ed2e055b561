--------------------------- MODULE SegmentPlanner ---------------------------
(***************************************************************************)
(* SegmentPlanner::planSegments (src/src/engine/segment_planner.cpp): how  *)
(* a file of fileSize bytes is cut into the byte ranges that the workers   *)
(* of the download engine fetch in parallel.  The loop is modelled one     *)
(* iteration per step; the inputs are chosen in Init from two constant     *)
(* sets, so that a run covers every combination and the theorems of        *)
(* SegmentPlannerProofs hold for all of them.                              *)
(***************************************************************************)
EXTENDS Integers, Sequences

CONSTANTS FileSizes,     \* the file sizes considered (0 or less: unknown)
          Connections    \* the requested numbers of connections

ASSUME PlannerAssumption == FileSizes \subseteq Int /\ Connections \subseteq Int

VARIABLES fileSize,        \* the three arguments
          connections,     \* after the max(1, .) of line 11
          supportsRanges,
          segmentCount,    \* the loop's locals
          i,
          nextStart,
          segments,        \* the vector being built
          pc

vars == <<fileSize, connections, supportsRanges, segmentCount, i, nextStart,
          segments, pc>>

AtLeastOne(n) == IF n < 1 THEN 1 ELSE n
Least(a, b)   == IF a < b THEN a ELSE b

baseSize  == fileSize \div segmentCount
remainder == fileSize % segmentCount

\* Mutant forms of SizeOf: the remainder is dropped, or all given to one segment.
SizeWithoutRemainder(k) == baseSize
SizeAllToFirst(k) == baseSize + (IF k = 0 THEN remainder ELSE 0)

\* The first `remainder` segments get one byte more than the others.
SizeOf(k) == baseSize + (IF k < remainder THEN 1 ELSE 0)

Segment(index, start, end) ==
  [index |-> index, startByte |-> start, endByte |-> end]

Init ==
  /\ fileSize \in FileSizes
  /\ \E requested \in Connections : connections = AtLeastOne(requested)
  /\ supportsRanges \in BOOLEAN
  /\ segmentCount = 1
  /\ i = 0
  /\ nextStart = 0
  /\ segments = <<>>
  /\ pc = "plan"

\* One segment for the whole file; of an unknown size, the range [0, 0].
FallBack ==
  /\ pc = "plan"
  /\ ~supportsRanges \/ fileSize <= 0
  /\ segments' = <<Segment(0, 0, IF fileSize > 0 THEN fileSize - 1 ELSE 0)>>
  /\ pc' = "done"
  /\ UNCHANGED <<fileSize, connections, supportsRanges, segmentCount, i, nextStart>>

EnterLoop ==
  /\ pc = "plan"
  /\ supportsRanges /\ fileSize > 0
  /\ segmentCount' = AtLeastOne(Least(connections, fileSize))
  /\ pc' = "loop"
  /\ UNCHANGED <<fileSize, connections, supportsRanges, i, nextStart,
                 segments>>

AddSegment ==
  /\ pc = "loop" /\ i < segmentCount
  /\ segments' = Append(segments, Segment(i, nextStart, nextStart + SizeOf(i) - 1))
  /\ nextStart' = nextStart + SizeOf(i)
  /\ i' = i + 1
  /\ UNCHANGED <<fileSize, connections, supportsRanges, segmentCount, pc>>

LeaveLoop ==
  /\ pc = "loop" /\ i >= segmentCount
  /\ pc' = "done"
  /\ UNCHANGED <<fileSize, connections, supportsRanges, segmentCount, i, nextStart,
                 segments>>

Done == pc = "done" /\ UNCHANGED vars

Next == FallBack \/ EnterLoop \/ AddSegment \/ LeaveLoop \/ Done

Spec == Init /\ [][Next]_vars

-----------------------------------------------------------------------------
SegmentType == [index : Nat, startByte : Nat, endByte : Int]

\* Type invariant of the planner's arguments, locals and result.
TypeOK ==
  /\ fileSize \in Int
  /\ connections \in Nat \ {0}
  /\ supportsRanges \in BOOLEAN
  /\ segmentCount \in Nat \ {0}
  /\ i \in Nat
  /\ nextStart \in Nat
  /\ segments \in Seq(SegmentType)
  /\ pc \in {"plan", "loop", "done"}

\* The ranges of a finished plan partition the file: they start at byte 0, each
\* begins where the one before it ended, none is empty and the last one ends at
\* the last byte.  A gap would leave a hole in the merged file and an overlap
\* would write bytes twice (the engine appends the part files in order).  The
\* index, after which a part file is named, is the position in the plan.
Partition ==
  pc = "done" /\ fileSize > 0 =>
    /\ Len(segments) >= 1
    /\ \A k \in 1..Len(segments) : segments[k].index = k - 1
    /\ segments[1].startByte = 0
    /\ segments[Len(segments)].endByte = fileSize - 1
    /\ \A k \in 1..Len(segments) : segments[k].startByte <= segments[k].endByte
    /\ \A k \in 1..(Len(segments) - 1) :
         segments[k + 1].startByte = segments[k].endByte + 1

\* No worker is given more than one byte more than any other, and there are
\* never more segments than connections: the engine starts one worker per
\* segment up to the connection limit.
Balanced ==
  pc = "done" =>
    /\ Len(segments) <= connections
    /\ \A k, l \in 1..Len(segments) :
         segments[k].endByte - segments[k].startByte
           <= segments[l].endByte - segments[l].startByte + 1
=============================================================================
