------------------------ MODULE SegmentPlannerProofs ------------------------
(***************************************************************************)
(* The plan partitions the file, for every file size, every number of      *)
(* connections and servers with and without ranges.                        *)
(***************************************************************************)
EXTENDS SegmentPlanner, TLAPS

\* What \div and % compute, as the loop uses them: shares of at least one byte
\* when there are no more segments than bytes, and a remainder below the count.
LEMMA Division ==
  ASSUME NEW n \in Nat \ {0}, NEW a \in Nat \ {0}, n <= a
  PROVE  /\ a \div n \in Nat \ {0}
         /\ a % n \in Nat
         /\ a % n < n
         /\ a = n * (a \div n) + (a % n)
  BY SMT

\* Multiples, one by one.
LEMMA NextMultiple ==
  ASSUME NEW k \in Nat, NEW b \in Nat
  PROVE  (k + 1) * b = k * b + b
  BY SMT

\* The loop starts at offset zero.
LEMMA ZeroMultiple ==
  ASSUME NEW b \in Nat
  PROVE  0 * b = 0
  BY SMT

\* What the loop maintains: the segments built so far are consecutive ranges of
\* the sizes SizeOf gives, and nextStart counts the bytes handed out.
LoopInv ==
  /\ fileSize > 0
  /\ segmentCount <= fileSize
  /\ segmentCount <= connections
  /\ i <= segmentCount
  /\ Len(segments) = i
  /\ nextStart = i * baseSize + Least(i, remainder)
  /\ i > 0 => segments[1].startByte = 0 /\ segments[i].endByte = nextStart - 1
  /\ \A k \in 1..i :
       /\ segments[k].index = k - 1
       /\ segments[k].endByte = segments[k].startByte + SizeOf(k - 1) - 1
  /\ \A k \in 1..(i - 1) : segments[k + 1].startByte = segments[k].endByte + 1
  /\ i = 0 => nextStart = 0

PlanInv ==
  /\ pc = "plan" => segments = <<>> /\ i = 0 /\ nextStart = 0
  /\ pc = "loop" => LoopInv
  /\ Partition
  /\ Balanced

IInv == TypeOK /\ PlanInv

\* The invariant holds before planning.
LEMMA InitInv == Init => IInv
  BY PlannerAssumption DEF Init, IInv, TypeOK, PlanInv, Partition, Balanced, AtLeastOne, SegmentType

\* The early return of a single segment keeps the invariant.
LEMMA FallBackInv == IInv /\ FallBack => IInv'
  <1> SUFFICES ASSUME IInv, FallBack PROVE IInv'
    OBVIOUS
  <1> USE DEF IInv, FallBack
  <1>0. Segment(0, 0, IF fileSize > 0 THEN fileSize - 1 ELSE 0) \in SegmentType
    BY DEF TypeOK, SegmentType, Segment
  <1>1. TypeOK'
    BY <1>0 DEF TypeOK
  <1>2. PlanInv'
    BY DEF TypeOK, PlanInv, Partition, Balanced, Segment
  <1>3. QED
    BY <1>1, <1>2

\* Entering the loop keeps the invariant.
LEMMA EnterLoopInv == IInv /\ EnterLoop => IInv'
  <1> SUFFICES ASSUME IInv, EnterLoop PROVE IInv'
    OBVIOUS
  <1> USE DEF IInv, EnterLoop
  <1>1. segmentCount' \in Nat \ {0} /\ segmentCount' <= fileSize /\ segmentCount' <= connections
    BY DEF TypeOK, AtLeastOne, Least
  <1>2. TypeOK'
    BY <1>1 DEF TypeOK
  <1>3. remainder' \in Nat /\ baseSize' \in Nat
    <2>1. fileSize \in Nat \ {0} /\ fileSize' = fileSize
      BY DEF TypeOK
    <2>2. QED
      BY <2>1, <1>1, Division DEF baseSize, remainder
  <1>4. 0 * baseSize' + Least(0, remainder') = 0
    <2>1. 0 * baseSize' = 0
      BY <1>3, ZeroMultiple
    <2>2. Least(0, remainder') = 0
      BY <1>3 DEF Least
    <2>3. QED
      BY <2>1, <2>2
  <1>5. LoopInv'
    BY <1>1, <1>4 DEF TypeOK, PlanInv, LoopInv
  <1>6. PlanInv'
    BY <1>5 DEF PlanInv, Partition, Balanced
  <1>7. QED
    BY <1>2, <1>6

\* The division of the file by the number of segments, with a remainder less than it.
LEMMA Shares ==
  ASSUME TypeOK, LoopInv
  PROVE  /\ baseSize \in Nat \ {0}
         /\ remainder \in Nat
         /\ remainder < segmentCount
         /\ fileSize = segmentCount * baseSize + remainder
  <1>1. fileSize \in Nat \ {0} /\ segmentCount \in Nat \ {0} /\ segmentCount <= fileSize
    BY DEF TypeOK, LoopInv
  <1>2. QED
    BY <1>1, Division DEF baseSize, remainder

\* One iteration keeps the invariant.
LEMMA AddSegmentInv == IInv /\ AddSegment => IInv'
  <1> SUFFICES ASSUME IInv, AddSegment PROVE IInv'
    OBVIOUS
  <1> USE DEF IInv
  <1>0. LoopInv /\ pc = "loop"
    BY DEF PlanInv, AddSegment
  <1>1. baseSize \in Nat \ {0} /\ remainder \in Nat /\ remainder < segmentCount
    BY <1>0, Shares
  <1>2. baseSize' = baseSize /\ remainder' = remainder
    BY DEF baseSize, remainder, AddSegment
  <1>3. SizeOf(i) \in Nat \ {0}
    BY <1>1 DEF SizeOf, TypeOK
  <1> DEFINE new == Segment(i, nextStart, nextStart + SizeOf(i) - 1)
  <1>4. new \in SegmentType
    BY <1>3 DEF TypeOK, SegmentType, Segment
  <1>5. TypeOK'
    BY <1>3, <1>4 DEF TypeOK, AddSegment
  <1>6. /\ Len(segments') = i + 1
        /\ segments'[i + 1] = new
        /\ \A k \in 1..i : segments'[k] = segments[k]
    BY <1>0, <1>4 DEF TypeOK, LoopInv, AddSegment
  <1>10. i \in Nat /\ i' = i + 1 /\ i' - 1 = i /\ nextStart \in Nat
    BY DEF TypeOK, AddSegment
  <1>11. /\ i < segmentCount /\ nextStart' = nextStart + SizeOf(i) /\ pc' = "loop"
         /\ UNCHANGED <<fileSize, connections, segmentCount>>
    BY DEF AddSegment
  <1>7. nextStart' = (i + 1) * baseSize + Least(i + 1, remainder)
    <2>1. (i + 1) * baseSize = i * baseSize + baseSize /\ i * baseSize \in Nat
      BY <1>1, NextMultiple DEF TypeOK
    <2> DEFINE product == i * baseSize
    <2>2. nextStart = product + Least(i, remainder) /\ (i + 1) * baseSize = product + baseSize
      BY <2>1, <1>0 DEF LoopInv
    <2> HIDE DEF product
    <2>3. QED
      BY <2>2, <1>1, <2>1, <1>11 DEF SizeOf, Least, TypeOK, product
  <1>8. LoopInv'
    <2>1. /\ i' <= segmentCount'
          /\ fileSize' > 0 /\ segmentCount' <= fileSize' /\ segmentCount' <= connections'
          /\ Len(segments') = i'
          /\ nextStart' = i' * baseSize' + Least(i', remainder')
      BY <1>0, <1>2, <1>6, <1>7, <1>10, <1>11 DEF LoopInv, TypeOK
    <2>2. segments'[1].startByte = 0 /\ segments'[i'].endByte = nextStart' - 1
      BY SMTT(30), <1>0, <1>3, <1>6, <1>10, <1>11 DEF LoopInv, TypeOK, Segment
    <2>3. \A k \in 1..i' :
            /\ segments'[k].index = k - 1
            /\ segments'[k].endByte = segments'[k].startByte + SizeOf(k - 1) - 1
      BY SMTT(30), <1>0, <1>1, <1>3, <1>6, <1>10 DEF LoopInv, TypeOK, Segment
    <2>4. \A k \in 1..(i' - 1) : segments'[k + 1].startByte = segments'[k].endByte + 1
      <3> SUFFICES ASSUME NEW k \in 1..i
                   PROVE  segments'[k + 1].startByte = segments'[k].endByte + 1
        BY <1>10
      <3>1. CASE k = i
        <4>1. segments[i].endByte = nextStart - 1 /\ segments'[i] = segments[i]
          BY <3>1, <1>0, <1>6, <1>10 DEF LoopInv
        <4>2. segments'[i + 1].startByte = nextStart
          BY <1>6 DEF Segment
        <4>3. QED
          BY <3>1, <4>1, <4>2, <1>10
      <3>2. CASE k < i
        <4>1. k \in 1..(i - 1) /\ k + 1 \in 1..i
          BY <3>2, <1>10
        <4>2. QED
          BY <4>1, <1>0, <1>6 DEF LoopInv
      <3>3. QED
        BY <3>1, <3>2, <1>10
    <2>5. \A k \in 1..i' : SizeOf(k - 1)' = SizeOf(k - 1)
      BY <1>2 DEF SizeOf
    <2>6. QED
      BY <2>1, <2>2, <2>3, <2>4, <2>5, <1>10 DEF LoopInv
  <1>9. QED
    BY <1>5, <1>8, <1>11 DEF PlanInv, Partition, Balanced

\* When the loop ends the whole file has been planned.
LEMMA LeaveLoopInv == IInv /\ LeaveLoop => IInv'
  <1> SUFFICES ASSUME IInv, LeaveLoop PROVE IInv'
    OBVIOUS
  <1> USE DEF IInv, LeaveLoop
  <1>0. LoopInv /\ i = segmentCount
    BY DEF PlanInv, LoopInv, TypeOK
  <1>1. TypeOK'
    BY DEF TypeOK
  <1>2. /\ baseSize \in Nat \ {0}
        /\ remainder \in Nat /\ remainder < segmentCount
        /\ fileSize = segmentCount * baseSize + remainder
    BY <1>0, Shares
  <1>3. nextStart = fileSize
    <2> DEFINE product == segmentCount * baseSize
    <2>1. nextStart = product + remainder
      BY <1>0, <1>2 DEF LoopInv, Least, TypeOK
    <2>2. fileSize = product + remainder
      BY <1>2
    <2>3. QED
      BY <2>1, <2>2
  <1>4. \A k \in 1..i : /\ segments[k].startByte \in Nat
                       /\ segments[k].endByte \in Int
                       /\ SizeOf(k - 1) \in Nat \ {0}
    <2> SUFFICES ASSUME NEW k \in 1..i
                 PROVE  /\ segments[k].startByte \in Nat
                        /\ segments[k].endByte \in Int
                        /\ SizeOf(k - 1) \in Nat \ {0}
      OBVIOUS
    <2>1. SizeOf(k - 1) \in Nat \ {0}
      BY <1>2 DEF SizeOf, TypeOK
    <2>2. segments[k] \in SegmentType
      BY <1>0 DEF TypeOK, LoopInv
    <2>3. QED
      BY <2>1, <2>2 DEF SegmentType
  <1>5. Partition'
    BY SMTT(30), <1>0, <1>3, <1>4 DEF Partition, LoopInv, TypeOK
  <1>6. Balanced'
    <2> SUFFICES ASSUME NEW k \in 1..i, NEW l \in 1..i
                 PROVE  segments[k].endByte - segments[k].startByte
                          <= segments[l].endByte - segments[l].startByte + 1
      BY <1>0 DEF Balanced, LoopInv, TypeOK
    <2>1. SizeOf(k - 1) <= SizeOf(l - 1) + 1
      BY <1>2 DEF SizeOf, TypeOK
    <2>2. /\ segments[k].endByte = segments[k].startByte + SizeOf(k - 1) - 1
          /\ segments[l].endByte = segments[l].startByte + SizeOf(l - 1) - 1
      BY <1>0 DEF LoopInv
    <2>3. /\ segments[k].endByte \in Int /\ segments[k].startByte \in Int
          /\ segments[l].endByte \in Int /\ segments[l].startByte \in Int
          /\ SizeOf(k - 1) \in Int /\ SizeOf(l - 1) \in Int
      BY <1>4
    <2>4. QED
      BY <2>1, <2>2, <2>3
  <1>7. QED
    BY <1>1, <1>5, <1>6 DEF PlanInv

\* Each step preserves the invariant.
LEMMA NextInv == IInv /\ [Next]_vars => IInv'
  <1> SUFFICES ASSUME IInv, [Next]_vars PROVE IInv'
    OBVIOUS
  <1>1. CASE UNCHANGED vars
    BY <1>1 DEF vars, IInv, TypeOK, PlanInv, LoopInv, Partition, Balanced,
                baseSize, remainder, SizeOf
  <1>2. QED
    BY <1>1, FallBackInv, EnterLoopInv, AddSegmentInv, LeaveLoopInv DEF Next, Done

\* The plan partitions the file: planSegments leaves no gap and no overlap,
\* whatever the size, the connections and the server.
THEOREM PlanPartitions == Spec => []Partition
  <1>1. IInv => Partition
    BY DEF IInv, PlanInv
  <1>2. QED
    BY <1>1, InitInv, NextInv, PTL DEF Spec

\* The plan is balanced and never exceeds the connection limit.
THEOREM PlanBalanced == Spec => []Balanced
  <1>1. IInv => Balanced
    BY DEF IInv, PlanInv
  <1>2. QED
    BY <1>1, InitInv, NextInv, PTL DEF Spec

\* The planner's locals and its result keep their types: in particular no
\* segment starts before byte 0 and there is always at least one to plan.
THEOREM PlanTypes == Spec => []TypeOK
  <1>1. IInv => TypeOK
    BY DEF IInv
  <1>2. QED
    BY <1>1, InitInv, NextInv, PTL DEF Spec
=============================================================================
