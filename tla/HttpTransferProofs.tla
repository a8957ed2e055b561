------------------------- MODULE HttpTransferProofs -------------------------
(***************************************************************************)
(* Proofs about HttpTransfer, for files of any size, servers of any kind,  *)
(* and any number of connections, retries, faults and stops, and any       *)
(* buffer.  That a segment counts as done only when all of it has come is  *)
(* not inductive: Right follows the bytes from the answer of the server to *)
(* the part file, and Control says what has been planned, asked for and    *)
(* held back.                                                              *)
(***************************************************************************)
EXTENDS HttpTransfer, TLAPS

Length == seg.endByte - seg.startByte + 1

\* What the output stream of a transfer holds has come with that transfer.
Holding ==
  /\ held <= Len(part)
  /\ held > 0 => worker \in {"body", "ended"}
  /\ \A i \in 1..Len(part) : part[i].of \in sources

\* Where the worker is and what has been planned, asked for and answered.
Control ==
  /\ plans = {} => asked = <<>> /\ worker \in {"new", "failed", "gone"}
  /\ plans # {} => seg \in plans
  /\ worker \in {"sent", "body", "ended", "count"} => Len(asked) > 0
  /\ Len(asked) = 0 \/ (worker = "sent" /\ Len(asked) = 1) => 0 \notin sources
  /\ worker = "sent" => LastAsked = <<FetchStart, seg.endByte>> /\ FetchStart <= seg.endByte
  /\ worker = "body" => status # "none"
  /\ worker = "body" /\ status = "error" => \A j \in 1..Len(body) : body[j].of # 0
  /\ worker \notin {"new", "failed", "gone"} /\ server.length /\ ~server.encodes => seg.endByte < Size
  /\ version <= faults
  /\ worker # "failed" => retries <= MaxRetries

\* Nothing is late unless a stop has been requested, and not before the transfer
\* has ended.
OnTime ==
  /\ late <= 1
  /\ ~stop => late = 0
  /\ worker \in {"new", "look", "sent", "body"} => late = 0

\* The circumstances of ResumedIsRight, or those of UninterruptedIsRight.
Sound ==
  /\ server.length /\ OneSource /\ OnePlan
  /\ \/ server.ranges /\ NoSingleByteAsked
     \/ Len(asked) <= 1 /\ seg = [index |-> 0, startByte |-> 0, endByte |-> Size - 1]

\* Then every byte is in its place, those still to come included, a transfer that
\* succeeds has brought all of them, and all are still there unless the closing of the
\* stream lost some.
InPart == /\ \A i \in 1..Len(part) : part[i].at = seg.startByte + i - 1
          /\ Len(part) <= Length
Coming == worker = "body" /\ status = "success" =>
            /\ Len(part) + Len(body) = Length
            /\ \A j \in 1..Len(body) : body[j].at = seg.startByte + Len(part) + j - 1
Come == worker = "ended" /\ success => Len(part) = Length
Kept == worker = "done" => /\ Length - Len(part) <= Buffer
                           /\ ~cut => Len(part) = Length

Right == Sound => InPart /\ Coming /\ Come /\ Kept

IInv == TypeOK /\ Holding /\ Control /\ OnTime /\ Right

-----------------------------------------------------------------------------
(* What the server sends and the engine plans.                               *)

\* The bytes of a range are those of the file, from its first one on, and all of
\* them if the range lies within the file.
LEMMA FileBytesAre ==
  ASSUME NEW from \in Nat, NEW to \in Nat, version \in Nat
  PROVE  /\ FileBytes(from, to) \in Seq(Byte)
         /\ \A j \in 1..Len(FileBytes(from, to)) : FileBytes(from, to)[j].at = from + j - 1
         /\ from <= to /\ to < Size => Len(FileBytes(from, to)) = to - from + 1
<1> DEFINE last == IF to < Size THEN to ELSE Size - 1
           n == IF last < from THEN 0 ELSE last - from + 1
           bytes == [i \in 1..n |-> [of |-> version, at |-> from + i - 1]]
<1>1. FileBytes(from, to) = bytes BY DEF FileBytes
<1>2. n \in Nat BY TransferAssumption
<1>3. \A i \in 1..n : [of |-> version, at |-> from + i - 1] \in Byte BY <1>2 DEF Byte
<1>4. from <= to /\ to < Size => n = to - from + 1 BY TransferAssumption
<1> HIDE DEF n
<1>5. bytes \in Seq(Byte) /\ Len(bytes) = n BY <1>2, <1>3
<1>6. \A j \in 1..n : bytes[j].at = from + j - 1 OBVIOUS
<1> HIDE DEF bytes
<1>7. QED BY <1>1, <1>4, <1>5, <1>6 DEF n

\* An empty range has no bytes.
LEMMA NoBytes == FileBytes(0, -1) \in Seq(Byte)
BY TransferAssumption DEF FileBytes

\* An error page is none of the file.
LEMMA ErrorPageIs ==
  ASSUME NEW n \in Nat
  PROVE  ErrorPage(n) \in Seq(Byte) /\ \A j \in 1..Len(ErrorPage(n)) : ErrorPage(n)[j].of # 0
BY DEF ErrorPage, Byte

\* Nor is a part file of another download.
LEMMA ForeignIs ==
  ASSUME NEW n \in Nat
  PROVE  Foreign(n) \in Seq(Byte) /\ \A j \in 1..Len(Foreign(n)) : Foreign(n)[j].of # 0
BY DEF Foreign, Byte

\* What \div and % compute when there are no more shares than bytes.
LEMMA Shares ==
  ASSUME NEW n \in Nat \ {0}, NEW a \in Nat \ {0}, n <= a
  PROVE  a \div n \in Nat \ {0} /\ a % n \in Nat /\ a = n * (a \div n) + (a % n)
BY SMT

\* Multiples, one by one.
LEMMA NextMultiple ==
  ASSUME NEW k \in Nat, NEW b \in Nat
  PROVE  k * b \in Nat /\ (k + 1) * b = k * b + b
BY SMT

\* Multiples keep the order of their factors.
LEMMA MultiplesGrow ==
  ASSUME NEW k \in Nat, NEW n \in Nat, NEW b \in Nat, k <= n
  PROVE  k * b <= n * b
BY SMT

\* A planned segment has at least a byte, and ends within the file if its size is known.
LEMMA PlannedIs ==
  ASSUME NEW size \in Nat, NEW ranges \in BOOLEAN, NEW s \in Planned(size, ranges)
  PROVE  /\ s \in [index : Nat, startByte : Nat, endByte : Nat] /\ s.startByte <= s.endByte
         /\ size > 0 => s.endByte < size
<1>1. CASE ~ranges \/ size <= 0
  <2>1. s = [index |-> 0, startByte |-> 0, endByte |-> IF size > 0 THEN size - 1 ELSE 0] BY <1>1 DEF Planned
  <2>2. QED BY <2>1
<1>2. CASE ranges /\ size > 0
  <2> DEFINE n == Least(MaxConnections, size)
             q == size \div n
             r == size % n
             First(i) == i * q + Least(i, r)
  <2>1. n \in Nat \ {0} /\ n <= size BY <1>2, TransferAssumption DEF Least
  <2>2. PICK i \in 0..(n - 1) : s = [index |-> i, startByte |-> First(i), endByte |-> First(i + 1) - 1]
    BY <1>2 DEF Planned
  <2> HIDE DEF n
  <2>3. q \in Nat \ {0} /\ r \in Nat /\ size = n * q + r BY <1>2, <2>1, Shares
  <2> HIDE DEF q, r
  <2>4. i * q \in Nat /\ (i + 1) * q = i * q + q BY <2>1, <2>3, NextMultiple
  <2>5. (i + 1) * q <= n * q BY <2>1, <2>3, MultiplesGrow
  <2>6. n * q \in Nat BY <2>1, <2>3, NextMultiple
  <2>7. Least(i, r) \in Nat /\ Least(i + 1, r) \in Nat /\ Least(i, r) <= Least(i + 1, r)
        /\ Least(i + 1, r) <= r
    BY <2>1, <2>3 DEF Least
  <2>8. First(i) \in Nat /\ First(i + 1) \in Nat /\ First(i + 1) - 1 \in Nat /\ First(i) <= First(i + 1) - 1
        /\ First(i + 1) <= size
    BY <2>3, <2>4, <2>5, <2>6, <2>7
  <2>9. \E k \in Nat, a \in Nat, b \in Nat : s = [index |-> k, startByte |-> a, endByte |-> b] /\ a <= b /\ b < size
    <3>1. i \in Nat BY <2>1, <2>2
    <3>2. s = [index |-> i, startByte |-> First(i), endByte |-> First(i + 1) - 1] BY <2>2
    <3>3. First(i) \in Nat /\ First(i + 1) - 1 \in Nat /\ First(i) <= First(i + 1) - 1
          /\ First(i + 1) - 1 < size
      BY <2>8
    <3>4. \A a, b : s = [index |-> i, startByte |-> a, endByte |-> b] /\ a \in Nat /\ b \in Nat
                     /\ a <= b /\ b < size =>
            \E k \in Nat, a1 \in Nat, b1 \in Nat :
              s = [index |-> k, startByte |-> a1, endByte |-> b1] /\ a1 <= b1 /\ b1 < size
      BY <3>1
    <3> HIDE DEF First
    <3>5. QED BY <3>2, <3>3, <3>4
  <2>10. QED BY <2>9
<1>3. QED BY <1>1, <1>2

\* What the first HEAD request announces.
LEMMA AnnouncedIs ==
  ASSUME TypeOK
  PROVE  Announced \in Nat /\ (server.length /\ ~server.encodes => Announced = Size)
BY TransferAssumption DEF Announced

\* The part file without its last bytes.
LEMMA Shortened ==
  ASSUME TypeOK, NEW n \in 0..Len(part), Shorten(n)
  PROVE  /\ part' \in Seq(Byte) /\ Len(part') = Len(part) - n
         /\ \A i \in 1..Len(part') : part'[i] = part[i]
<1>1. part \in Seq(Byte) /\ Len(part) \in Nat /\ Len(part) - n \in 0..Len(part) BY DEF TypeOK
<1>2. part' = SubSeq(part, 1, Len(part) - n) BY DEF Shorten
<1>3. \A k \in 0..Len(part) : /\ SubSeq(part, 1, k) \in Seq(Byte) /\ Len(SubSeq(part, 1, k)) = k
                               /\ \A i \in 1..k : SubSeq(part, 1, k)[i] = part[i]
  BY <1>1
<1>4. QED BY <1>1, <1>2, <1>3

\* The part file with one more byte.
LEMMA Lengthened ==
  ASSUME TypeOK, AppendByte
  PROVE  /\ Len(body) \in Nat \ {0} /\ Head(body) = body[1] /\ body[1] \in Byte
         /\ part' \in Seq(Byte) /\ body' \in Seq(Byte)
         /\ Len(part') = Len(part) + 1 /\ part'[Len(part) + 1] = body[1]
         /\ \A i \in 1..Len(part) : part'[i] = part[i]
         /\ Len(body') = Len(body) - 1 /\ \A j \in 1..Len(body') : body'[j] = body[j + 1]
BY DEF TypeOK, AppendByte

-----------------------------------------------------------------------------
(* The invariant holds at first and is kept by every action.                 *)

\* The invariant holds before the first HEAD request.
LEMMA InitInv == Init => IInv
<1> SUFFICES ASSUME Init PROVE IInv OBVIOUS
<1> PICK n \in StaleBytes \cup {0} : part = Foreign(n) BY DEF Init
<1>1. n \in Nat BY TransferAssumption
<1>2. part \in Seq(Byte) /\ Len(part) \in Nat /\ \A i \in 1..Len(part) : part[i].of # 0
  BY SMTT(40), <1>1, ForeignIs
<1>8. DOMAIN part = 1..Len(part) BY <1>2
<1>9. sources = {part[i].of : i \in 1..Len(part)} BY <1>8 DEF Init
<1>10. seg \in [index : Nat, startByte : Nat, endByte : Nat] /\ seg.startByte = 0 /\ seg.endByte = 0
  BY TransferAssumption DEF Init
<1>3. TypeOK
  <2>1. asked \in Seq(Nat \X Nat) /\ body \in Seq(Byte) BY DEF Init
  <2>2. seg \in [index : Nat, startByte : Nat, endByte : Nat] /\ seg.startByte <= seg.endByte BY <1>10
  <2>3. server \in Server BY TransferAssumption DEF Init
  <2>4. success \in BOOLEAN /\ stop \in BOOLEAN BY DEF Init
  <2>5. version \in 0..MaxFaults /\ retries \in 0..(MaxRetries + 1) /\ faults \in 0..MaxFaults
        /\ stops \in 0..MaxStops /\ late \in Nat /\ held \in 0..Buffer
    BY TransferAssumption DEF Init
  <2>6. QED BY <1>2, <2>1, <2>2, <2>3, <2>4, <2>5 DEF Init, TypeOK
<1>4. Control /\ Holding
  <2>1. 0 \notin sources /\ \A i \in 1..Len(part) : part[i].of \in sources BY <1>2, <1>9
  <2>2. QED BY <1>2, <2>1, TransferAssumption DEF Init, Control, Holding
<1>5. OnTime BY DEF Init, OnTime
<1>6. Right
  <2> SUFFICES ASSUME Sound PROVE Len(part) = 0
    BY <1>10 DEF Init, Right, InPart, Coming, Come, Kept, Length
  <2>1. \A i \in 1..Len(part) : part[i].of \in sources BY <1>9
  <2>2. sources \subseteq {0} BY DEF Sound, OneSource
  <2>3. \A i \in 1..Len(part) : FALSE BY <1>2, <2>1, <2>2, Zenon
  <2>4. QED BY <1>2, <2>3
<1>7. QED BY <1>3, <1>4, <1>5, <1>6 DEF IInv

\* The types of a step: the sequences, the Boolean values and the counters apart.
LEMMA TypeStep == TypeOK /\ Holding /\ Control /\ [Next]_vars => TypeOK'
<1> SUFFICES ASSUME TypeOK, Holding, Control, [Next]_vars PROVE TypeOK' OBVIOUS
<1> USE DEF fileVars, responseVars
<1>a. Size \in Nat /\ MaxRetries \in Nat /\ MaxFaults \in Nat /\ MaxStops \in Nat /\ Buffer \in Nat
  BY TransferAssumption
<1>b. server \in Server /\ seg \in [index : Nat, startByte : Nat, endByte : Nat] /\ seg.startByte <= seg.endByte
      /\ part \in Seq(Byte) /\ body \in Seq(Byte) /\ asked \in Seq(Nat \X Nat)
  BY DEF TypeOK
<1>c. success \in BOOLEAN /\ stop \in BOOLEAN BY DEF TypeOK
<1>d. version \in Nat /\ late \in Nat BY <1>a DEF TypeOK
<1>e. held \in 0..Len(part) /\ held \in 0..Buffer /\ Len(part) \in Nat BY <1>b DEF TypeOK, Holding
<1>1. /\ server' \in Server
      /\ seg' \in [index : Nat, startByte : Nat, endByte : Nat] /\ (seg.startByte <= seg.endByte)'
  <2>1. CASE HeadRequest
    <3>1. PICK second \in BOOLEAN : seg' \in Planned(Announced, second /\ server.accepts)
      BY <2>1 DEF HeadRequest
    <3>2. (second /\ server.accepts) \in BOOLEAN BY <1>b DEF Server
    <3>3. seg' \in [index : Nat, startByte : Nat, endByte : Nat] /\ (seg.startByte <= seg.endByte)'
      BY <3>1, <3>2, AnnouncedIs, PlannedIs
    <3>4. QED BY <1>b, <2>1, <3>3 DEF HeadRequest
  <2>2. CASE ~HeadRequest
    <3>1. UNCHANGED <<server, seg>>
      BY <2>2 DEF Next, Work, Over, vars, NotPlanned, HeadFails, LeaveSegment, SegmentDone,
                  Request, Count, Respond, RespondEncoded, NotDecoded, RespondError, Receive,
                  Break, Complete, TransferReturns, Stop, Resume, Restart, FileChanges
    <3>2. QED BY <1>b, <3>1
  <2>3. QED BY <2>1, <2>2
<1>2. asked' \in Seq(Nat \X Nat)
  <2>1. CASE Request
    <3>1. FetchStart \in Nat BY <1>b DEF FetchStart
    <3>2. QED BY <1>b, <2>1, <3>1 DEF Request
  <2>2. CASE ~Request
    <3>1. UNCHANGED asked
      BY <2>2 DEF Next, Work, Over, vars, HeadRequest, NotPlanned, HeadFails, LeaveSegment,
                  SegmentDone, Count, Respond, RespondEncoded, NotDecoded, RespondError, Receive,
                  Break, Complete, TransferReturns, Stop, Resume, Restart, FileChanges
    <3>2. QED BY <1>b, <3>1
  <2>3. QED BY <2>1, <2>2
<1>3. part' \in Seq(Byte)
  <2>1. CASE Receive BY <2>1, Lengthened DEF Receive
  <2>2. CASE TransferReturns
    <3>1. PICK lost \in 0..held : Shorten(lost) BY <2>2 DEF TransferReturns
    <3>2. lost \in 0..Len(part) BY <1>e
    <3>3. QED BY <3>1, <3>2, Shortened
  <2>3. CASE Restart BY <1>e, <2>3, Shortened DEF Restart
  <2>4. CASE ~Receive /\ ~TransferReturns /\ ~Restart
    <3>1. UNCHANGED part
      BY <2>4 DEF Next, Work, Over, vars, HeadRequest, NotPlanned, HeadFails, LeaveSegment,
                  SegmentDone, Request, Count, Respond, RespondEncoded, NotDecoded, RespondError,
                  Break, Complete, Stop, Resume, FileChanges
    <3>2. QED BY <1>b, <3>1
  <2>5. QED BY <2>1, <2>2, <2>3, <2>4
<1>4. body' \in Seq(Byte)
  <2>1. CASE Respond \/ RespondEncoded
    <3>1. LastAsked[1] \in Nat /\ LastAsked[2] \in Nat
      BY <1>b, <2>1 DEF Respond, RespondEncoded, Control, LastAsked
    <3>2. FileBytes(LastAsked[1], LastAsked[2]) \in Seq(Byte) BY <1>d, <3>1, FileBytesAre
    <3>3. Size - 1 \in Nat BY TransferAssumption
    <3>4. FileBytes(0, Size - 1) \in Seq(Byte) BY <1>d, <3>3, FileBytesAre
    <3>5. \A n \in 0..(Size - 1) : FileBytes(0, n - 1) \in Seq(Byte)
      <4> SUFFICES ASSUME NEW n \in 0..(Size - 1) PROVE FileBytes(0, n - 1) \in Seq(Byte) OBVIOUS
      <4>1. CASE n = 0
        <5>1. n - 1 = -1 BY <4>1
        <5>2. QED BY <5>1, NoBytes
      <4>2. CASE n # 0
        <5>1. n - 1 \in Nat BY <4>2
        <5>2. QED BY <1>d, <5>1, FileBytesAre
      <4>3. QED BY <4>1, <4>2
    <3>6. QED BY <2>1, <3>2, <3>4, <3>5 DEF Respond, RespondEncoded
  <2>2. CASE RespondError
    <3>1. PICK n \in ErrorBytes : body' = ErrorPage(n) BY <2>2 DEF RespondError
    <3>2. n \in Nat BY TransferAssumption
    <3>3. QED BY <3>1, <3>2, ErrorPageIs
  <2>3. CASE Receive BY <2>3, Lengthened DEF Receive
  <2>4. CASE TransferReturns \/ Restart
    <3>1. body' = <<>> BY <2>4 DEF TransferReturns, Restart
    <3>2. QED BY <3>1
  <2>5. CASE ~Respond /\ ~RespondEncoded /\ ~RespondError /\ ~Receive /\ ~TransferReturns /\ ~Restart
    <3>1. UNCHANGED body
      BY <2>5 DEF Next, Work, Over, vars, HeadRequest, NotPlanned, HeadFails, LeaveSegment,
                  SegmentDone, Request, Count, NotDecoded, Break, Complete, Stop, Resume,
                  FileChanges
    <3>2. QED BY <1>b, <3>1
  <2>6. QED BY <2>1, <2>2, <2>3, <2>4, <2>5
<1>5. success' \in BOOLEAN /\ stop' \in BOOLEAN
  <2>1. CASE Complete
    <3>1. success' = (status # "error") /\ stop' = stop BY <2>1 DEF Complete
    <3>2. QED BY <1>c, <3>1, Zenon
  <2>2. CASE Receive \/ NotDecoded \/ Break \/ TransferReturns
    <3>1. success' = FALSE /\ stop' = stop BY <2>2 DEF Receive, NotDecoded, Break, TransferReturns
    <3>2. QED BY <1>c, <3>1, Zenon
  <2>3. CASE Stop \/ Resume
    <3>1. (stop' = TRUE \/ stop' = FALSE) /\ success' = success BY <2>3 DEF Stop, Resume
    <3>2. QED BY <1>c, <3>1, Zenon
  <2>4. CASE Restart
    <3>1. success' = FALSE /\ stop' = FALSE BY <2>4 DEF Restart
    <3>2. QED BY <3>1, Zenon
  <2>5. CASE /\ ~Complete /\ ~Receive /\ ~NotDecoded /\ ~Break /\ ~TransferReturns
             /\ ~Stop /\ ~Resume /\ ~Restart
    <3>1. UNCHANGED <<success, stop>>
      BY <2>5 DEF Next, Work, Over, vars, HeadRequest, NotPlanned, HeadFails, LeaveSegment,
                  SegmentDone, Request, Count, Respond, RespondEncoded, RespondError, FileChanges
    <3>2. success' = success /\ stop' = stop BY <3>1
    <3>3. QED BY <1>c, <3>2, Zenon
  <2>6. QED BY <2>1, <2>2, <2>3, <2>4, <2>5
<1>6. late' \in Nat
  BY <1>d DEF Next, Work, Over, vars, HeadRequest, NotPlanned, HeadFails, LeaveSegment,
              SegmentDone, Request, Count, Respond, RespondEncoded, NotDecoded, RespondError,
              Receive, Break, Complete, TransferReturns, Stop, Resume, Restart, FileChanges,
              AppendByte
<1>7. /\ version' \in 0..MaxFaults /\ faults' \in 0..MaxFaults
      /\ retries' \in 0..(MaxRetries + 1) /\ stops' \in 0..MaxStops
  <2>1. /\ version \in 0..MaxFaults /\ faults \in 0..MaxFaults /\ version <= faults
        /\ retries \in 0..(MaxRetries + 1) /\ stops \in 0..MaxStops
    BY DEF TypeOK, Control
  <2>2. CASE Count
    <3>1. retries <= MaxRetries BY <2>2 DEF Count, Control
    <3>2. retries' = retries \/ retries' = retries + 1 BY <2>2 DEF Count
    <3>3. QED BY <1>a, <2>1, <2>2, <3>1, <3>2 DEF Count
  <2>3. CASE TransferReturns
    <3>1. faults' = faults \/ (faults < MaxFaults /\ faults' = faults + 1) BY <2>3 DEF TransferReturns
    <3>2. retries' = 0 \/ retries' = retries BY <2>3 DEF TransferReturns
    <3>3. QED BY <1>a, <2>1, <2>3, <3>1, <3>2 DEF TransferReturns
  <2>4. CASE Resume \/ Restart BY <1>a, <2>1, <2>4 DEF Resume, Restart
  <2>5. CASE RespondError \/ Break BY <1>a, <2>1, <2>5 DEF RespondError, Break
  <2>6. CASE Stop BY <1>a, <2>1, <2>6 DEF Stop
  <2>7. CASE FileChanges BY <1>a, <2>1, <2>7 DEF FileChanges
  <2>8. CASE /\ ~Count /\ ~TransferReturns /\ ~Resume /\ ~Restart /\ ~RespondError /\ ~Break /\ ~Stop
             /\ ~FileChanges
    <3>1. UNCHANGED <<version, faults, retries, stops>>
      BY <2>8 DEF Next, Work, Over, vars, HeadRequest, NotPlanned, HeadFails, LeaveSegment,
                  SegmentDone, Request, Respond, RespondEncoded, NotDecoded, Receive, Complete
    <3>2. QED BY <2>1, <3>1
  <2>9. QED BY <2>2, <2>3, <2>4, <2>5, <2>6, <2>7, <2>8
<1>8. worker' \in {"new", "look", "sent", "body", "ended", "count", "idle", "done", "failed", "gone"}
      /\ status' \in {"none", "success", "error"}
  BY DEF TypeOK, Next, Work, Over, vars, HeadRequest, NotPlanned, HeadFails, LeaveSegment, SegmentDone, Request, Count, Respond,
     RespondEncoded, NotDecoded, RespondError, Receive, Break, Complete, TransferReturns, Stop, Resume, Restart, FileChanges, AppendByte
<1>9. held' \in 0..Buffer
  <2>1. held' \in {held, 0} \/ (held < Buffer /\ held' = held + 1)
    BY DEF Next, Work, Over, vars, HeadRequest, NotPlanned, HeadFails, LeaveSegment, SegmentDone,
                Request, Count, Respond, RespondEncoded, NotDecoded, RespondError, Receive, Break,
                Complete, TransferReturns, Stop, Resume, Restart, FileChanges, AppendByte, Shorten
  <2>2. QED BY <1>a, <1>e, <2>1
<1>10. QED BY <1>1, <1>2, <1>3, <1>4, <1>5, <1>6, <1>7, <1>8, <1>9 DEF TypeOK

\* What the output stream holds, one action at a time.
LEMMA HoldingStep == TypeOK /\ Holding /\ [Next]_vars => Holding'
<1> SUFFICES ASSUME TypeOK, Holding, [Next]_vars PROVE Holding' OBVIOUS
<1> USE DEF fileVars, responseVars
<1>a. /\ held \in Nat /\ Len(part) \in Nat /\ held <= Len(part) /\ Buffer \in Nat
      /\ \A i \in 1..Len(part) : part[i].of \in sources
  BY TransferAssumption DEF TypeOK, Holding
<1>1. CASE Receive
  <2>1. /\ Len(part') = Len(part) + 1 /\ part'[Len(part) + 1] = body[1] /\ Head(body) = body[1]
        /\ \A i \in 1..Len(part) : part'[i] = part[i]
    BY <1>1, Lengthened DEF Receive
  <2>2. sources' = sources \cup {Head(body).of} /\ (held' = 0 \/ held' = held + 1)
    BY <1>1 DEF Receive, AppendByte
  <2>3. \A i \in 1..Len(part') : part'[i].of \in sources'
    <3> SUFFICES ASSUME NEW i \in 1..Len(part') PROVE part'[i].of \in sources' OBVIOUS
    <3>1. i = Len(part) + 1 \/ i \in 1..Len(part) BY <1>a, <2>1
    <3>2. QED BY <1>a, <2>1, <2>2, <3>1
  <2>4. worker' \in {"body", "ended"} BY <1>1 DEF Receive
  <2>5. held' <= Len(part') BY <1>a, <2>1, <2>2
  <2>6. QED BY <2>3, <2>4, <2>5 DEF Holding
<1>2. CASE TransferReturns \/ Restart
  <2>1. PICK lost \in 0..held : Shorten(lost) BY <1>a, <1>2 DEF TransferReturns, Restart
  <2>2. lost \in 0..Len(part) BY <1>a
  <2>3. Len(part') = Len(part) - lost /\ \A i \in 1..Len(part') : part'[i] = part[i]
    BY <2>1, <2>2, Shortened
  <2>4. held' = 0 /\ sources' = sources BY <2>1 DEF Shorten
  <2>5. QED BY <1>a, <2>2, <2>3, <2>4 DEF Holding
<1>3. CASE ~Receive /\ ~TransferReturns /\ ~Restart
  <2>1. UNCHANGED <<part, held, sources>>
    BY <1>3 DEF Next, Work, Over, vars, HeadRequest, NotPlanned, HeadFails, LeaveSegment,
                SegmentDone, Request, Count, Respond, RespondEncoded, NotDecoded, RespondError,
                Break, Complete, Stop, Resume, FileChanges
  <2>2. worker \in {"body", "ended"} => worker' \in {"body", "ended"}
    BY <1>3 DEF Next, Work, Over, vars, HeadRequest, NotPlanned, HeadFails, LeaveSegment,
                SegmentDone, Request, Count, Respond, RespondEncoded, NotDecoded, RespondError,
                Break, Complete, Stop, Resume, FileChanges
  <2>3. QED BY <2>1, <2>2 DEF Holding
<1>4. QED BY <1>1, <1>2, <1>3

\* What has been asked for and answered, one action at a time.
LEMMA ControlStep == TypeOK /\ Control /\ [Next]_vars => Control'
<1> SUFFICES ASSUME TypeOK, Control, [Next]_vars PROVE Control' OBVIOUS
<1> USE DEF fileVars, responseVars
<1>a. Size \in Nat \ {0} /\ MaxRetries \in Nat BY TransferAssumption
<1>b. server \in Server /\ seg \in [index : Nat, startByte : Nat, endByte : Nat]
      /\ part \in Seq(Byte) /\ body \in Seq(Byte) /\ asked \in Seq(Nat \X Nat)
      /\ version \in Nat /\ faults \in Nat /\ retries \in Nat
  BY TransferAssumption DEF TypeOK
<1>1. CASE HeadRequest
  <2>1. PICK second \in BOOLEAN : seg' \in Planned(Announced, second /\ server.accepts)
    BY <1>1 DEF HeadRequest
  <2>2. (second /\ server.accepts) \in BOOLEAN BY <1>b DEF Server
  <2>3. ASSUME server.length, ~server.encodes PROVE seg'.endByte < Size
    <3>1. seg' \in Planned(Size, second /\ server.accepts) BY <2>1, <2>3, AnnouncedIs
    <3>2. \A r \in BOOLEAN : \A s \in Planned(Size, r) : s.endByte < Size BY <1>a, PlannedIs
    <3>3. QED BY <2>2, <3>1, <3>2, Zenon
  <2>4. seg' \in plans' /\ worker' = "look" BY <1>1 DEF HeadRequest
  <2>5. QED BY <1>1, <2>3, <2>4 DEF HeadRequest, Control
<1>2. CASE NotPlanned BY <1>2 DEF NotPlanned, Control
<1>3. CASE HeadFails BY <1>3 DEF HeadFails, Control
<1>4. CASE LeaveSegment BY <1>4 DEF LeaveSegment, Control
<1>5. CASE SegmentDone BY <1>5 DEF SegmentDone, Control
<1>6. CASE Request
  <2>1. FetchStart \in Nat BY <1>b DEF FetchStart
  <2>2. Len(asked') = Len(asked) + 1 /\ LastAsked' = <<FetchStart, seg.endByte>>
    BY <1>b, <1>6, <2>1 DEF Request, LastAsked
  <2>3. UNCHANGED FetchStart BY <1>6 DEF Request, FetchStart
  <2>4. Len(asked) \in Nat BY <1>b
  <2>5. plans # {} BY <1>6 DEF Request, Control
  <2>6. QED BY <1>6, <2>2, <2>3, <2>4, <2>5 DEF Request, Control
<1>7. CASE Count BY <1>a, <1>b, <1>7 DEF Count, Control
<1>8. CASE Respond
  <2>1. status' = "success" \/ (status' = "error" /\ body' = <<>>) BY <1>8 DEF Respond
  <2>2. QED BY <1>8, <2>1 DEF Respond, Control
<1>9. CASE RespondEncoded BY <1>9 DEF RespondEncoded, Control
<1>10. CASE NotDecoded BY <1>10 DEF NotDecoded, Control
<1>11. CASE RespondError
  <2>1. \A j \in 1..Len(body') : body'[j].of # 0
    BY <1>11, ErrorPageIs, TransferAssumption DEF RespondError
  <2>2. version <= faults' BY <1>b, <1>11 DEF RespondError, Control
  <2>3. QED BY <1>11, <2>1, <2>2 DEF RespondError, Control
<1>12. CASE Receive
  <2>1. /\ Len(body') = Len(body) - 1 /\ Len(body) \in Nat
        /\ \A j \in 1..Len(body') : body'[j] = body[j + 1]
    BY <1>12, Lengthened DEF Receive
  <2>2. status = "error" => \A j \in 1..Len(body') : body'[j].of # 0
    BY <1>12, <2>1 DEF Receive, AppendByte, Control
  <2>3. worker' \in {"body", "ended"} /\ worker = "body" BY <1>12 DEF Receive, AppendByte
  <2>4. Len(asked) > 0 /\ plans # {} BY <2>3 DEF Control
  <2>5. QED BY <1>12, <2>2, <2>3, <2>4 DEF Receive, Control
<1>13. CASE Break BY <1>b, <1>13 DEF Break, Control
<1>14. CASE Complete BY <1>14 DEF Complete, Control
<1>15. CASE TransferReturns
  <2>1. sources' = sources /\ (faults' = faults \/ faults' = faults + 1) BY <1>15 DEF TransferReturns, Shorten
  <2>2. version <= faults' BY <1>b, <2>1 DEF Control
  <2>3. QED BY <1>a, <1>15, <2>1, <2>2 DEF TransferReturns, Control
<1>16. CASE Stop BY <1>16 DEF Stop, Control, LastAsked, FetchStart
<1>17. CASE Resume BY <1>a, <1>17 DEF Resume, Control
<1>18. CASE Restart BY <1>a, <1>b, <1>18 DEF Restart, Shorten, Control
<1>19. CASE FileChanges BY SMTT(30), <1>b, <1>19 DEF FileChanges, Control, LastAsked, FetchStart
<1>20. CASE UNCHANGED vars BY <1>20 DEF vars, Control, LastAsked, FetchStart
<1>21. QED BY <1>1, <1>2, <1>3, <1>4, <1>5, <1>6, <1>7, <1>8, <1>9, <1>10, <1>11, <1>12, <1>13, <1>14,
             <1>15, <1>16, <1>17, <1>18, <1>19, <1>20 DEF Next, Work, Over

\* The callback that follows a late byte ends the transfer.
LEMMA OnTimeStep == TypeOK /\ OnTime /\ [Next]_vars => OnTime'
<1> SUFFICES ASSUME TypeOK, OnTime, [Next]_vars PROVE OnTime' OBVIOUS
<1>1. late \in Nat BY DEF TypeOK
<1>2. CASE Receive BY <1>1, <1>2 DEF Receive, AppendByte, OnTime
<1>3. CASE Stop \/ Resume \/ Restart BY <1>3 DEF Stop, Resume, Restart, OnTime
<1>4. CASE ~Receive /\ ~Stop /\ ~Resume /\ ~Restart
  <2>1. UNCHANGED <<late, stop>>
    BY <1>4 DEF Next, Work, Over, vars, HeadRequest, NotPlanned, HeadFails, LeaveSegment,
                SegmentDone, Request, Count, Respond, RespondEncoded, NotDecoded, RespondError,
                Break, Complete, TransferReturns, FileChanges
  <2>2. worker' \in {"new", "look", "sent", "body"} =>
          worker \in {"new", "look", "sent", "body"} \/ (worker = "count" /\ ~stop)
    BY <1>4 DEF Next, Work, Over, vars, HeadRequest, NotPlanned, HeadFails, LeaveSegment,
                SegmentDone, Request, Count, Respond, RespondEncoded, NotDecoded, RespondError,
                Break, Complete, TransferReturns, FileChanges
  <2>3. QED BY <2>1, <2>2 DEF OnTime
<1>5. QED BY <1>2, <1>3, <1>4

-----------------------------------------------------------------------------
(* Every byte in its place.                                                  *)

\* The lengths and offsets the arithmetic below is about are natural numbers.
LEMMA Sizes ==
  ASSUME TypeOK
  PROVE  /\ Length \in Nat \ {0} /\ Len(part) \in Nat /\ Len(body) \in Nat /\ Len(asked) \in Nat
         /\ seg.startByte \in Nat /\ seg.endByte \in Nat
BY DEF TypeOK, Length

\* The range asked for is what the segment lacks: if the bytes that came are the
\* right ones, so are those of the answer.
LEMMA AnswerIsRest ==
  ASSUME TypeOK, Holding, Control, Right, Respond, Sound
  PROVE  status' = "success" => /\ Len(part) + Len(body') = Length
                                /\ \A j \in 1..Len(body') : body'[j].at = seg.startByte + Len(part) + j - 1
<1> SUFFICES ASSUME status' = "success"
             PROVE  /\ Len(part) + Len(body') = Length
                    /\ \A j \in 1..Len(body') : body'[j].at = seg.startByte + Len(part) + j - 1
  OBVIOUS
<1>a. Size \in Nat \ {0} /\ version \in Nat BY TransferAssumption DEF TypeOK
<1>b. /\ Length \in Nat \ {0} /\ Len(part) \in Nat /\ Len(asked) \in Nat
      /\ seg.startByte \in Nat /\ seg.endByte \in Nat
  BY Sizes
<1>1. /\ LastAsked[1] = FetchStart /\ LastAsked[2] = seg.endByte
      /\ FetchStart \in Nat /\ FetchStart <= seg.endByte /\ seg.endByte < Size
  BY <1>b DEF Respond, Control, Sound, OneSource, FetchStart
<1>2. CASE RangeHonoured
  <2>1. body' = FileBytes(FetchStart, seg.endByte) BY <1>1, <1>2 DEF Respond
  <2>2. /\ Len(body') = seg.endByte - FetchStart + 1
        /\ \A j \in 1..Len(body') : body'[j].at = FetchStart + j - 1
    BY ZenonT(60), <1>a, <1>b, <1>1, <2>1, FileBytesAre
  <2>3. QED BY SMTT(30), <1>b, <2>2 DEF FetchStart, Length
<1>3. CASE ~RangeHonoured
  <2>1. part = <<>> /\ seg.startByte = 0 /\ seg.endByte = Size - 1
    <3>1. CASE server.ranges /\ NoSingleByteAsked
      <4>1. ~(LastAsked[1] < LastAsked[2]) BY <1>1, <1>3, <1>b, <3>1 DEF RangeHonoured, RangeHeader
      <4>2. Size = 1 BY <1>b, <3>1, <4>1 DEF NoSingleByteAsked, LastAsked, Respond, Control
      <4>3. QED BY <1>b, <1>1, <4>2 DEF FetchStart, TypeOK
    <3>2. CASE Len(asked) <= 1 /\ seg = [index |-> 0, startByte |-> 0, endByte |-> Size - 1]
      <4>1. worker = "sent" /\ Len(asked) > 0 BY DEF Respond, Control
      <4>2. Len(asked) = 1
        <5>1. Len(asked) \in Nat /\ Len(asked) <= 1 BY <1>b, <3>2
        <5>2. Len(asked) > 0 BY <4>1
        <5>3. \A n \in Nat : n <= 1 /\ n > 0 => n = 1 OBVIOUS
        <5>4. QED BY <5>1, <5>2, <5>3, Zenon
      <4>3. 0 \notin sources BY <4>1, <4>2 DEF Control
      <4>4. sources = {} BY <4>3 DEF Sound, OneSource
      <4>5. Len(part) = 0 BY <1>b, <4>4 DEF Holding
      <4>6. part \in Seq(Byte) BY DEF TypeOK
      <4>7. part = <<>> BY <4>5, <4>6
      <4>8. QED BY <3>2, <4>7
    <3>3. QED BY <3>1, <3>2 DEF Sound
  <2>2. body' = FileBytes(0, Size - 1) BY <1>3 DEF Respond
  <2>3. Len(body') = Size /\ \A j \in 1..Len(body') : body'[j].at = 0 + j - 1
    BY <1>a, <2>2, FileBytesAre
  <2>4. QED BY <1>a, <2>1, <2>3 DEF Length
<1>4. QED BY <1>2, <1>3

\* A place in the part file is the same whether counted from the old or the new length.
LEMMA Shift ==
  ASSUME NEW a \in Nat, NEW b \in Nat, NEW c \in Nat, NEW k \in Nat, c = b + 1
  PROVE  a + b + (k + 1) - 1 = a + c + k - 1
OBVIOUS

\* Circumstances that are sound after a step were so before it, and if a plan is made
\* it is the one there was, or nothing has come yet.
LEMMA SoundBefore ==
  ASSUME TypeOK, Holding, Control, [Next]_vars, Sound'
  PROVE  /\ server' = server
         /\ \/ Sound /\ seg' = seg
            \/ HeadRequest /\ part' = <<>>
<1> USE DEF fileVars, responseVars
<1>a. part \in Seq(Byte) /\ Len(part) \in Nat /\ Len(asked) \in Nat /\ asked \in Seq(Nat \X Nat)
      /\ seg.startByte \in Nat
  BY DEF TypeOK
<1>1. server' = server
  BY DEF Next, Work, Over, vars, HeadRequest, NotPlanned, HeadFails, LeaveSegment, SegmentDone,
              Request, Count, Respond, RespondEncoded, NotDecoded, RespondError, Receive, Break,
              Complete, TransferReturns, Stop, Resume, Restart, FileChanges, AppendByte, Shorten
<1>2. CASE HeadRequest
  <2>1. part' = part /\ sources' = sources /\ asked' = asked BY <1>2 DEF HeadRequest
  <2>2. CASE plans = {}
    <3>1. Len(asked) = 0 BY <2>2 DEF Control
    <3>4. 0 \notin sources /\ sources \subseteq {0} BY <2>1, <3>1 DEF Control, Sound, OneSource
    <3>5. \A i \in 1..Len(part) : part[i].of \in sources BY DEF Holding
    <3>6. \A i \in 1..Len(part) : FALSE BY <3>4, <3>5, Zenon
    <3>2. Len(part) = 0 BY <1>a, <3>6
    <3>3. QED BY <1>a, <1>1, <1>2, <2>1, <3>2
  <2>3. CASE plans # {}
    <3>1. seg \in plans BY <2>3 DEF Control
    <3>2. plans' = plans \cup {seg'} /\ plans' \subseteq {seg'} BY <1>2 DEF HeadRequest, Sound, OnePlan
    <3>3. seg' = seg /\ plans \subseteq {seg} BY <3>1, <3>2
    <3>4. Sound BY <1>1, <2>1, <3>3 DEF Sound, OneSource, OnePlan, NoSingleByteAsked
    <3>5. QED BY <1>1, <3>3, <3>4
  <2>4. QED BY <2>2, <2>3
<1>3. CASE ~HeadRequest
  <2>1. UNCHANGED <<seg, plans>>
    BY <1>3 DEF Next, Work, Over, vars, NotPlanned, HeadFails, LeaveSegment, SegmentDone, Request,
                Count, Respond, RespondEncoded, NotDecoded, RespondError, Receive, Break,
                Complete, TransferReturns, Stop, Resume, Restart, FileChanges
  <2>2. CASE Request
    <3>1. FetchStart \in Nat BY <1>a DEF FetchStart
    <3>2. /\ Len(asked') = Len(asked) + 1 /\ sources' = sources
          /\ \A i \in 1..Len(asked) : asked'[i] = asked[i]
      BY <1>a, <2>2, <3>1 DEF Request
    <3>3. NoSingleByteAsked' => NoSingleByteAsked BY <1>a, <3>2 DEF NoSingleByteAsked
    <3>4. Len(asked') <= 1 => Len(asked) <= 1 BY <1>a, <3>2
    <3>5. QED BY <1>1, <2>1, <3>2, <3>3, <3>4 DEF Sound, OneSource, OnePlan
  <2>3. CASE ~Request
    <3>1. asked' = asked
      BY <1>3, <2>3 DEF Next, Work, Over, vars, NotPlanned, HeadFails, LeaveSegment, SegmentDone,
                  Count, Respond, RespondEncoded, NotDecoded, RespondError, Receive, Break,
                  Complete, TransferReturns, Stop, Resume, Restart, FileChanges
    <3>2. sources \subseteq sources'
      BY <1>3, <2>3 DEF Next, Work, Over, vars, NotPlanned, HeadFails, LeaveSegment, SegmentDone,
                  Count, Respond, RespondEncoded, NotDecoded, RespondError, Receive, Break,
                  Complete, TransferReturns, Stop, Resume, Restart, FileChanges, AppendByte, Shorten
    <3>3. QED BY <1>1, <2>1, <3>1, <3>2 DEF Sound, OneSource, OnePlan, NoSingleByteAsked
  <2>4. QED BY <2>2, <2>3
<1>4. QED BY <1>2, <1>3

\* Without its last bytes the part file is right still.
LEMMA StillInPart ==
  ASSUME TypeOK, InPart, seg' = seg, NEW n \in 0..Len(part),
         Len(part') = Len(part) - n, \A i \in 1..Len(part') : part'[i] = part[i]
  PROVE  InPart'
<1>1. Length \in Nat /\ Len(part) \in Nat /\ Length' = Length BY Sizes DEF Length
<1>2. Len(part) <= Length /\ \A i \in 1..Len(part) : part[i].at = seg.startByte + i - 1 BY DEF InPart
<1>3. \A i \in 1..Len(part') : i \in 1..Len(part) BY <1>1
<1>4. Len(part') <= Length' BY <1>1, <1>2
<1>5. \A i \in 1..Len(part') : part'[i].at = seg'.startByte + i - 1 BY <1>2, <1>3
<1>6. QED BY <1>4, <1>5 DEF InPart

\* Each step keeps the bytes right, as long as the circumstances are sound.
LEMMA RightStep == TypeOK /\ Holding /\ Control /\ Right /\ [Next]_vars => Right'
<1> SUFFICES ASSUME TypeOK, Holding, Control, Right, [Next]_vars, Sound'
             PROVE  (InPart /\ Coming /\ Come /\ Kept)'
  BY DEF Right
<1> USE DEF fileVars, responseVars
<1>a. /\ Length \in Nat \ {0} /\ Len(part) \in Nat /\ Len(body) \in Nat /\ Len(asked) \in Nat
      /\ seg.startByte \in Nat /\ seg.endByte \in Nat
  BY Sizes
<1>b. part \in Seq(Byte) /\ body \in Seq(Byte) /\ held \in 0..Len(part) /\ held \in 0..Buffer /\ Buffer \in Nat
  BY <1>a, TransferAssumption DEF TypeOK, Holding
<1>1. CASE HeadRequest /\ part' = <<>>
  <2>1. Length' \in Nat
    <3>1. TypeOK' BY TypeStep
    <3>2. seg' \in [index : Nat, startByte : Nat, endByte : Nat] /\ seg'.startByte <= seg'.endByte
      BY <3>1 DEF TypeOK
    <3>3. QED BY <3>2 DEF Length
  <2>2. worker' = "look" BY <1>1 DEF HeadRequest
  <2>3. QED BY <1>1, <2>1, <2>2 DEF InPart, Coming, Come, Kept
<1>2. CASE Sound /\ seg' = seg
  <2>1. Length' = Length BY <1>2 DEF Length
  <2>2. InPart /\ Coming /\ Come /\ Kept BY <1>2 DEF Right
  <2> USE <1>2, <2>1
  <2>3. CASE HeadRequest
    <3>1. part' = part /\ worker' = "look" BY <2>3 DEF HeadRequest
    <3>2. QED BY <2>2, <3>1 DEF InPart, Coming, Come, Kept
  <2>4. CASE SegmentDone
    <3>1. Len(part) = Length BY <1>a, <2>2, <2>4 DEF SegmentDone, FetchStart, Length, InPart
    <3>2. part' = part /\ worker' = "done" BY <2>4 DEF SegmentDone
    <3>3. QED BY <1>a, <1>b, <2>2, <3>1, <3>2 DEF InPart, Coming, Come, Kept
  <2>5. CASE Respond
    <3>1. status' = "success" => /\ Len(part) + Len(body') = Length
                                 /\ \A j \in 1..Len(body') : body'[j].at = seg.startByte + Len(part) + j - 1
      BY <2>5, AnswerIsRest
    <3>2. part' = part /\ worker' = "body" BY <2>5 DEF Respond
    <3>3. QED BY <2>2, <3>1, <3>2 DEF InPart, Coming, Come, Kept
  <2>6. CASE RespondEncoded \/ NotDecoded
    <3>1. server.encodes /\ ~server.encodes BY <2>6 DEF RespondEncoded, NotDecoded, Sound, OneSource
    <3>2. QED BY <3>1
  <2>7. CASE RespondError
    <3>1. part' = part /\ worker' = "body" /\ status' = "error" BY <2>7 DEF RespondError
    <3>2. QED BY <2>2, <3>1 DEF InPart, Coming, Come, Kept
  <2>8. CASE Receive
    <3>1. Head(body) = body[1] /\ body[1] \in Byte /\ Len(body) > 0 /\ worker = "body"
      BY <2>8, Lengthened DEF Receive, AppendByte
    <3>2. /\ Len(part') = Len(part) + 1
          /\ \A i \in 1..Len(part) : part'[i] = part[i]
          /\ part'[Len(part) + 1] = body[1]
      BY <2>8, Lengthened DEF Receive
    <3>3. Len(body') = Len(body) - 1 BY <2>8, Lengthened DEF Receive
    <3>4. \A j \in 1..Len(body') : body'[j] = body[j + 1] BY <2>8, Lengthened DEF Receive
    <3>5. body[1].of = 0
      <4>1. body[1].of \in sources' BY <2>8, <3>1 DEF Receive, AppendByte
      <4>2. QED BY <4>1 DEF Sound, OneSource
    <3>6. status = "success"
      <4>1. 1 \in 1..Len(body) BY <1>a, <3>1
      <4>2. status # "error" BY <3>1, <3>5, <4>1 DEF Control
      <4>3. status # "none" BY <3>1 DEF Control
      <4>4. QED BY <4>2, <4>3 DEF TypeOK
    <3>7. /\ Len(part) + Len(body) = Length
          /\ \A j \in 1..Len(body) : body[j].at = seg.startByte + Len(part) + j - 1
      BY <2>2, <3>1, <3>6 DEF Coming
    <3>8. \A i \in 1..Len(part') : part'[i].at = seg.startByte + i - 1
      <4>1. 1 \in 1..Len(body) BY <1>a, <3>1
      <4>2. body[1].at = seg.startByte + Len(part) + 1 - 1 BY <3>7, <4>1
      <4>3. \A i \in 1..Len(part) : part[i].at = seg.startByte + i - 1 BY <2>2 DEF InPart
      <4>4. SUFFICES ASSUME NEW i \in 1..Len(part') PROVE part'[i].at = seg.startByte + i - 1
        OBVIOUS
      <4>5. i \in 1..Len(part) \/ i = Len(part) + 1 BY <1>a, <3>2
      <4>6. CASE i \in 1..Len(part) BY <3>2, <4>3, <4>6
      <4>7. CASE i = Len(part) + 1
        <5>1. part'[i] = body[1] BY <3>2, <4>7
        <5>2. part'[i].at = seg.startByte + Len(part) + 1 - 1 BY <4>2, <5>1
        <5>3. seg.startByte + Len(part) + 1 - 1 = seg.startByte + i - 1 BY <1>a, <4>7
        <5>4. QED BY <5>2, <5>3
      <4>8. QED BY <4>5, <4>6, <4>7
    <3>9. Len(part') + Len(body') = Length /\ Len(part') <= Length
      <4>1. Len(part) + Len(body) = Length BY <3>7
      <4>2. Len(part') = Len(part) + 1 /\ Len(body') = Len(body) - 1 /\ Len(body) > 0
        BY <3>1, <3>2, <3>3
      <4>3. QED BY <1>a, <4>1, <4>2
    <3>10. \A j \in 1..Len(body') : body'[j].at = seg.startByte + Len(part') + j - 1
      <4>1. SUFFICES ASSUME NEW j \in 1..Len(body')
                     PROVE  body'[j].at = seg.startByte + Len(part') + j - 1
        OBVIOUS
      <4>2. j \in Nat /\ j + 1 \in 1..Len(body) BY <1>a, <3>3
      <4>3. body'[j].at = seg.startByte + Len(part) + (j + 1) - 1 BY <3>4, <3>7, <4>2
      <4>7. Len(part') = Len(part) + 1 BY <3>2
      <4>4. Len(part') \in Nat BY <1>a, <4>7
      <4>5. seg.startByte + Len(part) + (j + 1) - 1 = seg.startByte + Len(part') + j - 1
        BY <1>a, <4>2, <4>4, <4>7, Shift
      <4>6. QED BY <4>3, <4>5, Zenon
    <3>11. success' = FALSE /\ worker' # "done" BY <2>8 DEF Receive
    <3>12. InPart' BY <3>8, <3>9 DEF InPart
    <3>13. Coming' BY <3>9, <3>10 DEF Coming
    <3>14. Come' BY <3>11, Zenon DEF Come
    <3>15. Kept' BY <3>11, Zenon DEF Kept
    <3>16. QED BY <3>12, <3>13, <3>14, <3>15
  <2>9. CASE Break
    <3>1. part' = part /\ worker' = "ended" /\ success' = FALSE BY <2>9 DEF Break
    <3>2. Come' BY <3>1, Zenon DEF Come
    <3>3. QED BY <2>2, <3>1, <3>2 DEF InPart, Coming, Kept
  <2>10. CASE Complete
    <3>1. success' => status = "success" BY <2>10 DEF Complete, Control, TypeOK
    <3>2. success' => Len(part) = Length BY <1>a, <2>2, <2>10, <3>1 DEF Complete, Coming
    <3>3. part' = part /\ worker' = "ended" BY <2>10 DEF Complete
    <3>4. Come' BY <3>2, <3>3 DEF Come
    <3>5. QED BY <2>2, <3>3, <3>4 DEF InPart, Coming, Kept
  <2>11. CASE TransferReturns
    <3>1. PICK lost \in 0..held : Shorten(lost) /\ cut' = (lost > 0) BY <2>11 DEF TransferReturns
    <3>2. lost \in 0..Len(part) /\ lost <= Buffer BY <1>a, <1>b
    <3>3. Len(part') = Len(part) - lost /\ \A i \in 1..Len(part') : part'[i] = part[i]
      BY <3>1, <3>2, Shortened
    <3>4. worker' \in {"done", "count"} /\ (worker' = "done" => worker = "ended" /\ success)
      BY <2>11 DEF TransferReturns
    <3>5. worker' = "done" => Len(part) = Length BY <2>2, <3>4 DEF Come
    <3>6. InPart' BY <2>2, <3>2, <3>3, StillInPart
    <3>10. ~cut' => ~(lost > 0) BY <3>1, Zenon
    <3>7. ~cut' => lost = 0 BY <1>b, <3>10
    <3>8. Kept' BY <1>a, <1>b, <3>2, <3>3, <3>5, <3>7 DEF Kept
    <3>9. QED BY <3>4, <3>6, <3>8 DEF Coming, Come
  <2>12. CASE Restart
    <3>1. Shorten(held) /\ worker' = "new" BY <2>12 DEF Restart
    <3>2. Len(part') = Len(part) - held /\ \A i \in 1..Len(part') : part'[i] = part[i]
      BY <1>b, <3>1, Shortened
    <3>3. InPart' BY <1>b, <2>2, <3>2, StillInPart
    <3>4. QED BY <3>1, <3>3 DEF Coming, Come, Kept
  <2>13. CASE /\ ~HeadRequest /\ ~SegmentDone /\ ~Respond /\ ~RespondEncoded /\ ~NotDecoded /\ ~RespondError
              /\ ~Receive /\ ~Break /\ ~Complete /\ ~TransferReturns /\ ~Restart
    <3>1. /\ UNCHANGED <<part, body, status, success, cut>>
          /\ worker' \in {"body", "ended", "done"} => worker' = worker
      BY <2>13 DEF Next, Work, Over, vars, NotPlanned, HeadFails, LeaveSegment, Request, Count,
                  Stop, Resume, FileChanges
    <3>2. QED BY <2>2, <3>1 DEF InPart, Coming, Come, Kept
  <2>14. QED BY <2>3, <2>4, <2>5, <2>6, <2>7, <2>8, <2>9, <2>10, <2>11, <2>12, <2>13
<1>3. QED BY <1>1, <1>2, SoundBefore

\* Each step preserves the invariant.
LEMMA Step == IInv /\ [Next]_vars => IInv'
BY TypeStep, HoldingStep, ControlStep, OnTimeStep, RightStep DEF IInv

\* The inductive invariant of a segment's transfer (downloadSegment and the retry loop of runTask).
THEOREM InvHolds == Spec => []IInv
BY InitInv, Step, PTL DEF Spec

-----------------------------------------------------------------------------
(* What follows.                                                             *)

\* A segment whose bytes are all in their place holds a beginning of what is wanted,
\* and what is wanted once it has as many.
LEMMA InPlace ==
  ASSUME TypeOK, Holding, OneSource, InPart
  PROVE  /\ Len(Wanted) = Length /\ IsPrefix(part, Wanted)
         /\ Len(part) = Length => part = Wanted
<1>1. /\ part \in Seq(Byte) /\ Len(part) \in Nat
      /\ Length \in Nat \ {0} /\ seg.startByte \in Nat /\ seg.endByte \in Nat /\ Len(part) <= Length
  BY Sizes DEF TypeOK, InPart
<1>2. Wanted = [i \in 1..Length |-> [of |-> 0, at |-> seg.startByte + i - 1]] BY DEF Wanted, Length
<1>3. Len(Wanted) = Length /\ Wanted \in Seq(Byte)
  <2> HIDE DEF Length
  <2>1. \A i \in 1..Length : [of |-> 0, at |-> seg.startByte + i - 1] \in Byte BY <1>1 DEF Byte
  <2>2. QED BY <1>1, <1>2, <2>1
<1>4. \A i \in 1..Len(part) : part[i] = Wanted[i]
  <2> SUFFICES ASSUME NEW i \in 1..Len(part) PROVE part[i] = Wanted[i] OBVIOUS
  <2>1. part[i] \in Byte /\ part[i] = [of |-> part[i].of, at |-> part[i].at]
    <3>1. \A b \in Byte : b = [of |-> b.of, at |-> b.at] BY DEF Byte
    <3>2. part[i] \in Byte BY <1>1
    <3>3. QED BY <3>1, <3>2
  <2>2. part[i].of = 0 /\ part[i].at = seg.startByte + i - 1 BY DEF OneSource, Holding, InPart
  <2>3. part[i] = [of |-> 0, at |-> seg.startByte + i - 1] BY <2>1, <2>2
  <2>4. i \in 1..Length BY <1>1
  <2>5. QED BY <1>2, <2>3, <2>4
<1>5. SubSeq(part, 1, Len(part)) = SubSeq(Wanted, 1, Len(part))
  BY <1>1, <1>3, <1>4
<1>6. Len(part) = Length => part = Wanted BY <1>1, <1>3, <1>4
<1>7. Len(part) <= Len(Wanted) BY <1>1, <1>3
<1>8. QED BY <1>3, <1>5, <1>6, <1>7 DEF IsPrefix

\* Every variable keeps its type.
THEOREM TypesHold == Spec => []TypeOK
<1>1. IInv => TypeOK BY DEF IInv
<1>2. QED BY <1>1, InvHolds, PTL

\* After a stop request the transfer writes at most what is under way, however long
\* the file is.
THEOREM StopsSoon == Spec => []StopsAtNextByte
<1>1. IInv => StopsAtNextByte BY DEF IInv, OnTime, StopsAtNextByte
<1>2. QED BY <1>1, InvHolds, PTL

\* Breaks, stops, resumes, restarts that plan the same, and retries leave the beginning
\* of the segment in the part file, for files of any size; and of a segment that is done
\* nothing is missing but what a stream lost when it was closed.
THEOREM ResumedRight == Spec => []ResumedIsRight
<1>1. IInv => ResumedIsRight
  <2> SUFFICES ASSUME IInv, server.ranges, server.length, OneSource, OnePlan, NoSingleByteAsked
               PROVE  /\ IsPrefix(part, Wanted)
                      /\ worker = "done" => /\ Len(Wanted) - Len(part) <= Buffer
                                            /\ ~cut => part = Wanted
    BY DEF ResumedIsRight
  <2>1. Sound BY DEF Sound
  <2>2. InPart /\ Kept BY <2>1 DEF IInv, Right
  <2>3. QED BY <2>2, InPlace DEF IInv, Kept
<1>2. QED BY <1>1, InvHolds, PTL

\* A download of the whole file in one request is right, whatever the server makes of
\* ranges, unless the stream lost its last bytes.
THEOREM UninterruptedRight == Spec => []UninterruptedIsRight
<1>1. IInv => UninterruptedIsRight
  <2> SUFFICES ASSUME IInv, server.length, OneSource, OnePlan, Len(asked) <= 1, ~cut,
                      seg = [index |-> 0, startByte |-> 0, endByte |-> Size - 1], worker = "done"
               PROVE  part = Wanted
    BY DEF UninterruptedIsRight
  <2>1. Sound BY DEF Sound
  <2>2. InPart /\ Kept BY <2>1 DEF IInv, Right
  <2>3. QED BY <2>2, InPlace DEF IInv, Kept
<1>2. QED BY <1>1, InvHolds, PTL
=============================================================================
