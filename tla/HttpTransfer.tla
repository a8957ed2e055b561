---------------------------- MODULE HttpTransfer ----------------------------
(***************************************************************************)
(* One segment of a download on its way from an HTTP server to its part    *)
(* file, byte by byte: the HEAD requests and the plan                      *)
(* (CurlNetworkClient::head, src/src/engine/network_client.cpp, and        *)
(* DownloadEngine::startDownload), the loop of a worker over its part file *)
(* (DownloadEngine::Impl::runTask, src/src/engine/download_engine.cpp), and *)
(* the transfers it starts (HttpEngine::downloadSegment,                   *)
(* src/src/engine/http_engine.cpp).                                        *)
(*                                                                         *)
(* DownloadTask takes for granted that a successful transfer has brought   *)
(* the rest of the segment.  Here the server may ignore ranges, not tell   *)
(* the size, answer with an error page, change the file, send it encoded,  *)
(* or break off; the part file may be there already, from another download *)
(* of that name; the last bytes of a transfer may never reach the disk;    *)
(* and a service that starts again plans the segments anew.                *)
(***************************************************************************)
EXTENDS Integers, Sequences, SequencesExt

CONSTANTS Size,            \* of the file on the server
          EncodedSize,     \* of its encoded form, if the server sends that
          Servers,         \* the servers to be tried, of the set Server
          MaxConnections,  \* of the engine
          MaxRetries,      \* failed attempts before the segment is given up
          StaleBytes,      \* lengths of part files found from another download
          ErrorBytes,      \* lengths of the body of an error response
          Buffer,          \* bytes that the output stream of a transfer may hold back
          MaxFaults,       \* bound: error responses, breaks, changes of the file, bytes
                           \* lost by a stream, restarts
          MaxStops         \* bound: pause requests

\* Whether a server honours Range, whether it says so in Accept-Ranges, whether it
\* sends Content-Length, and whether it encodes what it sends, as it is offered to
\* (CURLOPT_ACCEPT_ENCODING): lengths and ranges are those of the encoded form then.
Server == [ranges : BOOLEAN, accepts : BOOLEAN, length : BOOLEAN, encodes : BOOLEAN]

ASSUME TransferAssumption ==
  /\ Size \in Nat \ {0} /\ EncodedSize \in Nat \ {0}
  /\ Servers # {} /\ Servers \subseteq Server
  /\ MaxConnections \in Nat \ {0} /\ MaxRetries \in Nat
  /\ StaleBytes \subseteq Nat /\ ErrorBytes \subseteq Nat /\ Buffer \in Nat
  /\ MaxFaults \in Nat /\ MaxStops \in Nat

VARIABLES
  server,    \* the server of this behaviour
  version,   \* how often the file on it has changed
  worker,    \* "new", "look", "sent", "body", "ended", "count", "idle", "done", "failed" or "gone"
  seg,       \* index, startByte and endByte
  part,      \* the part file of that index
  held,      \* how many of its last bytes the output stream still holds
  asked,     \* history: the ranges asked for
  plans,     \* history: the segments of that index that have been planned
  sources,   \* history: what has been in the part file
  cut,       \* history: bytes were lost when the last transfer closed its stream
  status,    \* of the response under way: below 400 or not
  body,      \* what it has still to bring
  success,   \* what downloadSegment returns
  stop,      \* task->pauseRequested or cancelRequested
  late,      \* history: bytes written since the stop request
  retries,   \* task->currentRetryCount
  faults, stops

responseVars == <<status, body, success>>
fileVars == <<part, held, sources>>
vars == <<server, version, worker, seg, fileVars, asked, plans, cut, responseVars, stop, late,
          retries, faults, stops>>

\* The bytes from..to of the file as it is now; a file ends at its last byte.
FileBytes(from, to) == LET last == IF to < Size THEN to ELSE Size - 1
                       IN [i \in 1..(IF last < from THEN 0 ELSE last - from + 1) |->
                             [of |-> version, at |-> from + i - 1]]
Foreign(n) == [i \in 1..n |-> [of |-> -1, at |-> i]]
ErrorPage(n) == [i \in 1..n |-> [of |-> -2, at |-> i]]

Init ==
  /\ server \in Servers
  /\ version = 0
  /\ worker = "new"
  /\ \E i \in 0..(MaxConnections - 1) : seg = [index |-> i, startByte |-> 0, endByte |-> 0]
  /\ \E n \in StaleBytes \cup {0} : part = Foreign(n)
  /\ held = 0 /\ sources = {part[i].of : i \in DOMAIN part}
  /\ asked = <<>> /\ plans = {} /\ cut = FALSE
  /\ status = "none" /\ body = <<>> /\ success = FALSE
  /\ stop = FALSE /\ late = 0
  /\ retries = 0 /\ faults = 0 /\ stops = 0

-----------------------------------------------------------------------------
(* startDownload.                                                            *)

Least(a, b) == IF a <= b THEN a ELSE b

\* The segments of planSegments (SegmentPlanner proves that they partition).
Planned(size, ranges) ==
  IF ~ranges \/ size <= 0
  THEN {[index |-> 0, startByte |-> 0, endByte |-> IF size > 0 THEN size - 1 ELSE 0]}
  ELSE LET n == Least(MaxConnections, size)
           First(i) == i * (size \div n) + Least(i, size % n)
       IN {[index |-> i, startByte |-> First(i), endByte |-> First(i + 1) - 1] : i \in 0..(n - 1)}

\* The size as the first HEAD request gives it.
Announced == IF ~server.length THEN 0 ELSE IF server.encodes THEN EncodedSize ELSE Size

\* Whether the file can be had in ranges is asked for by a second HEAD request, which
\* counts as a no if it fails.
HeadRequest ==
  /\ worker = "new"
  /\ \E second \in BOOLEAN : \E s \in Planned(Announced, second /\ server.accepts) :
       s.index = seg.index /\ seg' = s
  /\ plans' = plans \cup {seg'}
  /\ worker' = "look"
  /\ UNCHANGED <<server, version, fileVars, asked, cut, responseVars, stop, late, retries, faults, stops>>

\* There are not that many segments: the part file is never looked at again.
NotPlanned ==
  /\ worker = "new"
  /\ \E second \in BOOLEAN :
       \A s \in Planned(Announced, second /\ server.accepts) : s.index # seg.index
  /\ worker' = "gone"
  /\ UNCHANGED <<server, version, seg, fileVars, asked, plans, cut, responseVars, stop, late, retries,
                 faults, stops>>

\* A new download is refused then.  (One to be recovered is left for the next start.)
HeadFails ==
  /\ worker = "new" /\ plans = {}
  /\ worker' = "failed"
  /\ UNCHANGED <<server, version, seg, fileVars, asked, plans, cut, responseVars, stop, late, retries,
                 faults, stops>>

-----------------------------------------------------------------------------
(* The worker's loop.                                                        *)

Wanted == [i \in 1..(seg.endByte - seg.startByte + 1) |-> [of |-> 0, at |-> seg.startByte + i - 1]]

\* Mutant form of FetchStart: from the start of the segment.
FetchAll == seg.startByte

FetchStart == seg.startByte + Len(part)

\* A stop request: the segment stays pending.
LeaveSegment ==
  /\ worker = "look" /\ stop
  /\ worker' = "idle"
  /\ UNCHANGED <<server, version, seg, fileVars, asked, plans, cut, responseVars, stop, late, retries, faults, stops>>

\* The length of the part file is all that is looked at.
SegmentDone ==
  /\ worker = "look" /\ ~stop
  /\ FetchStart > seg.endByte
  /\ worker' = "done"
  /\ UNCHANGED <<server, version, seg, fileVars, asked, plans, cut, responseVars, stop, late, retries, faults, stops>>

\* The file is opened for appending and the rest of the segment asked for.
Request ==
  /\ worker = "look" /\ ~stop
  /\ FetchStart <= seg.endByte
  /\ asked' = Append(asked, <<FetchStart, seg.endByte>>)
  /\ worker' = "sent"
  /\ UNCHANGED <<server, version, seg, fileVars, plans, cut, responseVars, stop, late, retries, faults, stops>>

Count ==
  /\ worker = "count"
  /\ IF stop
     THEN worker' = "idle" /\ UNCHANGED retries
     ELSE /\ retries' = retries + 1
          /\ worker' = IF retries + 1 > MaxRetries THEN "failed" ELSE "look"
  /\ UNCHANGED <<server, version, seg, fileVars, asked, plans, cut, responseVars, stop, late, faults, stops>>

-----------------------------------------------------------------------------
(* The response and downloadSegment.                                         *)

LastAsked == asked[Len(asked)]

\* A range of one byte is requested without a Range header.
RangeHeader == LastAsked[2] > LastAsked[1]

RangeHonoured == RangeHeader /\ server.ranges

\* The server answers: with the range if there is a Range header that it honours,
\* otherwise with the whole file; a range past the end of the file is an error.
Respond ==
  /\ worker = "sent" /\ ~server.encodes
  /\ worker' = "body"
  /\ IF RangeHonoured
     THEN /\ body' = FileBytes(LastAsked[1], LastAsked[2])
          /\ status' = IF body' = <<>> THEN "error" ELSE "success"
     ELSE body' = FileBytes(0, Size - 1) /\ status' = "success"
  /\ UNCHANGED <<server, version, seg, fileVars, asked, plans, cut, success, stop, late, retries,
                 faults, stops>>

\* An encoded answer is decoded on its way to the part file: all of it is the whole
\* file, its beginning is some beginning of the file.
RespondEncoded ==
  /\ worker = "sent" /\ server.encodes
  /\ RangeHonoured => LastAsked[1] = 0
  /\ worker' = "body" /\ status' = "success"
  /\ IF RangeHonoured /\ LastAsked[2] < EncodedSize - 1
     THEN \E n \in 0..(Size - 1) : body' = FileBytes(0, n - 1)
     ELSE body' = FileBytes(0, Size - 1)
  /\ UNCHANGED <<server, version, seg, fileVars, asked, plans, cut, success, stop, late, retries,
                 faults, stops>>

\* A later piece of it cannot be decoded: the transfer fails.
NotDecoded ==
  /\ worker = "sent" /\ server.encodes
  /\ RangeHonoured /\ LastAsked[1] > 0
  /\ worker' = "ended" /\ success' = FALSE
  /\ UNCHANGED <<server, version, seg, fileVars, asked, plans, cut, status, body, stop, late, retries,
                 faults, stops>>

\* Any status from 400 on, with or without a page that explains it.
RespondError ==
  /\ worker = "sent" /\ faults < MaxFaults
  /\ worker' = "body"
  /\ \E n \in ErrorBytes : body' = ErrorPage(n)
  /\ status' = "error" /\ faults' = faults + 1
  /\ UNCHANGED <<server, version, seg, fileVars, asked, plans, cut, success, stop, late, retries, stops>>

\* A byte is appended; the output stream writes what it holds, or holds it back too.
AppendByte ==
  /\ worker = "body" /\ body # <<>>
  /\ part' = Append(part, Head(body)) /\ body' = Tail(body)
  /\ held' \in {0} \cup (IF held < Buffer THEN {held + 1} ELSE {})
  /\ sources' = sources \cup {Head(body).of}
  /\ late' = IF stop THEN late + 1 ELSE late

\* Mutant form of Receive: the refusal of the callback is not passed on.
ReceiveOn ==
  /\ AppendByte
  /\ UNCHANGED <<server, version, worker, seg, asked, plans, cut, status, success, stop, retries,
                 faults, stops>>

\* Bytes are appended, whatever the status; then the progress callback refuses to go
\* on if a stop has been requested.
Receive ==
  /\ AppendByte
  /\ worker' = IF stop THEN "ended" ELSE "body"
  /\ success' = FALSE
  /\ UNCHANGED <<server, version, seg, asked, plans, cut, status, stop, retries, faults, stops>>

\* The connection breaks, the request times out, or a write to the stream fails.
Break ==
  /\ worker \in {"sent", "body"} /\ faults < MaxFaults
  /\ worker' = "ended" /\ success' = FALSE
  /\ faults' = faults + 1
  /\ UNCHANGED <<server, version, seg, fileVars, asked, plans, cut, status, body, stop, late, retries,
                 stops>>

\* Mutant form of Complete: the status is not looked at.
CompleteAnyway ==
  /\ worker = "body" /\ body = <<>>
  /\ worker' = "ended" /\ success' = TRUE
  /\ UNCHANGED <<server, version, seg, fileVars, asked, plans, cut, status, body, stop, late, retries, faults, stops>>

\* All of the body is there: the status decides.
Complete ==
  /\ worker = "body" /\ body = <<>>
  /\ worker' = "ended" /\ success' = (status # "error")
  /\ UNCHANGED <<server, version, seg, fileVars, asked, plans, cut, status, body, stop, late, retries, faults, stops>>

\* The last n bytes are lost.
Shorten(n) ==
  /\ part' = SubSeq(part, 1, Len(part) - n)
  /\ held' = 0
  /\ UNCHANGED sources

\* The stream is closed, and nobody asks whether what it held has been written: only
\* the response decides what downloadToFile returns to the worker.
TransferReturns ==
  /\ worker = "ended"
  /\ \E lost \in 0..held :
       /\ lost > 0 => faults < MaxFaults
       /\ Shorten(lost)
       /\ cut' = (lost > 0)
       /\ faults' = IF lost > 0 THEN faults + 1 ELSE faults
  /\ worker' = IF success THEN "done" ELSE "count"
  /\ retries' = IF success THEN 0 ELSE retries
  /\ status' = "none" /\ body' = <<>> /\ success' = FALSE
  /\ UNCHANGED <<server, version, seg, asked, plans, stop, late, stops>>

-----------------------------------------------------------------------------
(* The user, the server's owner, and the end of the service.                 *)

Stop ==
  /\ ~stop /\ stops < MaxStops /\ worker \notin {"done", "failed", "gone"}
  /\ stop' = TRUE /\ stops' = stops + 1 /\ late' = 0
  /\ UNCHANGED <<server, version, worker, seg, fileVars, asked, plans, cut, responseVars, retries, faults>>

\* A resume, once the run has ended: the plan is still that of the task.
Resume ==
  /\ worker = "idle"
  /\ stop' = FALSE /\ late' = 0 /\ retries' = 0
  /\ worker' = "look"
  /\ UNCHANGED <<server, version, seg, fileVars, asked, plans, cut, responseVars, faults, stops>>

\* The service is killed, or ends after a stop, while the download is not complete.
\* It loses what the stream held; the recovery of the next start asks for size and
\* ranges again, and makes a plan of its own.
Restart ==
  /\ worker \notin {"new", "failed", "gone"} /\ faults < MaxFaults
  /\ worker' = "new"
  /\ Shorten(held)
  /\ status' = "none" /\ body' = <<>> /\ success' = FALSE
  /\ stop' = FALSE /\ late' = 0 /\ retries' = 0
  /\ faults' = faults + 1
  /\ UNCHANGED <<server, version, seg, asked, plans, cut, stops>>

FileChanges ==
  /\ faults < MaxFaults
  /\ version' = version + 1 /\ faults' = faults + 1
  /\ UNCHANGED <<server, worker, seg, fileVars, asked, plans, cut, responseVars, stop, late, retries,
                 stops>>

Over == worker \in {"done", "failed", "gone"} /\ UNCHANGED vars

Work ==
  \/ HeadRequest \/ NotPlanned \/ HeadFails \/ LeaveSegment \/ SegmentDone \/ Request \/ Count
  \/ Respond \/ RespondEncoded \/ NotDecoded \/ RespondError \/ Receive \/ Break \/ Complete
  \/ TransferReturns

Next == Work \/ Stop \/ Resume \/ Restart \/ FileChanges \/ Over

Spec == Init /\ [][Next]_vars

-----------------------------------------------------------------------------
(* Properties.                                                               *)

Byte == [of : Int, at : Nat]

TypeOK ==
  /\ server \in Server /\ version \in 0..MaxFaults
  /\ worker \in {"new", "look", "sent", "body", "ended", "count", "idle", "done", "failed", "gone"}
  /\ seg \in [index : Nat, startByte : Nat, endByte : Nat] /\ seg.startByte <= seg.endByte
  /\ part \in Seq(Byte) /\ body \in Seq(Byte) /\ asked \in Seq(Nat \X Nat)
  /\ held \in 0..Buffer
  /\ status \in {"none", "success", "error"} /\ success \in BOOLEAN
  /\ stop \in BOOLEAN /\ late \in Nat
  /\ retries \in 0..(MaxRetries + 1) /\ faults \in 0..MaxFaults /\ stops \in 0..MaxStops

\* Nothing but the file itself, in one version, has come: no page of an error, no
\* part file of another download, no change of the file; and it came as it is.
OneSource == sources \subseteq {0} /\ ~server.encodes

\* However often the service started, the segment was planned in the same way.
OnePlan == plans \subseteq {seg}

\* Every request was for more than one byte, or for a file of one byte.
NoSingleByteAsked == \A i \in 1..Len(asked) : asked[i][1] < asked[i][2] \/ Size = 1

\* From a server that tells the size and honours ranges, an attempt that breaks off,
\* a full disk, a stop, a resume, a restart of the service that plans the same and any
\* number of retries leave a beginning of the segment in the part file; and a segment
\* counts as done when it is all there, or all but what the stream lost unnoticed when
\* it was closed.  (The single last byte of a segment is the exception: the whole file
\* is appended for it.)
ResumedIsRight ==
  server.ranges /\ server.length /\ OneSource /\ OnePlan /\ NoSingleByteAsked =>
    /\ IsPrefix(part, Wanted)
    /\ worker = "done" => /\ Len(Wanted) - Len(part) <= Buffer
                          /\ ~cut => part = Wanted

\* From any server that tells the size, a download of the whole file in one request is
\* right, unless the stream lost its last bytes when it was closed.
UninterruptedIsRight ==
  /\ server.length /\ OneSource /\ OnePlan /\ Len(asked) <= 1 /\ ~cut
  /\ seg = [index |-> 0, startByte |-> 0, endByte |-> Size - 1]
  => (worker = "done" => part = Wanted)

\* After a stop request at most the bytes under way are written: the callback that
\* follows them ends the transfer.
StopsAtNextByte == late <= 1
=============================================================================
