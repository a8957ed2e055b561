------------------------- MODULE NamedPipeIpcProofs -------------------------
(***************************************************************************)
(* Proofs about NamedPipeIpc.  The invariant of NamedPipeIpcInv is         *)
(* inductive: the two threads and the pipe move together, the client that  *)
(* has the pipe is in one of three phases of its exchange, and a request   *)
(* still in the pipe has not been served.  One lemma per part, with one    *)
(* step per action.                                                        *)
(***************************************************************************)
EXTENDS NamedPipeIpcInv, TLAPS

\* A request in the pipe is a pair of the client that wrote it and a number.

\* What is in the inbox names a client and one of its requests.
LEMMA SenderIsClient ==
  ASSUME IInv, inbox # NoMessage
  PROVE  Sender \in Clients /\ inbox = <<Sender, inbox[2]>> /\ inbox[2] \in 1..MaxRequests
BY DEF IInv, TypeOK, Requests, Sender

\* Types are preserved.
LEMMA TypesKept == ASSUME IInv, [Next]_vars PROVE TypeOK'
<1> USE PipeAssumption DEF IInv, TypeOK, serverVars, pipeVars, clientVars
<1>1. CASE Start BY <1>1 DEF Start
<1>2. CASE BeginStop BY <1>2 DEF BeginStop
<1>3. CASE WakeUp BY <1>3 DEF WakeUp
<1>4. CASE JoinReturns BY <1>4 DEF JoinReturns
<1>5. CASE Crash
  <2>1. crashes' \in 0..MaxCrashes BY <1>5 DEF Crash
  <2>2. QED BY <1>5, <2>1 DEF Crash
<1>6. CASE Handle
  <2>1. Sender \in Clients BY <1>6, SenderIsClient DEF Handle, ListenerAt, MessagesInPlace
  <2>2. served' \in [Clients -> Nat] BY <1>6, <2>1 DEF Handle
  <2>3. QED BY <1>6, <2>2 DEF Handle, ListenerAt
<1>7. CASE ListenerNext /\ ~Handle
  BY <1>7 DEF ListenerNext, ListenerAt, TestRunning, CreatePipe, CreateFails, DropClient, Connected,
    ConnectFails, ReadRequest, ReadFails, Flush, Close, ClosePipe
<1>8. ASSUME NEW c \in Clients, ClientNext(c) \/ HangUp(c) \/ \E k \in Kinds : Send(c, k) PROVE TypeOK'
  <2>1. CASE Open(c) BY <2>1 DEF Open
  <2>2. CASE OpenFails(c) BY <2>2 DEF OpenFails, Return, Answers
  <2>3. CASE Write(c) BY <2>3 DEF Write, Request, Requests, ServedSoFar
  <2>4. CASE WriteFails(c) BY <2>4 DEF WriteFails, Return, Answers
  <2>5. CASE ReadResponse(c) BY <2>5 DEF ReadResponse, Return, Answers
  <2>6. CASE ResponseLost(c) BY <2>6 DEF ResponseLost, Return, Answers
  <2>7. CASE HangUp(c) BY <2>7 DEF HangUp, Return, Answers
  <2>8. CASE \E k \in Kinds : Send(c, k) BY <2>8 DEF Send, Answers
  <2>9. QED BY <1>8, <2>1, <2>2, <2>3, <2>4, <2>5, <2>6, <2>7, <2>8 DEF ClientNext
<1>9. CASE Rest \/ Hung \/ UNCHANGED vars BY <1>9 DEF Rest, Hung, vars
<1>10. QED BY <1>1, <1>2, <1>3, <1>4, <1>5, <1>6, <1>7, <1>8, <1>9 DEF Next

\* The flag and the listener follow the main thread.
LEMMA ThreadsKept == ASSUME IInv, [Next]_vars PROVE ThreadsAgree'
<1> USE DEF IInv, TypeOK, ThreadsAgree, serverVars, pipeVars, clientVars
<1>1. CASE Start BY <1>1 DEF Start
<1>2. CASE BeginStop BY <1>2 DEF BeginStop
<1>3. CASE WakeUp BY <1>3 DEF WakeUp
<1>4. CASE JoinReturns BY <1>4 DEF JoinReturns
<1>5. CASE Crash BY <1>5 DEF Crash
<1>6. CASE ListenerNext
  BY <1>6 DEF ListenerNext, ListenerAt, TestRunning, CreatePipe, CreateFails, DropClient, Connected,
    ConnectFails, ReadRequest, ReadFails, Handle, Flush, Close
<1>7. ASSUME NEW c \in Clients, ClientNext(c) \/ HangUp(c) \/ \E k \in Kinds : Send(c, k)
      PROVE ThreadsAgree'
  BY <1>7 DEF ClientNext, Open, OpenFails, Write, WriteFails, ReadResponse, ResponseLost, HangUp, Send
<1>8. CASE Rest \/ Hung \/ UNCHANGED vars BY <1>8 DEF Rest, Hung, vars
<1>9. QED BY <1>1, <1>2, <1>3, <1>4, <1>5, <1>6, <1>7, <1>8 DEF Next

\* The pipe follows the listener.
LEMMA PipeKept == ASSUME IInv, [Next]_vars PROVE PipeFollowsListener'
<1> USE PipeAssumption DEF IInv, TypeOK, PipeFollowsListener, serverVars, pipeVars, clientVars
<1>1. CASE Start BY <1>1 DEF Start, ThreadsAgree
<1>2. CASE BeginStop BY <1>2 DEF BeginStop
<1>3. CASE WakeUp BY <1>3 DEF WakeUp
<1>4. CASE JoinReturns BY <1>4 DEF JoinReturns
<1>5. CASE Crash BY <1>5 DEF Crash
<1>6. CASE ListenerNext
  BY <1>6 DEF ListenerNext, ListenerAt, TestRunning, CreatePipe, CreateFails, DropClient, Connected,
    ConnectFails, ReadRequest, ReadFails, Handle, Flush, Close, ClosePipe
<1>7. ASSUME NEW c \in Clients, ClientNext(c) \/ HangUp(c) \/ \E k \in Kinds : Send(c, k)
      PROVE PipeFollowsListener'
  BY <1>7 DEF ClientNext, Open, OpenFails, Write, WriteFails, ReadResponse, ResponseLost, HangUp, Send
<1>8. CASE Rest \/ Hung \/ UNCHANGED vars BY <1>8 DEF Rest, Hung, vars
<1>9. QED BY <1>1, <1>2, <1>3, <1>4, <1>5, <1>6, <1>7, <1>8 DEF Next

\* Messages stay where they belong.
LEMMA MessagesKept == ASSUME IInv, [Next]_vars PROVE MessagesInPlace'
<1> USE PipeAssumption DEF IInv, TypeOK, MessagesInPlace, PipeFollowsListener, serverVars, pipeVars, clientVars
<1>1. CASE Start BY <1>1 DEF Start, ThreadsAgree
<1>2. CASE BeginStop BY <1>2 DEF BeginStop
<1>3. CASE WakeUp BY <1>3 DEF WakeUp
<1>4. CASE JoinReturns BY <1>4 DEF JoinReturns
<1>5. CASE Crash BY <1>5 DEF Crash
<1>6. CASE ListenerNext
  BY <1>6 DEF ListenerNext, ListenerAt, TestRunning, CreatePipe, CreateFails, DropClient, Connected,
    ConnectFails, ReadRequest, ReadFails, Handle, Flush, Close, ClosePipe
<1>7. ASSUME NEW c \in Clients, ClientNext(c) \/ HangUp(c) PROVE MessagesInPlace'
  BY <1>7 DEF ClientNext, Open, OpenFails, Write, WriteFails, ReadResponse, ResponseLost, HangUp, OwnExchange, Request
<1>8. ASSUME NEW c \in Clients, NEW k \in Kinds, Send(c, k) PROVE MessagesInPlace'
  BY <1>8, SenderIsClient DEF Send, Sender
<1>9. CASE Rest \/ Hung \/ UNCHANGED vars BY <1>9 DEF Rest, Hung, vars
<1>10. QED BY <1>1, <1>2, <1>3, <1>4, <1>5, <1>6, <1>7, <1>8, <1>9 DEF Next
\* The part of the invariant about one client's calls.
CallRight(c) ==
  /\ OwnExchange(c) /\ Pending(c) /\ ServedSoFar(c)
  /\ answer[c] = "response" => served[c] = 1 /\ got[c] = Request(c)
  /\ answer[c] \in {"connectFailed", "writeFailed"} => served[c] = 0
  /\ answer[c] = "readFailed" /\ served[c] > 0 => kind[c] = "longResponse" \/ crashes > 0

\* Whatever any thread or other client does, each client's call stays in order.
LEMMA CallsKept == ASSUME IInv, [Next]_vars, NEW c \in Clients PROVE CallRight(c)'
<1> USE PipeAssumption DEF serverVars, pipeVars, clientVars, CallRight, OwnExchange, Pending,
      ServedSoFar, Request
<1>0. CallRight(c) /\ served[c] \in Nat BY DEF IInv, AnswerTruthful, ServedIsAnswered, TypeOK
<1>t. /\ pipe \in {"none", "free", "gone"} \cup Clients
      /\ c \notin {"none", "free", "gone"}
      /\ crashes \in Nat
      /\ inbox # NoMessage => Sender \in Clients /\ inbox = <<Sender, inbox[2]>>
  BY SenderIsClient DEF IInv, TypeOK
<1>p. PipeFollowsListener /\ MessagesInPlace /\ ThreadsAgree BY DEF IInv
<1>1. CASE Start BY <1>1, <1>0, <1>t, <1>p DEF Start, PipeFollowsListener, ThreadsAgree
<1>2. CASE BeginStop BY <1>2, <1>0 DEF BeginStop
<1>3. CASE WakeUp BY <1>3, <1>0, <1>t DEF WakeUp
<1>4. CASE JoinReturns BY <1>4, <1>0 DEF JoinReturns
<1>5. CASE Crash
  <2>1. /\ crashes' = crashes + 1 /\ crashes' \in Nat /\ crashes' # 0
        /\ pipe' = "none" /\ inbox' = NoMessage
        /\ UNCHANGED <<client, sent, kind, answer, got, served>>
    BY <1>5, <1>t DEF Crash
  <2>2. NoMessage # <<c, sent[c]>> BY DEF NoMessage
  <2>3. QED BY <2>1, <2>2, <1>0, <1>t
<1>6. CASE ListenerNext
  <2>1. CASE Handle
    <3>1. /\ listener = "handle" /\ listener' = "flush" /\ inbox # NoMessage /\ pipe' = pipe
          /\ pipe # "none" /\ pipe # "free" /\ inbox' = NoMessage
          /\ outbox' = (IF pipe = "gone" THEN NoMessage ELSE inbox) /\ outbox = NoMessage
          /\ UNCHANGED <<client, sent, kind, answer, got, crashes>>
      BY <2>1, <1>p DEF Handle, ListenerAt, MessagesInPlace, PipeFollowsListener
    <3>2. NoMessage # <<c, sent[c]>> BY DEF NoMessage
    <3>3. DOMAIN served = Clients /\ Sender \in Clients BY <3>1, <1>t DEF IInv, TypeOK
    <3>4. inbox = <<c, sent[c]>> => Sender = c BY DEF Sender
    <3>5. served'[c] = IF inbox = <<c, sent[c]>> THEN 1 ELSE served[c]
      <4>1. CASE inbox = <<c, sent[c]>>
        BY <4>1, <2>1, <3>3, <3>4, <1>0 DEF Handle
      <4>2. CASE inbox # <<c, sent[c]>>
        <5>1. CASE Sender = c BY <4>2, <5>1, <2>1, <3>3 DEF Handle
        <5>2. CASE Sender # c BY <4>2, <5>2, <2>1, <3>3 DEF Handle
        <5>3. QED BY <5>1, <5>2
      <4>3. QED BY <4>1, <4>2
    <3>6. QED BY <3>1, <3>2, <3>5, <1>0, <1>t
  <2>2. CASE TestRunning BY <2>2, <1>0, <1>t, <1>p DEF TestRunning, ListenerAt, PipeFollowsListener
  <2>3. CASE CreatePipe \/ CreateFails
    BY <2>3, <1>0, <1>t, <1>p DEF CreatePipe, CreateFails, ListenerAt, PipeFollowsListener
  <2>4. CASE DropClient \/ Close
    <3>1. /\ pipe' = "none" /\ inbox' = NoMessage /\ outbox = NoMessage
          /\ UNCHANGED <<client, sent, kind, answer, got, served, crashes>>
      BY <2>4, <1>p DEF DropClient, Close, ClosePipe, ListenerAt, MessagesInPlace
    <3>2. NoMessage # <<c, sent[c]>> BY DEF NoMessage
    <3>3. pipe = c /\ client[c] = "read" => served[c] = 0 BY <3>1, <1>0 DEF NoMessage
    <3>4. QED BY <3>1, <3>2, <3>3, <1>0, <1>t
  <2>5. CASE Connected \/ ConnectFails \/ ReadRequest \/ ReadFails \/ Flush
    BY <2>5, <1>0, <1>t, <1>p DEF Connected, ConnectFails, ReadRequest, ReadFails, Flush, ListenerAt,
      MessagesInPlace
  <2>6. QED BY <1>6, <2>1, <2>2, <2>3, <2>4, <2>5 DEF ListenerNext
<1>7. ASSUME NEW d \in Clients, ClientNext(d) \/ HangUp(d) \/ \E k \in Kinds : Send(d, k)
      PROVE CallRight(c)'
  <2>d. CallRight(d) /\ d \notin {"none", "free", "gone"} /\ served[d] \in Nat
    BY PipeAssumption DEF IInv, AnswerTruthful, ServedIsAnswered, TypeOK
  <2>f. /\ client \in [Clients -> {"idle", "open", "write", "read"}]
        /\ sent \in [Clients -> Nat] /\ DOMAIN answer = Clients /\ DOMAIN got = Clients
        /\ DOMAIN kind = Clients /\ DOMAIN served = Clients /\ DOMAIN tries = Clients
    BY DEF IInv, TypeOK
  <2>1. CASE Open(d)
    <3>1. /\ pipe = "free" /\ pipe' = d /\ inbox = NoMessage /\ outbox = NoMessage
          /\ client[d] = "open" /\ client' = [client EXCEPT ![d] = "write"]
          /\ UNCHANGED <<inbox, outbox, listener, sent, kind, answer, got, served, crashes>>
      BY <2>1, <1>p DEF Open, MessagesInPlace
    <3>2. listener = "connect" BY <3>1, <1>p DEF PipeFollowsListener, IInv, TypeOK
    <3>3. NoMessage # <<c, sent[c]>> BY DEF NoMessage
    <3>4. QED BY <3>1, <3>2, <3>3, <2>d, <2>f, <1>0, <1>t
  <2>2. CASE OpenFails(d) BY <2>2, <2>d, <2>f, <1>0, <1>t, <1>p DEF OpenFails, Return
  <2>3. CASE Write(d) BY <2>3, <2>d, <2>f, <1>0, <1>t, <1>p DEF Write, NoMessage
  <2>4. CASE WriteFails(d) BY <2>4, <2>d, <2>f, <1>0, <1>t, <1>p DEF WriteFails, Return
  <2>5. CASE ReadResponse(d) BY <2>5, <2>d, <2>f, <1>0, <1>t, <1>p DEF ReadResponse, Return, NoMessage
  <2>6. CASE ResponseLost(d) BY <2>6, <2>d, <2>f, <1>0, <1>t, <1>p DEF ResponseLost, Return
  <2>7. CASE HangUp(d) BY <2>7, <2>d, <2>f, <1>0, <1>t, <1>p DEF HangUp, Return
  <2>8. CASE \E k \in Kinds : Send(d, k)
    <3>1. /\ client[d] = "idle" /\ client' = [client EXCEPT ![d] = "open"]
          /\ sent' = [sent EXCEPT ![d] = @ + 1] /\ answer' = [answer EXCEPT ![d] = "none"]
          /\ served' = [served EXCEPT ![d] = 0]
          /\ \A e \in Clients \ {d} : kind'[e] = kind[e] /\ got'[e] = got[e]
          /\ UNCHANGED <<pipe, inbox, outbox, listener, crashes>>
      BY <2>8, <2>f DEF Send
    <3>2. CASE c # d BY <3>1, <3>2, <2>f, <1>0
    <3>3. CASE c = d
      <4>1. inbox # <<c, sent[c] + 1>>
        <5>1. CASE inbox = NoMessage BY <5>1 DEF NoMessage
        <5>2. CASE inbox # NoMessage
          <6>1. inbox[2] <= sent[Sender] BY <5>2, <1>p DEF MessagesInPlace, Sender
          <6>2. inbox = <<c, sent[c] + 1>> => Sender = c /\ inbox[2] = sent[c] + 1 BY DEF Sender
          <6>3. QED BY <6>1, <6>2, <2>f
        <5>3. QED BY <5>1, <5>2
      <4>2. pipe # c BY <3>1, <3>3, <1>0
      <4>3. sent'[c] = sent[c] + 1 /\ sent[c] \in Nat /\ client'[c] = "open" /\ answer'[c] = "none"
            /\ served'[c] = 0
        BY <3>1, <3>3, <2>f
      <4>4. QED BY <3>1, <4>1, <4>2, <4>3
    <3>4. QED BY <3>2, <3>3
  <2>9. QED BY <1>7, <2>1, <2>2, <2>3, <2>4, <2>5, <2>6, <2>7, <2>8 DEF ClientNext
<1>8. CASE Rest \/ Hung \/ UNCHANGED vars BY <1>8, <1>0 DEF Rest, Hung, vars
<1>9. QED BY <1>1, <1>2, <1>3, <1>4, <1>5, <1>6, <1>7, <1>8 DEF Next

\* The invariant holds at first ...
LEMMA InitInv == Init => IInv
<1> SUFFICES ASSUME Init PROVE IInv OBVIOUS
<1> USE PipeAssumption
<1>1. TypeOK
  <2>1. 0 \in 0..(MaxTries - 1) /\ 0 \in 0..MaxRequests /\ 0 \in 0..MaxSessions /\ 0 \in 0..MaxCrashes
    OBVIOUS
  <2>2. "none" \in Answers /\ "fits" \in Kinds BY DEF Answers, Kinds
  <2>3. /\ client \in [Clients -> {"idle", "open", "write", "read"}]
        /\ tries \in [Clients -> 0..(MaxTries - 1)] /\ sent \in [Clients -> 0..MaxRequests]
        /\ kind \in [Clients -> Kinds] /\ answer \in [Clients -> Answers]
        /\ got \in [Clients -> Requests \cup {NoMessage}] /\ served \in [Clients -> Nat]
    BY <2>1, <2>2 DEF Init
  <2>4. QED BY <2>1, <2>3 DEF Init, TypeOK
<1>2. ThreadsAgree /\ PipeFollowsListener /\ MessagesInPlace
  BY DEF Init, ThreadsAgree, PipeFollowsListener, MessagesInPlace
<1>3. \A c \in Clients : OwnExchange(c) /\ Pending(c) /\ ServedSoFar(c)
  BY DEF Init, OwnExchange, Pending, ServedSoFar, Request, NoMessage
<1>4. AnswerTruthful /\ ServedIsAnswered BY DEF Init, AnswerTruthful, ServedIsAnswered
<1>5. QED BY <1>1, <1>2, <1>3, <1>4 DEF IInv

\* ... is preserved by every step ...
LEMMA NextInv == IInv /\ [Next]_vars => IInv'
<1> SUFFICES ASSUME IInv, [Next]_vars PROVE IInv' OBVIOUS
<1>1. TypeOK' /\ ThreadsAgree' BY TypesKept, ThreadsKept
<1>2. PipeFollowsListener' /\ MessagesInPlace' BY PipeKept, MessagesKept
<1>3. \A c \in Clients : CallRight(c)' BY CallsKept
<1>4. (\A c \in Clients : OwnExchange(c) /\ Pending(c) /\ ServedSoFar(c))' BY <1>3 DEF CallRight
<1>5. AnswerTruthful' /\ ServedIsAnswered' BY <1>3 DEF CallRight, AnswerTruthful, ServedIsAnswered, ServedSoFar
<1>6. QED BY <1>1, <1>2, <1>4, <1>5 DEF IInv

\* ... and so always holds.
LEMMA AlwaysInv == Spec => []IInv
BY InitInv, NextInv, PTL DEF Spec

\* Every variable of the pipe keeps its type, for any number of clients, attempts,
\* requests, sessions and crashes (listenLoop, sendRequest, start and stop).
THEOREM TypesHold == Spec => []TypeOK
<1>1. IInv => TypeOK BY DEF IInv
<1>2. QED BY <1>1, AlwaysInv, PTL

\* What sendRequest returns tells whether the handler has had the request, and no
\* call hands its request to it twice (sendRequest, listenLoop).
THEOREM AnswersTrue == Spec => []AnswerTruthful
<1>1. IInv => AnswerTruthful BY DEF IInv
<1>2. QED BY <1>1, AlwaysInv, PTL

\* Unless the service dies or the response is too long, a handled request is
\* answered (FlushFileBuffers before DisconnectNamedPipe).
THEOREM HandledAnswered == Spec => []ServedIsAnswered
<1>1. IInv => ServedIsAnswered BY DEF IInv
<1>2. QED BY <1>1, AlwaysInv, PTL

\* When stop() has returned no handler runs and no pipe is open.
THEOREM StoppedQuiet == Spec => []QuietAfterStop
<1>1. IInv => QuietAfterStop BY DEF IInv, ThreadsAgree, PipeFollowsListener, QuietAfterStop
<1>2. QED BY <1>1, AlwaysInv, PTL
=============================================================================
