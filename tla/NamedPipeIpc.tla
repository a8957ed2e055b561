---------------------------- MODULE NamedPipeIpc ----------------------------
(***************************************************************************)
(* The named pipe between the service and its clients, both ends in        *)
(* src/src/ipc/named_pipe_ipc.cpp: the listener thread of                  *)
(* NamedPipeIpcServer, which serves one connection after another, the main *)
(* thread of src/src/service/main.cpp, which starts and stops it, and any  *)
(* number of NamedPipeIpcClients (windows, command lines, native hosts),   *)
(* which open the pipe anew for every request.                             *)
(*                                                                         *)
(* The pipe is the Windows one: the server has at most one instance, a     *)
(* client may open it as soon as it is created, and what has been written  *)
(* stays readable when the writer hangs up.  The handler is one step:      *)
(* DownloadService shows that it returns.                                  *)
(***************************************************************************)
EXTENDS Integers

CONSTANTS Clients,
          MaxTries,     \* attempts of sendRequest to open the pipe (50)
          MaxRequests,  \* bound: requests of each client
          MaxSessions,  \* bound: starts of the service
          MaxCrashes    \* bound: deaths of the service process

ASSUME PipeAssumption ==
  /\ Clients # {}
  /\ Clients \cap {"none", "free", "gone"} = {}
  /\ MaxTries \in Nat \ {0}
  /\ MaxRequests \in Nat /\ MaxSessions \in Nat /\ MaxCrashes \in Nat

\* Whether the request or its response exceeds the 65535 bytes a reader takes.
Kinds == {"fits", "longRequest", "longResponse"}

\* What sendRequest returns: a response, or one of its three errors.
Answers == {"none", "response", "connectFailed", "writeFailed", "readFailed"}

Requests == Clients \X (1..MaxRequests)
NoMessage == <<>>

VARIABLES
  main,      \* the service's main thread
  running,   \* NamedPipeIpcServer::running
  listener,  \* where listenLoop is
  pipe,      \* "none", "free", the client that has it open, or "gone": hung up
  inbox,     \* the request written to the pipe and not yet served
  outbox,    \* the response not yet read
  client,    \* where sendRequest of each client is
  tries,     \* its failed attempts to open the pipe
  sent, kind,  \* the number and the kind of its current request
  answer,    \* what its last call returned
  got,       \* history: the request whose response it read
  served,    \* history: how often the handler got its current request
  sessions, crashes

pipeVars   == <<pipe, inbox, outbox>>
serverVars == <<main, running, listener, sessions, crashes>>
clientVars == <<client, tries, sent, kind, answer, got>>
vars == <<main, running, listener, pipe, inbox, outbox, client, tries, sent, kind,
          answer, got, served, sessions, crashes>>

Request(c) == <<c, sent[c]>>

Init ==
  /\ main = "down" /\ running = FALSE /\ listener = "ended"
  /\ pipe = "none" /\ inbox = NoMessage /\ outbox = NoMessage
  /\ client = [c \in Clients |-> "idle"]
  /\ tries = [c \in Clients |-> 0]
  /\ sent = [c \in Clients |-> 0]
  /\ kind = [c \in Clients |-> "fits"]
  /\ answer = [c \in Clients |-> "none"]
  /\ got = [c \in Clients |-> NoMessage]
  /\ served = [c \in Clients |-> 0]
  /\ sessions = 0 /\ crashes = 0

-----------------------------------------------------------------------------
(* The main thread.                                                          *)

Start ==
  /\ main = "down" /\ sessions < MaxSessions
  /\ sessions' = sessions + 1
  /\ main' = "up" /\ running' = TRUE /\ listener' = "test"
  /\ UNCHANGED <<pipeVars, clientVars, served, crashes>>

\* stop() clears the flag under the lock ...
BeginStop ==
  /\ main = "up"
  /\ running' = FALSE /\ main' = "waking"
  /\ UNCHANGED <<listener, sessions, crashes, pipeVars, clientVars, served>>

\* Mutant form of WakeUp: the listener is not woken.
NoWakeUp ==
  /\ main = "waking"
  /\ main' = "joining"
  /\ UNCHANGED <<running, listener, sessions, crashes, pipeVars, clientVars, served>>

\* ... connects a client of its own, which hangs up at once; without an instance
\* to connect to nothing happens ...
WakeUp ==
  /\ main = "waking"
  /\ pipe' = IF pipe = "free" THEN "gone" ELSE pipe
  /\ main' = "joining"
  /\ UNCHANGED <<running, listener, sessions, crashes, inbox, outbox, clientVars, served>>

\* Mutant form of JoinReturns: the listener is left to itself.
JoinSkipped ==
  /\ main = "joining"
  /\ main' = "down"
  /\ UNCHANGED <<running, listener, sessions, crashes, pipeVars, clientVars, served>>

\* ... and joins the listener.
JoinReturns ==
  /\ main = "joining" /\ listener = "ended"
  /\ main' = "down"
  /\ UNCHANGED <<running, listener, sessions, crashes, pipeVars, clientVars, served>>

\* The process dies, and its end of the pipe with it.
Crash ==
  /\ main # "down" /\ crashes < MaxCrashes
  /\ crashes' = crashes + 1
  /\ main' = "down" /\ running' = FALSE /\ listener' = "ended"
  /\ pipe' = "none" /\ inbox' = NoMessage /\ outbox' = NoMessage
  /\ UNCHANGED <<sessions, clientVars, served>>

-----------------------------------------------------------------------------
(* The listener thread.                                                      *)

ListenerAt(here, next) ==
  /\ listener = here
  /\ listener' = next
  /\ UNCHANGED <<main, running, sessions, crashes, clientVars>>

ClosePipe == pipe' = "none" /\ inbox' = NoMessage /\ outbox' = NoMessage

TestRunning ==
  /\ ListenerAt("test", IF running THEN "create" ELSE "ended")
  /\ UNCHANGED <<pipeVars, served>>

CreatePipe ==
  /\ ListenerAt("create", "connect")
  /\ pipe' = "free"
  /\ UNCHANGED <<inbox, outbox, served>>

\* No instance to be had: the listener sleeps and tries again.
CreateFails ==
  /\ ListenerAt("create", "test")
  /\ UNCHANGED <<pipeVars, served>>

\* Mutant form of DropClient: the listener ends with the pipe still open.
DropWithoutClosing ==
  /\ ListenerAt("connect", "ended")
  /\ pipe # "free" /\ ~running
  /\ UNCHANGED <<pipeVars, served>>

\* ConnectNamedPipe returns once there is a client; if stop() has been called
\* meanwhile that client is dropped, whoever it is.
DropClient ==
  /\ ListenerAt("connect", "ended")
  /\ pipe # "free" /\ ~running
  /\ ClosePipe
  /\ UNCHANGED served

Connected ==
  /\ ListenerAt("connect", "read")
  /\ pipe # "free" /\ running
  /\ UNCHANGED <<pipeVars, served>>

\* It fails for a client that has already hung up (ERROR_NO_DATA).
ConnectFails ==
  /\ ListenerAt("connect", "close")
  /\ pipe = "gone" /\ running
  /\ UNCHANGED <<pipeVars, served>>

Sender == inbox[1]

ReadRequest ==
  /\ ListenerAt("read", "handle")
  /\ inbox # NoMessage
  /\ kind[Sender] # "longRequest"
  /\ UNCHANGED <<pipeVars, served>>

\* ReadFile fails: the client hung up without a request, or the request is longer
\* than the buffer.
ReadFails ==
  /\ ListenerAt("read", "close")
  /\ IF inbox = NoMessage THEN pipe = "gone" ELSE kind[Sender] = "longRequest"
  /\ UNCHANGED <<pipeVars, served>>

\* The handler runs and its response is written, to a client that may be gone.
Handle ==
  /\ ListenerAt("handle", "flush")
  /\ served' = IF inbox = Request(Sender) THEN [served EXCEPT ![Sender] = @ + 1] ELSE served
  /\ outbox' = IF pipe = "gone" THEN NoMessage ELSE inbox
  /\ inbox' = NoMessage
  /\ UNCHANGED pipe

\* Mutant form of Flush: the pipe is closed without waiting for the reader.
NoFlush ==
  /\ ListenerAt("flush", "close")
  /\ UNCHANGED <<pipeVars, served>>

\* FlushFileBuffers waits until the client has read the response or hung up.
Flush ==
  /\ ListenerAt("flush", "close")
  /\ outbox = NoMessage
  /\ UNCHANGED <<pipeVars, served>>

Close ==
  /\ ListenerAt("close", "test")
  /\ ClosePipe
  /\ UNCHANGED served

ListenerNext ==
  \/ TestRunning \/ CreatePipe \/ CreateFails \/ DropClient \/ Connected \/ ConnectFails
  \/ ReadRequest \/ ReadFails \/ Handle \/ Flush \/ Close

-----------------------------------------------------------------------------
(* sendRequest of a client.                                                  *)

\* The call ends with a; the handle, if any, is closed.
Return(c, a) ==
  /\ client' = [client EXCEPT ![c] = "idle"]
  /\ answer' = [answer EXCEPT ![c] = a]

Send(c, k) ==
  /\ client[c] = "idle" /\ sent[c] < MaxRequests
  /\ client' = [client EXCEPT ![c] = "open"]
  /\ sent' = [sent EXCEPT ![c] = @ + 1]
  /\ kind' = [kind EXCEPT ![c] = k]
  /\ answer' = [answer EXCEPT ![c] = "none"]
  /\ got' = [got EXCEPT ![c] = NoMessage]
  /\ served' = [served EXCEPT ![c] = 0]
  /\ UNCHANGED <<serverVars, pipeVars, tries>>

Open(c) ==
  /\ client[c] = "open" /\ pipe = "free"
  /\ pipe' = c
  /\ client' = [client EXCEPT ![c] = "write"]
  /\ tries' = [tries EXCEPT ![c] = 0]
  /\ UNCHANGED <<serverVars, inbox, outbox, sent, kind, answer, got, served>>

\* There is no instance, or another client has it.
OpenFails(c) ==
  /\ client[c] = "open" /\ pipe # "free"
  /\ IF tries[c] + 1 < MaxTries
     THEN tries' = [tries EXCEPT ![c] = @ + 1] /\ UNCHANGED <<client, answer>>
     ELSE tries' = [tries EXCEPT ![c] = 0] /\ Return(c, "connectFailed")
  /\ UNCHANGED <<serverVars, pipeVars, sent, kind, got, served>>

Write(c) ==
  /\ client[c] = "write" /\ pipe = c
  /\ inbox' = Request(c)
  /\ client' = [client EXCEPT ![c] = "read"]
  /\ UNCHANGED <<serverVars, pipe, outbox, tries, sent, kind, answer, got, served>>

WriteFails(c) ==
  /\ client[c] = "write" /\ pipe # c
  /\ Return(c, "writeFailed")
  /\ UNCHANGED <<serverVars, pipeVars, tries, sent, kind, got, served>>

\* A response longer than the buffer counts as a failure; either way the client
\* hangs up.
ReadResponse(c) ==
  /\ client[c] = "read" /\ pipe = c /\ outbox # NoMessage
  /\ outbox' = NoMessage /\ pipe' = "gone"
  /\ got' = [got EXCEPT ![c] = outbox]
  /\ Return(c, IF kind[c] = "longResponse" THEN "readFailed" ELSE "response")
  /\ UNCHANGED <<serverVars, inbox, tries, sent, kind, served>>

\* Mutant form of ResponseLost: the request is sent once more.
SentAgain(c) ==
  /\ client[c] = "read" /\ pipe # c
  /\ client' = [client EXCEPT ![c] = "open"]
  /\ UNCHANGED <<serverVars, pipeVars, tries, sent, kind, answer, got, served>>

\* The server has closed the pipe without a response.
ResponseLost(c) ==
  /\ client[c] = "read" /\ pipe # c
  /\ Return(c, "readFailed")
  /\ UNCHANGED <<serverVars, pipeVars, tries, sent, kind, got, served>>

\* The client's process ends, or is killed, in the middle of a request.
HangUp(c) ==
  /\ client[c] \in {"write", "read"} /\ pipe = c
  /\ pipe' = "gone" /\ outbox' = NoMessage
  /\ Return(c, "none")
  /\ UNCHANGED <<serverVars, inbox, tries, sent, kind, got, served>>

ClientNext(c) ==
  \/ Open(c) \/ OpenFails(c) \/ Write(c) \/ WriteFails(c) \/ ReadResponse(c) \/ ResponseLost(c)

-----------------------------------------------------------------------------
\* Nothing is left to do: the service is down for good and no client is waiting.
Rest ==
  /\ main = "down" /\ sessions = MaxSessions
  /\ \A c \in Clients : client[c] = "idle"
  /\ UNCHANGED vars

\* The listener waits for a client that does not come, and stop() for the listener
\* (see StopReturnsUnlessCreating): the behaviours that end here are real ones.
Hung ==
  /\ main = "joining" /\ listener = "connect" /\ pipe = "free"
  /\ UNCHANGED vars

Next ==
  \/ Start \/ BeginStop \/ WakeUp \/ JoinReturns \/ Crash
  \/ ListenerNext
  \/ \E c \in Clients : ClientNext(c) \/ HangUp(c) \/ \E k \in Kinds : Send(c, k)
  \/ Rest \/ Hung

Spec == Init /\ [][Next]_vars

\* Threads run.  Creating a pipe may fail again and again, but not for ever.
\* Starting, stopping, sending, hanging up and crashing are up to the outside.
FairSpec ==
  /\ Spec
  /\ WF_vars(ListenerNext) /\ SF_vars(CreatePipe)
  /\ WF_vars(WakeUp) /\ WF_vars(JoinReturns)
  /\ \A c \in Clients : WF_vars(ClientNext(c))

-----------------------------------------------------------------------------
(* Properties.                                                               *)

TypeOK ==
  /\ main \in {"down", "up", "waking", "joining"}
  /\ running \in BOOLEAN
  /\ listener \in {"ended", "test", "create", "connect", "read", "handle", "flush", "close"}
  /\ pipe \in {"none", "free", "gone"} \cup Clients
  /\ inbox \in Requests \cup {NoMessage}
  /\ outbox \in Requests \cup {NoMessage}
  /\ client \in [Clients -> {"idle", "open", "write", "read"}]
  /\ tries \in [Clients -> 0..(MaxTries - 1)]
  /\ sent \in [Clients -> 0..MaxRequests]
  /\ kind \in [Clients -> Kinds]
  /\ answer \in [Clients -> Answers]
  /\ got \in [Clients -> Requests \cup {NoMessage}]
  /\ served \in [Clients -> Nat]
  /\ sessions \in 0..MaxSessions /\ crashes \in 0..MaxCrashes

\* What sendRequest returns tells the truth: with a response the request has been
\* handled once and the response is its own; when the pipe could not be opened or
\* written, it has not been handled and may be sent again; and no call ever hands
\* its request to the handler twice.
AnswerTruthful == \A c \in Clients :
  /\ served[c] <= 1
  /\ answer[c] = "response" => served[c] = 1 /\ got[c] = Request(c)
  /\ answer[c] \in {"connectFailed", "writeFailed"} => served[c] = 0

\* A request that has been handled is answered: its caller is told "Failed to read"
\* only if the response is too long for its buffer or the service died.
ServedIsAnswered == \A c \in Clients :
  answer[c] = "readFailed" /\ served[c] > 0 => kind[c] = "longResponse" \/ crashes > 0

\* When stop() has returned, and main goes on to stop the orchestrator, no handler
\* runs and no pipe is open.
QuietAfterStop == main = "down" => listener = "ended" /\ pipe = "none"

\* sendRequest returns, whatever the service does meanwhile.
SendReturns == \A c \in Clients : client[c] # "idle" ~> client[c] = "idle"

\* stop() returns, unless it found the listener between its test of `running' and
\* the creation of the next pipe.
StopReturnsUnlessCreating == main = "waking" /\ listener # "create" ~> main = "down"
=============================================================================
