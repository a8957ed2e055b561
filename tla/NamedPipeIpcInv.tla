--------------------------- MODULE NamedPipeIpcInv ---------------------------
(* The inductive invariant of NamedPipeIpc, as NamedPipeIpcProofs needs it. *)
EXTENDS NamedPipeIpc

\* The service's two threads: the flag is the main thread's, the listener lives
\* while it is set and is gone when the main thread is down.
ThreadsAgree ==
  /\ running <=> main = "up"
  /\ running => listener # "ended"
  /\ main = "down" => listener = "ended"

\* There is a pipe where the listener has one, and a connection where it serves one.
PipeFollowsListener ==
  /\ listener \in {"ended", "test", "create"} => pipe = "none"
  /\ listener \in {"read", "handle", "flush", "close"} => pipe \notin {"none", "free"}
  /\ listener = "connect" => pipe # "none"

\* Messages are in an open pipe only, a response only while the listener flushes,
\* and a request is one that its client has sent.
MessagesInPlace ==
  /\ pipe \in {"none", "free"} => inbox = NoMessage /\ outbox = NoMessage
  /\ outbox # NoMessage => listener = "flush"
  /\ listener = "flush" => inbox = NoMessage
  /\ listener = "handle" => inbox # NoMessage
  /\ inbox # NoMessage => inbox[2] <= sent[inbox[1]]

\* The client that has the pipe is writing, or waiting with its request on one side
\* of the handler or its response on the other.
OwnExchange(c) ==
  pipe = c =>
    \/ /\ client[c] = "write" /\ inbox = NoMessage /\ outbox = NoMessage
       /\ listener \in {"connect", "read"}
    \/ client[c] = "read" /\ inbox = Request(c) /\ outbox = NoMessage
    \/ client[c] = "read" /\ inbox = NoMessage /\ outbox = Request(c) /\ served[c] = 1

\* A request that is still in the pipe has not been served nor its call answered.
Pending(c) ==
  inbox = Request(c) => served[c] = 0 /\ answer[c] = "none" /\ client[c] \in {"read", "idle"}

\* How often a request has been served, by where its call is.
ServedSoFar(c) ==
  /\ served[c] \in {0, 1}
  /\ client[c] \in {"open", "write"} => served[c] = 0
  /\ client[c] = "read" /\ pipe # c =>
       inbox # Request(c) /\ (crashes = 0 => served[c] = 0)
  /\ answer[c] # "none" => client[c] = "idle"
  /\ client[c] # "idle" => sent[c] > 0

IInv ==
  /\ TypeOK
  /\ ThreadsAgree
  /\ PipeFollowsListener
  /\ MessagesInPlace
  /\ \A c \in Clients : OwnExchange(c) /\ Pending(c) /\ ServedSoFar(c)
  /\ AnswerTruthful
  /\ ServedIsAnswered
=============================================================================
