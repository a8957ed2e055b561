----------------------------- MODULE QueueManager -----------------------------
(***************************************************************************)
(* QueueManager (src/src/queue/queue_manager.cpp): a list of queued        *)
(* downloads, sorted by priority at every change, with frozen entries.     *)
(* The same id may be queued twice.  No method gives an entry the status   *)
(* "downloading", so that activeCount is 0 and canStartNew holds for every *)
(* positive maxConcurrent; both are left out.                              *)
(***************************************************************************)
EXTENDS Integers, Sequences, Lists

CONSTANTS QueueIds, QueuePriorities,
          MaxQueued      \* bound: entries

VARIABLE queue

\* The results std::sort may give: entries of one priority keep no order.
SortedForms(s) ==
  {t \in {[i \in DOMAIN s |-> s[p[i]]] : p \in {q \in [DOMAIN s -> DOMAIN s] :
                                          \A i, j \in DOMAIN s : q[i] = q[j] => i = j}} :
     \A i, j \in DOMAIN s : i < j => t[i].priority >= t[j].priority}

\* The first entry of an id, 0 if there is none.
First(id) ==
  IF \E i \in DOMAIN queue : queue[i].id = id
  THEN CHOOSE i \in DOMAIN queue :
         queue[i].id = id /\ \A j \in DOMAIN queue : queue[j].id = id => i <= j
  ELSE 0

Init == queue = <<>>

Enqueue(id, priority) ==
  /\ Len(queue) < MaxQueued
  /\ queue' \in SortedForms(Append(queue, [id |-> id, priority |-> priority,
                                           frozen |-> FALSE]))

\* dequeue and remove: every entry of that id.
Dequeue(id) ==
  /\ First(id) # 0
  /\ queue' = Without(queue, id)

\* Only the first entry of that id.
Freeze(id, frozen) ==
  /\ First(id) # 0
  /\ queue' = [queue EXCEPT ![First(id)].frozen = frozen]

Reorder(id, priority) ==
  /\ First(id) # 0
  /\ queue' \in SortedForms([queue EXCEPT ![First(id)].priority = priority])

Next ==
  \E id \in QueueIds :
    \/ Dequeue(id)
    \/ \E frozen \in BOOLEAN : Freeze(id, frozen)
    \/ \E priority \in QueuePriorities : Enqueue(id, priority) \/ Reorder(id, priority)

\* getQueue and getActiveDownloads hand out a higher priority first.
HighestFirst == \A i, j \in DOMAIN queue : i < j => queue[i].priority >= queue[j].priority
=============================================================================
