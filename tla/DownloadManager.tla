--------------------------- MODULE DownloadManager ---------------------------
(***************************************************************************)
(* DownloadManager (src/src/core/download_manager.cpp): a list of          *)
(* downloads with statuses and priorities, a count of the active ones, and *)
(* processQueue, which starts queued ones while there is room.  Every      *)
(* method holds one lock from beginning to end, so that a method is a step. *)
(*                                                                         *)
(* processQueue sorts the list with a comparison that orders queued ones   *)
(* first, by priority and id; the order of the others matters to nobody.   *)
(***************************************************************************)
EXTENDS Integers, FiniteSets

CONSTANTS MaxDownloads,    \* bound: downloads added; below 17, where std::sort is
                           \* an insertion sort and the comparison does not mislead it
          Priorities,
          MaxConcurrent    \* 4 in the code

VARIABLES downloads, nextId, activeCount,
          leaked           \* history: active downloads that have been removed

managerVars == <<downloads, nextId, activeCount, leaked>>

DownloadIds == 1..MaxDownloads
Absent == [status |-> "absent", priority |-> 0]
Listed == {id \in DownloadIds : downloads[id] # Absent}
With(status) == {id \in Listed : downloads[id].status = status}

\* The list with a new status for each of the given downloads.
Turned(ids, status) ==
  [id \in DownloadIds |-> IF id \in ids THEN [downloads[id] EXCEPT !.status = status]
                          ELSE downloads[id]]

Init ==
  /\ downloads = [id \in DownloadIds |-> Absent]
  /\ nextId = 1 /\ activeCount = 0 /\ leaked = 0

\* The status is the caller's: none by default, or "queued".
AddDownload(priority, status) ==
  /\ nextId \in DownloadIds
  /\ downloads' = [downloads EXCEPT ![nextId] = [status |-> status, priority |-> priority]]
  /\ nextId' = nextId + 1
  /\ UNCHANGED <<activeCount, leaked>>

\* The count is left as it was, also when the download was active.
RemoveDownload(id) ==
  /\ id \in Listed
  /\ downloads' = [downloads EXCEPT ![id] = Absent]
  /\ leaked' = IF id \in With("downloading") THEN leaked + 1 ELSE leaked
  /\ UNCHANGED <<nextId, activeCount>>

\* Whatever its status was, and however many are active.
StartDownload(id) ==
  /\ id \in Listed \ With("downloading")
  /\ downloads' = Turned({id}, "downloading")
  /\ activeCount' = activeCount + 1
  /\ UNCHANGED <<nextId, leaked>>

PauseDownload(id) ==
  /\ id \in With("downloading")
  /\ downloads' = Turned({id}, "paused")
  /\ activeCount' = activeCount - 1
  /\ UNCHANGED <<nextId, leaked>>

ResumeDownload(id) ==
  /\ id \in With("paused")
  /\ downloads' = Turned({id}, "queued")
  /\ UNCHANGED <<nextId, activeCount, leaked>>

\* Mutant form of CancelDownload: the count goes down whatever the status was.
CancelCountsTwice(id) ==
  /\ id \in Listed
  /\ downloads' = Turned({id}, "cancelled")
  /\ activeCount' = activeCount - 1
  /\ UNCHANGED <<nextId, leaked>>

CancelDownload(id) ==
  /\ id \in Listed
  /\ downloads' = Turned({id}, "cancelled")
  /\ activeCount' = IF id \in With("downloading") THEN activeCount - 1 ELSE activeCount
  /\ UNCHANGED <<nextId, leaked>>

PauseAll ==
  /\ downloads' = Turned(With("downloading"), "paused")
  /\ activeCount' = activeCount - Cardinality(With("downloading"))
  /\ UNCHANGED <<nextId, leaked>>

ResumeAll ==
  /\ downloads' = Turned(With("paused"), "queued")
  /\ UNCHANGED <<nextId, activeCount, leaked>>

CancelAll ==
  /\ downloads' = Turned(Listed, "cancelled")
  /\ activeCount' = activeCount - Cardinality(With("downloading"))
  /\ UNCHANGED <<nextId, leaked>>

\* The order of the sort among queued downloads.
Before(a, b) ==
  \/ downloads[a].priority > downloads[b].priority
  \/ downloads[a].priority = downloads[b].priority /\ a < b

ProcessQueue ==
  LET room == MaxConcurrent - activeCount
      queued == With("queued")
      first == {id \in queued : Cardinality({other \in queued : Before(other, id)}) < room}
  IN /\ downloads' = Turned(first, "downloading")
     /\ activeCount' = activeCount + Cardinality(first)
     /\ UNCHANGED <<nextId, leaked>>

Next ==
  \/ \E priority \in Priorities, status \in {"", "queued"} : AddDownload(priority, status)
  \/ \E id \in DownloadIds :
       \/ RemoveDownload(id) \/ StartDownload(id) \/ PauseDownload(id)
       \/ ResumeDownload(id) \/ CancelDownload(id)
  \/ PauseAll \/ ResumeAll \/ CancelAll
  \/ ProcessQueue

\* activeCount, which decides whether anything is started, is the number of active
\* downloads and of those that were removed while active: no sequence of single
\* and collective commands counts a download twice or loses one otherwise.
ActiveAccounted == activeCount = Cardinality(With("downloading")) + leaked
=============================================================================
