------------------------- MODULE DownloadServiceInv -------------------------
(***************************************************************************)
(* The inductive invariant of DownloadService, in named parts.             *)
(***************************************************************************)
EXTENDS DownloadService

\* The ids in memory are below the counter: a new download takes a free one.
IdsBelowCounter == \A id \in Ids : Live(id) => id < nextDownloadId

\* A session ends after its last request, and between sessions nothing is in
\* memory.
NothingWhenDown ==
  /\ service \in {"down", "stopping"} => api = "idle"
  /\ service = "down" => \A id \in Ids : ~Live(id)

\* A request in progress is about a download in memory and writes a row of the
\* same file.
RequestAboutTask ==
  /\ api # "idle" => Live(apiId)
  /\ api \in {"save", "update"} =>
       apiRow \in RowRecords /\ apiRow.file = tasks[apiId].file

\* What recovery has still to restart has a row and is not in memory yet.
UnfinishedHaveRows ==
  service = "recovering" =>
    \A id \in unfinished : rows[id] # NoRow /\ ~Live(id)

\* NothingForgotten, with what recovery has still to do.
NothingForgottenYet ==
  service \in {"recovering", "up"} /\ stored =>
    \A id \in Ids :
      rows[id] # NoRow /\ rows[id].status \notin {"failed", "cancelled"} =>
        \/ Live(id)
        \/ id \in skipped
        \/ service = "recovering" /\ id \in unfinished

IInv ==
  /\ TypeOK
  /\ IdsBelowCounter
  /\ NothingWhenDown
  /\ RequestAboutTask
  /\ RowMatchesTask
  /\ UnfinishedHaveRows
  /\ NothingForgottenYet
=============================================================================
