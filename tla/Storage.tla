------------------------------ MODULE Storage ------------------------------
(***************************************************************************)
(* StorageManager (src/src/storage/storage_manager.cpp): the database file *)
(* with its tables of downloads, segments and events, and the methods that *)
(* change them.  SQLite makes a statement atomic and durable; a method is  *)
(* one to three statements without a transaction around them, so that the  *)
(* statements of two callers interleave and a crash may fall between them. *)
(* Recovery (recoverUnfinishedDownloads, src/src/engine/download_engine.cpp) *)
(* is the one caller that reads rows, looks at the disk and writes back.   *)
(*                                                                         *)
(* A row keeps the columns the methods compare or compute: the status and  *)
(* downloaded_bytes.  The table of categories is in CategoryEngine's run;  *)
(* settings, an upsert of one row nobody else refers to, are left out.     *)
(***************************************************************************)
EXTENDS Integers, FiniteSets, Functions

CONSTANTS Callers,     \* threads of the process
          MaxId,       \* bound: ids of downloads
          MaxSegId,    \* bound: ids of segment rows
          Indexes,     \* segment_index of a segment
          Bytes,       \* values of downloaded_bytes: of part files and checkpoints,
          FirstBytes,  \* and of the records callers save
          Statuses,    \* of a download, as its callers write them
          MaxOps,      \* bound: method calls
          MaxOpens     \* bound: open()

Ids == 1..MaxId
SegIds == 1..MaxSegId
NoRow == [status |-> "none", bytes |-> 0]
NoSeg == [download |-> 0, index |-> 0, bytes |-> 0]
Idle == [at |-> "idle"]

ASSUME StorageAssumption ==
  /\ MaxId \in Nat \ {0} /\ MaxSegId \in Nat
  /\ Indexes \subseteq Nat /\ Bytes \subseteq Nat /\ FirstBytes \subseteq Bytes /\ 0 \in Bytes
  /\ Statuses \subseteq {"queued", "downloading", "paused", "completed", "failed",
                         "cancelled", "reconnecting"}
  /\ MaxOps \in Nat /\ MaxOpens \in Nat

VARIABLES
  handle,    \* "closed", "begun" or "applied" while migrate() runs, or "open"
  schema,    \* whether the file has the tables
  rows,      \* downloads
  segs,      \* segments
  events,    \* download_events: which download has which
  seq,       \* the AUTOINCREMENT counter of downloads
  segSeq,    \* and that of segments
  eventSeq,  \* and that of events
  lastRowid, \* of the connection: the id of the last INSERT of any caller
  part,      \* bytes in the part file of each segment, as recovery finds them
  call,      \* what each caller is in the middle of
  recovery,  \* recoverUnfinishedDownloads: the records it has still to write
  used,      \* history: ids that a row has had
  summed,    \* history: downloads whose row was last written by a checkpoint that
             \* came to its end or by recovery, and their segments by checkpoints
  counted,   \* history: downloads whose row holds what the last recovery counted
  ops, opens

counters == <<seq, segSeq, eventSeq, lastRowid>>
tables == <<rows, segs, events, counters>>
history == <<used, summed, counted>>
vars == <<handle, schema, rows, segs, events, seq, segSeq, eventSeq, lastRowid, part,
          call, recovery, used, summed, counted, ops, opens>>

Saved(id) == id \in Ids /\ rows[id] # NoRow
SegmentsOf(id) == {s \in SegIds : segs[s] # NoSeg /\ segs[s].download = id}
SumOfSegments(id) == SumFunction([s \in SegmentsOf(id) |-> segs[s].bytes])

Init ==
  /\ handle = "closed" /\ schema = FALSE
  /\ rows = [id \in Ids |-> NoRow] /\ segs = [s \in SegIds |-> NoSeg]
  /\ events = {} /\ seq = 0 /\ segSeq = 0 /\ eventSeq = 0 /\ lastRowid = 0
  /\ part = [f \in Ids \X Indexes |-> 0]
  /\ call = [c \in Callers |-> Idle] /\ recovery = {}
  /\ used = {} /\ summed = {} /\ counted = {}
  /\ ops = 0 /\ opens = 0

-----------------------------------------------------------------------------
(* open, migrate and close.                                                  *)

\* open() up to BEGIN IMMEDIATE, which migrate() leaves out when the file has
\* the current version.  An open that fails before that changes nothing.
Open ==
  /\ handle = "closed" /\ opens < MaxOpens
  /\ opens' = opens + 1
  /\ handle' = IF schema THEN "open" ELSE "begun"
  /\ UNCHANGED <<schema, tables, part, call, recovery, history, ops>>

ApplyMigration ==
  /\ handle = "begun"
  /\ handle' = "applied"
  /\ UNCHANGED <<schema, tables, part, call, recovery, history, ops, opens>>

CommitMigration ==
  /\ handle = "applied"
  /\ handle' = "open" /\ schema' = TRUE
  /\ UNCHANGED <<tables, part, call, recovery, history, ops, opens>>

\* A statement of the migration fails: rollback, and open() closes again.
Rollback ==
  /\ handle \in {"begun", "applied"}
  /\ handle' = "closed"
  /\ UNCHANGED <<schema, tables, part, call, recovery, history, ops, opens>>

Close ==
  /\ handle = "open" /\ recovery = {} /\ \A c \in Callers : call[c] = Idle
  /\ handle' = "closed"
  /\ UNCHANGED <<schema, tables, part, call, recovery, history, ops, opens>>

\* A checkpoint has written its segment and has still to sum up the row.
Writing(id) == \E c \in Callers : call[c].at = "sum" /\ call[c].id = id

\* The process ends between two statements.  An open transaction is undone,
\* and every statement that was done stays.
Crash ==
  /\ handle # "closed"
  /\ handle' = "closed"
  /\ call' = [c \in Callers |-> Idle] /\ recovery' = {}
  /\ summed' = {id \in summed : ~Writing(id)}
  /\ UNCHANGED <<schema, tables, part, used, counted, ops, opens>>

-----------------------------------------------------------------------------
(* The methods.                                                              *)

\* A caller starts a method; nothing else runs before recovery is through.
Starts(c) ==
  /\ handle = "open" /\ recovery = {} /\ call[c] = Idle
  /\ ops < MaxOps /\ ops' = ops + 1
  /\ UNCHANGED <<handle, schema, part, recovery, opens>>

Continues(c, at) ==
  /\ call[c].at = at
  /\ UNCHANGED <<handle, schema, part, recovery, ops, opens>>

Mentions(id) == {e \in events : e.download = id}

\* Mutant form of DeletedWith: foreign keys are not enforced.
NotCascaded(id) == /\ UNCHANGED <<segs, events>>

\* ON DELETE CASCADE of the two tables that refer to downloads.
DeletedWith(id) ==
  /\ segs' = [s \in SegIds |-> IF s \in SegmentsOf(id) THEN NoSeg ELSE segs[s]]
  /\ events' = events \ Mentions(id)

\* The columns url, file_name and save_path are NOT NULL, and an empty text is
\* bound as NULL.
Complete(record) == record.named

\* saveDownload, its INSERT OR REPLACE with an id of the caller's: a row that
\* was there is deleted, with all that refers to it, and inserted again.
SaveWithId(c, id, record) ==
  /\ Starts(c)
  /\ IF Complete(record)
     THEN /\ DeletedWith(id)
          /\ rows' = [rows EXCEPT ![id] = [status |-> record.status, bytes |-> record.bytes]]
          /\ seq' = IF seq < id THEN id ELSE seq
          /\ used' = used \cup {id}
          /\ summed' = summed \ {id} /\ counted' = counted \ {id}
          /\ lastRowid' = id
          /\ call' = [call EXCEPT ![c] = [at |-> "log", id |-> id, explicit |-> TRUE]]
          /\ UNCHANGED <<segSeq, eventSeq>>
     ELSE UNCHANGED <<tables, call, history>>

\* Mutant form of NextRowId: INTEGER PRIMARY KEY without AUTOINCREMENT.
LargestRowId == 1 + (IF \E id \in Ids : Saved(id)
                     THEN CHOOSE id \in Ids : Saved(id) /\ \A j \in Ids : Saved(j) => j <= id
                     ELSE 0)

NextRowId == seq + 1

\* saveDownload without an id: the database gives one.
SaveNew(c, record) ==
  /\ Starts(c)
  /\ NextRowId \in Ids
  /\ IF Complete(record)
     THEN /\ rows' = [rows EXCEPT ![NextRowId] = [status |-> record.status,
                                                  bytes |-> record.bytes]]
          /\ seq' = NextRowId /\ lastRowid' = NextRowId
          /\ used' = used \cup {NextRowId}
          /\ summed' = summed \ {NextRowId} /\ counted' = counted \ {NextRowId}
          /\ call' = [call EXCEPT ![c] = [at |-> "log", id |-> NextRowId,
                                          explicit |-> FALSE]]
          /\ UNCHANGED <<segs, events, segSeq, eventSeq>>
     ELSE UNCHANGED <<tables, call, history>>

\* logDownloadEvent: the foreign key refuses the event of a row that is not there.
Logged(id, type) ==
  IF Saved(id)
  THEN /\ events' = events \cup {[download |-> id, type |-> type]}
       /\ eventSeq' = eventSeq + 1 /\ lastRowid' = eventSeq + 1
  ELSE UNCHANGED <<events, eventSeq, lastRowid>>

\* What saveDownload returns: the row of its own, unless the id came from the
\* database and another caller has inserted something meanwhile.
SavedId(c) == IF call[c].explicit THEN call[c].id ELSE lastRowid

\* The end of saveDownload.
LogCreated(c) ==
  /\ Continues(c, "log")
  /\ Logged(SavedId(c), "created")
  /\ call' = [call EXCEPT ![c] = Idle]
  /\ UNCHANGED <<rows, segs, seq, segSeq, history>>

LogDownloadEvent(c, id, type) ==
  /\ Starts(c)
  /\ Logged(id, type)
  /\ UNCHANGED <<rows, segs, seq, segSeq, call, history>>

\* updateDownload: the whole record, if there is such a row.
UpdateDownload(c, id, record) ==
  /\ Starts(c)
  /\ IF Saved(id) /\ Complete(record)
     THEN /\ rows' = [rows EXCEPT ![id] = [status |-> record.status, bytes |-> record.bytes]]
          /\ summed' = summed \ {id} /\ counted' = counted \ {id}
     ELSE UNCHANGED <<rows, summed, counted>>
  /\ UNCHANGED <<segs, events, counters, call, used>>

UpdateDownloadStatus(c, id, status) ==
  /\ Starts(c)
  /\ rows' = IF Saved(id) THEN [rows EXCEPT ![id].status = status] ELSE rows
  /\ UNCHANGED <<segs, events, counters, call, history>>

DeleteDownload(c, id) ==
  /\ Starts(c) /\ Saved(id)
  /\ rows' = [rows EXCEPT ![id] = NoRow]
  /\ DeletedWith(id)
  /\ summed' = summed \ {id} /\ counted' = counted \ {id}
  /\ UNCHANGED <<counters, call, used>>

\* cleanupCompleted: events that are old enough, which time decides.
CleanupCompleted(c) ==
  /\ Starts(c)
  /\ \E old \in SUBSET events : events' = events \ old
  /\ UNCHANGED <<rows, segs, counters, call, history>>

\* The unique index on (download_id, segment_index).
Taken(id, index) == \E s \in SegmentsOf(id) : segs[s].index = index

SaveSegment(c, id, index, bytes) ==
  /\ Starts(c)
  /\ segSeq < MaxSegId
  /\ IF Saved(id) /\ ~Taken(id, index)
     THEN /\ segSeq' = segSeq + 1 /\ lastRowid' = segSeq + 1
          /\ segs' = [segs EXCEPT ![segSeq + 1] = [download |-> id, index |-> index,
                                                   bytes |-> bytes]]
          /\ summed' = summed \ {id} /\ counted' = counted \ {id}
     ELSE UNCHANGED <<segs, segSeq, lastRowid, summed, counted>>
  /\ UNCHANGED <<rows, events, seq, eventSeq, call, used>>

\* Mutant form of Addressed: without the parentheses around the disjunction.
AddressedAnywhere(id, segment) ==
  {s \in SegIds : segs[s] # NoSeg /\ \/ segs[s].download = id /\ segs[s].index = segment
                                     \/ s = segment}

\* The rows saveCheckpoint updates: the caller's number may be meant as the
\* index or as the id of the segment.
Addressed(id, segment) ==
  {s \in SegmentsOf(id) : segs[s].index = segment \/ s = segment}

\* saveCheckpoint, its first statement.
SaveCheckpoint(c, id, segment, bytes) ==
  /\ Starts(c)
  /\ segs' = [s \in SegIds |-> IF s \in Addressed(id, segment)
                               THEN [segs[s] EXCEPT !.bytes = bytes] ELSE segs[s]]
  /\ counted' = counted \ {id}
  /\ call' = [call EXCEPT ![c] = [at |-> "sum", id |-> id]]
  /\ UNCHANGED <<rows, events, counters, used, summed>>

\* Its second statement, which sums up the segments there are now.
SumUp(c) ==
  /\ Continues(c, "sum")
  /\ LET id == call[c].id IN
       IF Saved(id)
       THEN /\ rows' = [rows EXCEPT ![id].bytes = SumOfSegments(id)]
            /\ summed' = summed \cup {id}
            /\ counted' = counted \ {id}
       ELSE UNCHANGED <<rows, summed, counted>>
  /\ call' = [call EXCEPT ![c] = Idle]
  /\ UNCHANGED <<segs, events, counters, used>>

\* updateSegment: as the unique index allows.
UpdateSegment(c, s, index, bytes) ==
  /\ Starts(c)
  /\ segs[s] # NoSeg
  /\ LET id == segs[s].download IN
       IF segs[s].index = index \/ ~Taken(id, index)
       THEN /\ segs' = [segs EXCEPT ![s] = [@ EXCEPT !.index = index, !.bytes = bytes]]
            /\ summed' = summed \ {id} /\ counted' = counted \ {id}
       ELSE UNCHANGED <<segs, summed, counted>>
  /\ UNCHANGED <<rows, events, counters, call, used>>

-----------------------------------------------------------------------------
(* recoverUnfinishedDownloads, called once before anything else runs.        *)

Unfinished == {id \in Ids : rows[id].status \in {"downloading", "paused", "reconnecting",
                                                "queued"}}

StartRecovery ==
  /\ handle = "open" /\ recovery = {} /\ \A c \in Callers : call[c] = Idle
  /\ ops < MaxOps /\ ops' = ops + 1
  /\ recovery' = Unfinished /\ Unfinished # {}
  /\ part' \in [Ids \X Indexes -> Bytes]
  /\ counted' = {}
  /\ UNCHANGED <<handle, schema, tables, call, used, summed, opens>>

\* Mutant form of OutOfDate: the disk is believed only where it has more.
BehindDisk(s) == segs[s].bytes < part[<<segs[s].download, segs[s].index>>]

\* The segment whose row differs from its part file.
OutOfDate(s) == segs[s].bytes # part[<<segs[s].download, segs[s].index>>]

\* The disk is the source of truth: updateSegment for each row that differs.
RecoverSegment(s) ==
  /\ segs[s].download \in recovery /\ OutOfDate(s)
  /\ LET id == segs[s].download IN
       /\ segs' = [segs EXCEPT ![s].bytes = part[<<id, segs[s].index>>]]
       /\ summed' = summed \ {id} /\ counted' = counted \ {id}
  /\ UNCHANGED <<handle, schema, rows, events, counters, part, call, recovery, used, ops,
                 opens>>

\* Then updateDownload with what they add up to.
RecoverRow(id) ==
  /\ id \in recovery /\ \A s \in SegmentsOf(id) : ~OutOfDate(s)
  /\ rows' = [rows EXCEPT ![id] = [status |-> "queued", bytes |-> SumOfSegments(id)]]
  /\ recovery' = recovery \ {id}
  /\ summed' = summed \cup {id} /\ counted' = counted \cup {id}
  /\ UNCHANGED <<handle, schema, segs, events, counters, part, call, used, ops, opens>>

-----------------------------------------------------------------------------
Record == [named : BOOLEAN, status : Statuses, bytes : FirstBytes]

\* One method call of c, or the rest of one.
Step(c) ==
  \/ \E record \in Record :
       \/ SaveNew(c, record)
       \/ \E id \in Ids : SaveWithId(c, id, record) \/ UpdateDownload(c, id, record)
  \/ LogCreated(c)
  \/ SumUp(c)
  \/ CleanupCompleted(c)
  \/ \E id \in Ids :
       \/ \E status \in Statuses : UpdateDownloadStatus(c, id, status)
       \/ LogDownloadEvent(c, id, "started")
       \/ DeleteDownload(c, id)
       \/ \E index \in Indexes, bytes \in FirstBytes : SaveSegment(c, id, index, bytes)
       \/ \E segment \in Indexes \cup SegIds, bytes \in Bytes :
            SaveCheckpoint(c, id, segment, bytes)
  \/ \E s \in SegIds, index \in Indexes, bytes \in Bytes : UpdateSegment(c, s, index, bytes)

Next ==
  \/ Open \/ ApplyMigration \/ CommitMigration \/ Rollback \/ Close \/ Crash
  \/ \E c \in Callers : Step(c)
  \/ StartRecovery
  \/ \E s \in SegIds : RecoverSegment(s)
  \/ \E id \in Ids : RecoverRow(id)

Spec == Init /\ [][Next]_vars

-----------------------------------------------------------------------------
(* Properties.                                                               *)

\* Every variable has its type.
TypeOK ==
  /\ handle \in {"closed", "begun", "applied", "open"} /\ schema \in BOOLEAN
  /\ rows \in [Ids -> [status : Statuses \cup {"none", "queued"}, bytes : Nat]]
  /\ segs \in [SegIds -> [download : Ids, index : Indexes, bytes : Bytes] \cup {NoSeg}]
  /\ events \subseteq [download : Ids, type : {"created", "started"}]
  /\ seq \in 0..MaxId /\ segSeq \in 0..MaxSegId
  /\ eventSeq \in Nat /\ lastRowid \in Nat
  /\ part \in [Ids \X Indexes -> Bytes]
  /\ call \in [Callers -> {Idle} \cup [at : {"log"}, id : Ids, explicit : BOOLEAN]
                               \cup [at : {"sum"}, id : Ids]]
  /\ recovery \subseteq Ids
  /\ used \subseteq Ids /\ summed \subseteq Ids /\ counted \subseteq Ids
  /\ ops \in 0..MaxOps /\ opens \in 0..MaxOpens

\* Every segment row and every event belongs to a row of downloads, whatever was
\* deleted or replaced between the statements of another caller (PRAGMA
\* foreign_keys and the ON DELETE CASCADE of the schema).
ReferencesHold ==
  /\ \A s \in SegIds : segs[s] # NoSeg => Saved(segs[s].download)
  /\ \A e \in events : Saved(e.download)

\* The AUTOINCREMENT counters are past every id in use and past every id that a
\* download has had.
CountersAhead ==
  /\ \A id \in Ids : Saved(id) => id \in used
  /\ \A id \in used : id <= seq
  /\ \A s \in SegIds : segs[s] # NoSeg => s <= segSeq

\* An id the database gives to a new download has never been the id of another
\* one, deleted ones and those saved with an id of the caller's included: an event
\* still to be logged for an old download never goes to a new one (AUTOINCREMENT).
NewIdsAreNew ==
  [][\A c \in Callers :
       /\ call[c] = Idle
       /\ call'[c].at = "log"
       => call'[c].explicit \/ call'[c].id \notin used]_vars

\* Once a checkpoint has come to its end, or recovery has written the row, the row's
\* downloaded_bytes is the sum of its segments whenever no checkpoint of it is
\* between its two statements: also when those of two checkpoints interleave, when
\* one of another download names a segment by an index or an id of this one's, and
\* after a crash, except for the downloads whose own checkpoint the crash cut in two.
\* Their rows stay behind until the next checkpoint or recovery has summed them up.
\* Nothing is said once another method has written the row or one of its segments.
ProgressAddsUp ==
  \A id \in summed : ~Writing(id) => rows[id].bytes = SumOfSegments(id)

\* After recovery the row holds the bytes that the part files of its recorded
\* segments have, whatever the last session had written or had not yet written.
RecoveredIsOnDisk ==
  \A id \in counted :
    rows[id].bytes = SumFunction([s \in SegmentsOf(id) |-> part[<<id, segs[s].index>>]])
=============================================================================
