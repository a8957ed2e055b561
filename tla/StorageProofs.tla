---------------------------- MODULE StorageProofs ----------------------------
(***************************************************************************)
(* Proofs about Storage: references hold, ids given by the database are    *)
(* new, and downloaded_bytes is the sum it is meant to be.  What a sum is  *)
(* worth is never asked: two sums are equal because they add up the same   *)
(* function, so that RefInv leaves the values of downloaded_bytes open.    *)
(***************************************************************************)
EXTENDS Storage, TLAPS

\* A row of downloads is a record, and only NoRow has the status "none".
RowsShaped ==
  /\ rows = [id \in Ids |-> rows[id]]
  /\ \A id \in Ids : /\ rows[id] = [status |-> rows[id].status, bytes |-> rows[id].bytes]
                     /\ rows[id] # NoRow => rows[id].status # "none"

Shapes ==
  /\ RowsShaped
  /\ segs \in [SegIds -> [download : Ids, index : Indexes, bytes : Bytes] \cup {NoSeg}]
  /\ part \in [Ids \X Indexes -> Bytes]
  /\ seq \in Nat /\ segSeq \in Nat /\ eventSeq \in Nat
  /\ call \in [Callers -> {Idle} \cup [at : {"log"}, id : Ids, explicit : BOOLEAN]
                               \cup [at : {"sum"}, id : Ids]]
  /\ recovery \subseteq {id \in Ids : Saved(id)} /\ used \subseteq Ids

RefInv == Shapes /\ ReferencesHold /\ CountersAhead

\* A row that is written with one of the statuses of the program is a saved row.
LEMMA RecordShaped ==
  ASSUME NEW record \in Record
  PROVE  record.status # "none" /\ record.bytes \in Bytes
BY StorageAssumption DEF Record

\* A segment row has a download that exists.
LEMMA SegmentShaped ==
  ASSUME RefInv, NEW s \in SegIds, segs[s] # NoSeg
  PROVE  /\ segs[s] \in [download : Ids, index : Indexes, bytes : Bytes]
         /\ Saved(segs[s].download)
BY DEF RefInv, Shapes, ReferencesHold

\* No id in use is beyond the AUTOINCREMENT counter.
LEMMA UsedBounded ==
  ASSUME RefInv
  PROVE  seq \in Nat /\ \A id \in used : id \in Nat /\ id <= seq
<1>1. seq \in Nat /\ used \subseteq Ids BY DEF RefInv, Shapes
<1>2. \A id \in Ids : id \in Nat BY StorageAssumption DEF Ids
<1>3. \A id \in used : id <= seq BY DEF RefInv, CountersAhead
<1>4. QED BY <1>1, <1>2, <1>3

\* A statement that writes one row leaves the others, and the row is saved.
LEMMA WrittenRow ==
  ASSUME RefInv, NEW i \in Ids, NEW st, NEW b, st # "none",
         rows' = [rows EXCEPT ![i] = [status |-> st, bytes |-> b]]
  PROVE  /\ RowsShaped' /\ Saved(i)'
         /\ \A id \in Ids : Saved(id) => Saved(id)'
         /\ \A id \in Ids : Saved(id)' => Saved(id) \/ id = i
<1>1. \A id \in Ids : rows'[id] = IF id = i THEN [status |-> st, bytes |-> b] ELSE rows[id]
  BY DEF RefInv, Shapes, RowsShaped
<1>2. DOMAIN rows = Ids BY DEF RefInv, Shapes, RowsShaped
<1>3. rows' = [id \in Ids |-> rows'[id]] BY <1>2
<1>4. [status |-> st, bytes |-> b] # NoRow BY DEF NoRow
<1>5. \A id \in Ids : /\ rows'[id] = [status |-> rows'[id].status, bytes |-> rows'[id].bytes]
                      /\ rows'[id] # NoRow => rows'[id].status # "none"
  <2> TAKE id \in Ids
  <2>1. CASE id = i BY <1>1, <2>1
  <2>2. CASE id # i BY <1>1, <2>2 DEF RefInv, Shapes, RowsShaped
  <2>3. QED BY <2>1, <2>2
<1>6. RowsShaped' BY <1>3, <1>5 DEF RowsShaped
<1>7. QED BY <1>1, <1>4, <1>6 DEF Saved

\* So does one that changes a column of a saved row.
LEMMA ChangedColumn ==
  ASSUME RefInv, NEW i \in Ids, Saved(i), NEW x,
         \/ rows' = [rows EXCEPT ![i].bytes = x]
         \/ rows' = [rows EXCEPT ![i].status = x] /\ x # "none"
  PROVE  RowsShaped' /\ \A id \in Ids : Saved(id) <=> Saved(id)'
<1>1. /\ rows[i] = [status |-> rows[i].status, bytes |-> rows[i].bytes]
      /\ rows[i].status # "none" /\ DOMAIN rows = Ids
  BY DEF RefInv, Shapes, RowsShaped, Saved
<1>2. \/ rows' = [rows EXCEPT ![i] = [status |-> rows[i].status, bytes |-> x]]
      \/ rows' = [rows EXCEPT ![i] = [status |-> x, bytes |-> rows[i].bytes]] /\ x # "none"
  BY <1>1
<1>3. RowsShaped' /\ Saved(i)' /\ (\A id \in Ids : Saved(id) => Saved(id)')
      /\ (\A id \in Ids : Saved(id)' => Saved(id) \/ id = i)
  BY <1>1, <1>2, WrittenRow
<1>4. QED BY <1>3

\* A statement that writes neither rows nor segments nor events.
LEMMA TablesStay ==
  ASSUME RefInv, UNCHANGED tables, UNCHANGED used,
         call' \in [Callers -> {Idle} \cup [at : {"log"}, id : Ids, explicit : BOOLEAN]
                                      \cup [at : {"sum"}, id : Ids]],
         recovery' \subseteq {id \in Ids : Saved(id)}, part' \in [Ids \X Indexes -> Bytes]
  PROVE  RefInv'
BY DEF RefInv, Shapes, RowsShaped, ReferencesHold, CountersAhead, Saved, tables, counters

\* Deleting or replacing a download leaves segments and events of others only.
LEMMA OthersStay ==
  ASSUME RefInv, NEW id \in Ids, DeletedWith(id)
  PROVE  /\ segs' \in [SegIds -> [download : Ids, index : Indexes, bytes : Bytes] \cup {NoSeg}]
         /\ \A s \in SegIds : segs'[s] # NoSeg =>
              /\ segs'[s] = segs[s] /\ segs[s].download # id /\ Saved(segs[s].download)
         /\ \A e \in events' : e \in events /\ e.download # id /\ Saved(e.download)
<1>1. segs \in [SegIds -> [download : Ids, index : Indexes, bytes : Bytes] \cup {NoSeg}]
  BY DEF RefInv, Shapes
<1>2. \A s \in SegIds : segs'[s] = IF s \in SegmentsOf(id) THEN NoSeg ELSE segs[s]
  BY DEF DeletedWith
<1>3. segs' \in [SegIds -> [download : Ids, index : Indexes, bytes : Bytes] \cup {NoSeg}]
  BY <1>1 DEF DeletedWith
<1>4. \A s \in SegIds : segs'[s] # NoSeg =>
        /\ segs'[s] = segs[s] /\ segs[s].download # id /\ Saved(segs[s].download)
  BY <1>1, <1>2 DEF SegmentsOf, RefInv, ReferencesHold
<1>5. \A e \in events' : e \in events /\ e.download # id /\ Saved(e.download)
  BY DEF DeletedWith, Mentions, RefInv, ReferencesHold
<1>6. QED BY <1>3, <1>4, <1>5

\* INSERT OR REPLACE, whose cascade removes the old row's segments and events.
LEMMA SaveWithIdStep ==
  ASSUME RefInv, NEW c \in Callers, NEW id \in Ids, NEW record \in Record,
         SaveWithId(c, id, record)
  PROVE  RefInv'
<1>1. UNCHANGED <<recovery, part>> BY DEF SaveWithId, Starts
<1>2. CASE ~Complete(record)
  <2>1. UNCHANGED <<tables, call, used>> BY <1>2 DEF SaveWithId, history
  <2>2. QED BY <1>1, <2>1, TablesStay DEF RefInv, Shapes
<1>3. CASE Complete(record)
  <2>1. /\ DeletedWith(id)
        /\ rows' = [rows EXCEPT ![id] = [status |-> record.status, bytes |-> record.bytes]]
        /\ seq' = IF seq < id THEN id ELSE seq
        /\ used' = used \cup {id}
        /\ call' = [call EXCEPT ![c] = [at |-> "log", id |-> id, explicit |-> TRUE]]
        /\ UNCHANGED <<segSeq, eventSeq>>
    BY <1>3 DEF SaveWithId
  <2>2. /\ RowsShaped' /\ Saved(id)'
        /\ \A i \in Ids : Saved(i) => Saved(i)'
        /\ \A i \in Ids : Saved(i)' => Saved(i) \/ i = id
    BY <2>1, RecordShaped, WrittenRow
  <2>3. /\ segs' \in [SegIds -> [download : Ids, index : Indexes, bytes : Bytes] \cup {NoSeg}]
        /\ \A s \in SegIds : segs'[s] # NoSeg =>
             segs'[s] = segs[s] /\ segs[s].download # id /\ Saved(segs[s].download)
        /\ \A e \in events' : e \in events /\ e.download # id /\ Saved(e.download)
    BY <2>1, OthersStay
  <2>4. seq' \in Nat /\ seq <= seq' /\ id <= seq'
    BY <2>1, StorageAssumption DEF RefInv, Shapes, Ids
  <2>5. Shapes'
    BY <1>1, <2>1, <2>2, <2>3, <2>4 DEF RefInv, Shapes
  <2>6. ReferencesHold' BY <2>2, <2>3 DEF ReferencesHold, Saved
  <2>7. CountersAhead'
    <3>1. \A i \in Ids : Saved(i)' => i \in used'
      BY <2>1, <2>2 DEF RefInv, CountersAhead
    <3>2. \A i \in used' : i <= seq'
      BY <2>1, <2>4, UsedBounded
    <3>3. \A s \in SegIds : segs'[s] # NoSeg => s <= segSeq'
      BY <2>1, <2>3 DEF RefInv, CountersAhead
    <3>4. QED BY <3>1, <3>2, <3>3 DEF CountersAhead
  <2>8. QED BY <2>5, <2>6, <2>7 DEF RefInv
<1>4. QED BY <1>2, <1>3

\* INSERT without an id, which takes the next one of the counter.
LEMMA SaveNewStep ==
  ASSUME RefInv, NEW c \in Callers, NEW record \in Record, SaveNew(c, record)
  PROVE  RefInv'
<1>1. UNCHANGED <<recovery, part>> /\ NextRowId \in Ids BY DEF SaveNew, Starts
<1>2. CASE ~Complete(record)
  <2>1. UNCHANGED <<tables, call, used>> BY <1>2 DEF SaveNew, history
  <2>2. QED BY <1>1, <2>1, TablesStay DEF RefInv, Shapes
<1>3. CASE Complete(record)
  <2>0. PICK id \in Ids : id = NextRowId BY <1>1
  <2>1. /\ rows' = [rows EXCEPT ![id] = [status |-> record.status, bytes |-> record.bytes]]
        /\ seq' = id
        /\ used' = used \cup {id}
        /\ call' = [call EXCEPT ![c] = [at |-> "log", id |-> id, explicit |-> FALSE]]
        /\ UNCHANGED <<segs, events, segSeq, eventSeq>>
    BY <1>3, <2>0 DEF SaveNew
  <2>2. id \in Ids /\ id = seq + 1 BY <2>0 DEF NextRowId
  <2>3. /\ RowsShaped' /\ Saved(id)'
        /\ \A i \in Ids : Saved(i) => Saved(i)'
        /\ \A i \in Ids : Saved(i)' => Saved(i) \/ i = id
    BY <2>1, <2>2, RecordShaped, WrittenRow
  <2>4. seq' \in Nat /\ seq <= seq'
    BY <2>1, <2>2 DEF RefInv, Shapes
  <2>5. Shapes'
    BY <1>1, <2>1, <2>2, <2>3, <2>4 DEF RefInv, Shapes
  <2>6. ReferencesHold'
    BY <2>1, <2>3 DEF RefInv, ReferencesHold, Saved
  <2>7. CountersAhead'
    <3>1. \A i \in Ids : Saved(i)' => i \in used'
      BY <2>1, <2>3 DEF RefInv, CountersAhead
    <3>2. \A i \in used' : i <= seq'
      BY <2>1, <2>2, <2>4, UsedBounded
    <3>3. \A s \in SegIds : segs'[s] # NoSeg => s <= segSeq'
      BY <2>1 DEF RefInv, CountersAhead
    <3>4. QED BY <3>1, <3>2, <3>3 DEF CountersAhead
  <2>8. QED BY <2>5, <2>6, <2>7 DEF RefInv
<1>4. QED BY <1>2, <1>3

\* The foreign key of the events.
LEMMA LoggedStep ==
  ASSUME RefInv, NEW id, NEW type, Logged(id, type), UNCHANGED <<rows, segs, seq, segSeq, used>>,
         call' \in [Callers -> {Idle} \cup [at : {"log"}, id : Ids, explicit : BOOLEAN]
                                      \cup [at : {"sum"}, id : Ids]],
         UNCHANGED <<recovery, part>>
  PROVE  RefInv'
<1>1. eventSeq' \in Nat BY DEF Logged, RefInv, Shapes
<1>2. \A e \in events' : Saved(e.download)
  BY DEF Logged, RefInv, ReferencesHold
<1>3. Shapes' BY <1>1 DEF RefInv, Shapes, RowsShaped, Saved
<1>4. ReferencesHold' BY <1>2 DEF RefInv, ReferencesHold, Saved
<1>5. CountersAhead' BY DEF RefInv, CountersAhead, Saved
<1>6. QED BY <1>3, <1>4, <1>5 DEF RefInv

\* Rows change, but the same ids have one.
LEMMA RowsStaySaved ==
  ASSUME RefInv, RowsShaped', \A id \in Ids : Saved(id) <=> Saved(id)',
         UNCHANGED <<segs, events, seq, segSeq, eventSeq, used, part>>,
         call' \in [Callers -> {Idle} \cup [at : {"log"}, id : Ids, explicit : BOOLEAN]
                                      \cup [at : {"sum"}, id : Ids]],
         recovery' \subseteq {id \in Ids : Saved(id)}
  PROVE  RefInv'
<1>1. Shapes' BY DEF RefInv, Shapes, Saved
<1>2. ReferencesHold' BY DEF RefInv, ReferencesHold, Saved
<1>3. CountersAhead' BY DEF RefInv, CountersAhead
<1>4. QED BY <1>1, <1>2, <1>3 DEF RefInv

\* Segments change their columns, and none is added or moved to another download.
LEMMA SegmentsStayOwned ==
  ASSUME RefInv,
         segs' \in [SegIds -> [download : Ids, index : Indexes, bytes : Bytes] \cup {NoSeg}],
         \A s \in SegIds : segs'[s] # NoSeg =>
           segs[s] # NoSeg /\ segs'[s].download = segs[s].download,
         UNCHANGED <<rows, events, seq, segSeq, eventSeq, used, part, recovery>>,
         call' \in [Callers -> {Idle} \cup [at : {"log"}, id : Ids, explicit : BOOLEAN]
                                      \cup [at : {"sum"}, id : Ids]]
  PROVE  RefInv'
<1>1. Shapes' BY DEF RefInv, Shapes, RowsShaped, Saved
<1>2. ReferencesHold' BY DEF RefInv, ReferencesHold, Saved
<1>3. CountersAhead' BY DEF RefInv, CountersAhead, Saved
<1>4. QED BY <1>1, <1>2, <1>3 DEF RefInv

\* The two updates of a row of downloads.
LEMMA UpdateStep ==
  ASSUME RefInv, NEW c \in Callers, NEW id \in Ids
  PROVE  /\ \A record \in Record : UpdateDownload(c, id, record) => RefInv'
         /\ \A status \in Statuses : UpdateDownloadStatus(c, id, status) => RefInv'
<1>1. ASSUME NEW record \in Record, UpdateDownload(c, id, record)
      PROVE  RefInv'
  <2>1. UNCHANGED <<recovery, part, segs, events, seq, segSeq, eventSeq, lastRowid, call, used>>
    BY <1>1 DEF UpdateDownload, Starts, counters
  <2>2. CASE Saved(id) /\ Complete(record)
    <3>1. rows' = [rows EXCEPT ![id] = [status |-> record.status, bytes |-> record.bytes]]
      BY <1>1, <2>2 DEF UpdateDownload
    <3>2. RowsShaped' /\ \A i \in Ids : Saved(i) <=> Saved(i)'
      BY <2>2, <3>1, RecordShaped, WrittenRow
    <3>3. QED BY <2>1, <3>2, RowsStaySaved DEF RefInv, Shapes
  <2>3. CASE ~(Saved(id) /\ Complete(record))
    <3>1. UNCHANGED tables BY <1>1, <2>1, <2>3 DEF UpdateDownload, tables, counters
    <3>2. QED BY <2>1, <3>1, TablesStay DEF RefInv, Shapes
  <2>4. QED BY <2>2, <2>3
<1>2. ASSUME NEW status \in Statuses, UpdateDownloadStatus(c, id, status)
      PROVE  RefInv'
  <2>1. UNCHANGED <<recovery, part, segs, events, seq, segSeq, eventSeq, lastRowid, call, used>>
    BY <1>2 DEF UpdateDownloadStatus, Starts, counters, history
  <2>2. CASE Saved(id)
    <3>1. rows' = [rows EXCEPT ![id].status = status] /\ status # "none"
      BY <1>2, <2>2, StorageAssumption DEF UpdateDownloadStatus
    <3>2. RowsShaped' /\ \A i \in Ids : Saved(i) <=> Saved(i)'
      BY <2>2, <3>1, ChangedColumn
    <3>3. QED BY <2>1, <3>2, RowsStaySaved DEF RefInv, Shapes
  <2>3. CASE ~Saved(id)
    <3>1. UNCHANGED tables BY <1>2, <2>1, <2>3 DEF UpdateDownloadStatus, tables, counters
    <3>2. QED BY <2>1, <3>1, TablesStay DEF RefInv, Shapes
  <2>4. QED BY <2>2, <2>3
<1>3. QED BY <1>1, <1>2

\* DELETE of a row with its cascade.
LEMMA DeleteStep ==
  ASSUME RefInv, NEW c \in Callers, NEW id \in Ids, DeleteDownload(c, id)
  PROVE  RefInv'
<1>1. /\ rows' = [rows EXCEPT ![id] = NoRow] /\ DeletedWith(id)
      /\ UNCHANGED <<recovery, part, seq, segSeq, eventSeq, call, used>>
  BY DEF DeleteDownload, Starts, counters
<1>2. \A i \in Ids : rows'[i] = IF i = id THEN NoRow ELSE rows[i]
  BY <1>1 DEF RefInv, Shapes, RowsShaped
<1>3. rows' = [i \in Ids |-> rows'[i]] BY <1>1 DEF RefInv, Shapes, RowsShaped
<1>4. \A i \in Ids : /\ rows'[i] = [status |-> rows'[i].status, bytes |-> rows'[i].bytes]
                     /\ rows'[i] # NoRow => rows'[i].status # "none"
  <2> TAKE i \in Ids
  <2>1. CASE i = id BY <1>2, <2>1 DEF NoRow
  <2>2. CASE i # id BY <1>2, <2>2 DEF RefInv, Shapes, RowsShaped
  <2>3. QED BY <2>1, <2>2
<1>5. RowsShaped' BY <1>3, <1>4 DEF RowsShaped
<1>6. \A i \in Ids : Saved(i)' <=> Saved(i) /\ i # id BY <1>2 DEF Saved
<1>7. /\ segs' \in [SegIds -> [download : Ids, index : Indexes, bytes : Bytes] \cup {NoSeg}]
      /\ \A s \in SegIds : segs'[s] # NoSeg =>
           segs'[s] = segs[s] /\ segs[s].download # id /\ Saved(segs[s].download)
      /\ \A e \in events' : e \in events /\ e.download # id /\ Saved(e.download)
  BY <1>1, OthersStay
<1>8. Shapes'
  <2>1. recovery = {} BY DEF DeleteDownload, Starts
  <2>2. QED BY <1>1, <1>5, <1>7, <2>1 DEF RefInv, Shapes
<1>9. ReferencesHold' BY <1>2, <1>7 DEF ReferencesHold, Saved
<1>10. CountersAhead' BY <1>1, <1>6, <1>7 DEF RefInv, CountersAhead
<1>11. QED BY <1>8, <1>9, <1>10 DEF RefInv

\* DELETE of every completed download with its cascade.
LEMMA CleanupStep ==
  ASSUME RefInv, NEW c \in Callers, CleanupCompleted(c)
  PROVE  RefInv'
<1>1. UNCHANGED <<rows, segs, seq, segSeq, eventSeq, used, part, recovery, call>>
      /\ events' \subseteq events
  BY DEF CleanupCompleted, Starts, counters, history
<1>2. Shapes' BY <1>1 DEF RefInv, Shapes, RowsShaped, Saved
<1>3. ReferencesHold' BY <1>1 DEF RefInv, ReferencesHold, Saved
<1>4. CountersAhead' BY <1>1 DEF RefInv, CountersAhead, Saved
<1>5. QED BY <1>2, <1>3, <1>4 DEF RefInv

\* INSERT of a segment, which fails if its place is taken.
LEMMA SaveSegmentStep ==
  ASSUME RefInv, NEW c \in Callers, NEW id \in Ids, NEW index \in Indexes,
         NEW bytes \in FirstBytes, SaveSegment(c, id, index, bytes)
  PROVE  RefInv'
<1>1. /\ UNCHANGED <<recovery, part, rows, events, seq, eventSeq, call, used>>
      /\ segSeq < MaxSegId
  BY DEF SaveSegment, Starts
<1>2. CASE Saved(id) /\ ~Taken(id, index)
  <2>1. /\ segSeq' = segSeq + 1
        /\ segs' = [segs EXCEPT ![segSeq + 1] = [download |-> id, index |-> index,
                                                 bytes |-> bytes]]
    BY <1>2 DEF SaveSegment
  <2>2. segSeq + 1 \in SegIds BY <1>1, StorageAssumption DEF RefInv, Shapes, SegIds
  <2>3. \A s \in SegIds : segs'[s] = IF s = segSeq + 1
                                     THEN [download |-> id, index |-> index, bytes |-> bytes]
                                     ELSE segs[s]
    BY <2>1, <2>2 DEF RefInv, Shapes
  <2>4. bytes \in Bytes BY StorageAssumption
  <2>5. segs' \in [SegIds -> [download : Ids, index : Indexes, bytes : Bytes] \cup {NoSeg}]
    BY <2>1, <2>2, <2>4 DEF RefInv, Shapes
  <2>6. Shapes'
    <3>1. RowsShaped' /\ recovery' \subseteq {i \in Ids : Saved(i)'}
      BY <1>1 DEF RefInv, Shapes, RowsShaped, Saved
    <3>2. segSeq' \in Nat BY <2>1 DEF RefInv, Shapes
    <3>3. QED BY <1>1, <2>5, <3>1, <3>2 DEF RefInv, Shapes
  <2>7. ReferencesHold'
    <3>1. \A s \in SegIds : segs'[s] # NoSeg => Saved(segs'[s].download)
      BY <1>2, <2>3 DEF RefInv, ReferencesHold
    <3>2. QED BY <1>1, <3>1 DEF RefInv, ReferencesHold, Saved
  <2>8. CountersAhead'
    <3>1. segSeq \in Nat /\ \A s \in SegIds : s \in Nat
      BY StorageAssumption DEF RefInv, Shapes, SegIds
    <3>2. \A s \in SegIds : segs[s] # NoSeg => s <= segSeq BY DEF RefInv, CountersAhead
    <3>3. \A s \in SegIds : segs'[s] # NoSeg => s <= segSeq'
      BY <2>1, <2>3, <3>1, <3>2
    <3>4. QED BY <1>1, <3>3 DEF RefInv, CountersAhead, Saved
  <2>9. QED BY <2>6, <2>7, <2>8 DEF RefInv
<1>3. CASE ~(Saved(id) /\ ~Taken(id, index))
  <2>1. UNCHANGED <<segs, segSeq, lastRowid>> BY <1>3 DEF SaveSegment
  <2>2. UNCHANGED tables BY <1>1, <2>1 DEF tables, counters
  <2>3. QED BY <1>1, <2>2, TablesStay DEF RefInv, Shapes
<1>4. QED BY <1>2, <1>3

\* The first statement of a checkpoint, an update of the segments addressed.
LEMMA SaveCheckpointStep ==
  ASSUME RefInv, NEW c \in Callers, NEW id \in Ids, NEW segment, NEW bytes \in Bytes,
         SaveCheckpoint(c, id, segment, bytes)
  PROVE  RefInv'
<1>1. /\ UNCHANGED <<rows, events, seq, segSeq, eventSeq, used, part, recovery>>
      /\ call' = [call EXCEPT ![c] = [at |-> "sum", id |-> id]]
      /\ segs' = [s \in SegIds |-> IF s \in Addressed(id, segment)
                                   THEN [segs[s] EXCEPT !.bytes = bytes] ELSE segs[s]]
  BY DEF SaveCheckpoint, Starts, counters
<1>2. \A s \in Addressed(id, segment) :
        s \in SegIds /\ segs[s] \in [download : Ids, index : Indexes, bytes : Bytes]
  BY SegmentShaped DEF Addressed, SegmentsOf
<1>3. \A s \in SegIds : segs'[s] \in [download : Ids, index : Indexes, bytes : Bytes]
                                     \cup {NoSeg}
  <2> TAKE s \in SegIds
  <2>1. CASE s \in Addressed(id, segment) BY <1>1, <1>2, <2>1
  <2>2. CASE s \notin Addressed(id, segment) BY <1>1, <2>2 DEF RefInv, Shapes
  <2>3. QED BY <2>1, <2>2
<1>4. segs' \in [SegIds -> [download : Ids, index : Indexes, bytes : Bytes] \cup {NoSeg}]
  BY <1>1, <1>3
<1>5. \A s \in SegIds : segs'[s] # NoSeg =>
        segs[s] # NoSeg /\ segs'[s].download = segs[s].download
  <2> TAKE s \in SegIds
  <2>1. CASE s \in Addressed(id, segment)
    BY <1>1, <1>2, <2>1 DEF Addressed, SegmentsOf
  <2>2. CASE s \notin Addressed(id, segment) BY <1>1, <2>2
  <2>3. QED BY <2>1, <2>2
<1>6. call' \in [Callers -> {Idle} \cup [at : {"log"}, id : Ids, explicit : BOOLEAN]
                                   \cup [at : {"sum"}, id : Ids]]
  BY <1>1 DEF RefInv, Shapes
<1>7. QED BY <1>1, <1>4, <1>5, <1>6, SegmentsStayOwned

\* One segment row takes new values for its index and its bytes.
LEMMA ChangedSegment ==
  ASSUME RefInv, NEW s \in SegIds, segs[s] # NoSeg,
         NEW row \in [download : Ids, index : Indexes, bytes : Bytes],
         row.download = segs[s].download,
         segs' = [segs EXCEPT ![s] = row],
         UNCHANGED <<rows, events, seq, segSeq, eventSeq, used, part, recovery, call>>
  PROVE  RefInv'
<1>1. segs \in [SegIds -> [download : Ids, index : Indexes, bytes : Bytes] \cup {NoSeg}]
  BY DEF RefInv, Shapes
<1>2. segs' \in [SegIds -> [download : Ids, index : Indexes, bytes : Bytes] \cup {NoSeg}]
  BY <1>1
<1>3. \A t \in SegIds : segs'[t] # NoSeg =>
        segs[t] # NoSeg /\ segs'[t].download = segs[t].download
  BY <1>1
<1>4. call' \in [Callers -> {Idle} \cup [at : {"log"}, id : Ids, explicit : BOOLEAN]
                                   \cup [at : {"sum"}, id : Ids]]
  BY DEF RefInv, Shapes
<1>5. QED BY <1>2, <1>3, <1>4, SegmentsStayOwned

\* The update of one segment row.
LEMMA UpdateSegmentStep ==
  ASSUME RefInv, NEW c \in Callers, NEW s \in SegIds, NEW index \in Indexes,
         NEW bytes \in Bytes, UpdateSegment(c, s, index, bytes)
  PROVE  RefInv'
<1>1. /\ UNCHANGED <<rows, events, seq, segSeq, eventSeq, lastRowid, used, part, recovery, call>>
      /\ segs[s] # NoSeg
  BY DEF UpdateSegment, Starts, counters
<1>2. \/ segs' = [segs EXCEPT ![s] = [@ EXCEPT !.index = index, !.bytes = bytes]]
      \/ UNCHANGED segs
  BY DEF UpdateSegment
<1>3. CASE segs' = [segs EXCEPT ![s] = [@ EXCEPT !.index = index, !.bytes = bytes]]
  <2>1. segs[s] \in [download : Ids, index : Indexes, bytes : Bytes] BY <1>1, SegmentShaped
  <2>2. PICK row : row = [segs[s] EXCEPT !.index = index, !.bytes = bytes] OBVIOUS
  <2>3. row = [download |-> segs[s].download, index |-> index, bytes |-> bytes]
    BY <2>1, <2>2
  <2>4. /\ row \in [download : Ids, index : Indexes, bytes : Bytes]
        /\ row.download = segs[s].download
    BY <2>1, <2>3
  <2>5. segs' = [segs EXCEPT ![s] = row] BY <1>3, <2>2
  <2>6. QED BY <1>1, <2>4, <2>5, ChangedSegment
<1>4. CASE UNCHANGED segs
  <2>1. UNCHANGED tables BY <1>1, <1>4 DEF tables, counters
  <2>2. QED BY <1>1, <2>1, TablesStay DEF RefInv, Shapes
<1>5. QED BY <1>2, <1>3, <1>4

\* The second statement of a checkpoint, an update of the total.
LEMMA SumUpStep ==
  ASSUME RefInv, NEW c \in Callers, SumUp(c)
  PROVE  RefInv'
<1>1. /\ call[c].at = "sum" /\ call' = [call EXCEPT ![c] = Idle]
      /\ UNCHANGED <<recovery, part, segs, events, seq, segSeq, eventSeq, lastRowid, used>>
  BY DEF SumUp, Continues, counters
<1>2. call' \in [Callers -> {Idle} \cup [at : {"log"}, id : Ids, explicit : BOOLEAN]
                                   \cup [at : {"sum"}, id : Ids]]
  BY <1>1 DEF RefInv, Shapes
<1>3. CASE Saved(call[c].id)
  <2>1. PICK id \in Ids : id = call[c].id BY <1>3 DEF Saved
  <2>2. rows' = [rows EXCEPT ![id].bytes = SumOfSegments(id)] BY <1>3, <2>1 DEF SumUp
  <2>3. PICK sum : sum = SumOfSegments(id) OBVIOUS
  <2>4. rows' = [rows EXCEPT ![id].bytes = sum] BY <2>2, <2>3
  <2>5. RowsShaped' /\ \A i \in Ids : Saved(i) <=> Saved(i)'
    BY <1>3, <2>1, <2>4, ChangedColumn
  <2>6. QED BY <1>1, <1>2, <2>5, RowsStaySaved DEF RefInv, Shapes
<1>4. CASE ~Saved(call[c].id)
  <2>1. UNCHANGED rows BY <1>4 DEF SumUp
  <2>2. UNCHANGED tables BY <1>1, <2>1 DEF tables, counters
  <2>3. QED BY <1>1, <1>2, <2>2, TablesStay DEF RefInv, Shapes
<1>5. QED BY <1>3, <1>4

\* The two writes of recovery.
LEMMA RecoverStep ==
  ASSUME RefInv
  PROVE  /\ \A s \in SegIds : RecoverSegment(s) => RefInv'
         /\ \A id \in Ids : RecoverRow(id) => RefInv'
<1>1. ASSUME NEW s \in SegIds, RecoverSegment(s)
      PROVE  RefInv'
  <2>1. /\ segs[s].download \in Ids /\ segs[s] # NoSeg
        /\ segs' = [segs EXCEPT ![s].bytes = part[<<segs[s].download, segs[s].index>>]]
        /\ UNCHANGED <<rows, events, seq, segSeq, eventSeq, used, part, recovery, call>>
    BY <1>1, StorageAssumption DEF RecoverSegment, counters, RefInv, Shapes, NoSeg, Ids
  <2>2. segs[s] \in [download : Ids, index : Indexes, bytes : Bytes] BY <2>1, SegmentShaped
  <2>3. PICK b \in Bytes : b = part[<<segs[s].download, segs[s].index>>]
    BY <2>2 DEF RefInv, Shapes
  <2>4. PICK row : row = [segs[s] EXCEPT !.bytes = b] OBVIOUS
  <2>5. row \in [download : Ids, index : Indexes, bytes : Bytes]
        /\ row.download = segs[s].download
    BY <2>2, <2>4
  <2>6. segs' = [segs EXCEPT ![s].bytes = b] BY <2>1, <2>3
  <2>7. segs' = [segs EXCEPT ![s] = row] BY <2>4, <2>6
  <2>8. QED BY <2>1, <2>5, <2>7, ChangedSegment
<1>2. ASSUME NEW id \in Ids, RecoverRow(id)
      PROVE  RefInv'
  <2>1. PICK sum : sum = SumOfSegments(id) OBVIOUS
  <2>2. /\ id \in recovery /\ recovery' = recovery \ {id}
        /\ rows' = [rows EXCEPT ![id] = [status |-> "queued", bytes |-> sum]]
        /\ UNCHANGED <<segs, events, seq, segSeq, eventSeq, part, call, used>>
    BY <1>2, <2>1 DEF RecoverRow, counters
  <2>3. /\ RowsShaped' /\ Saved(id)'
        /\ \A i \in Ids : Saved(i) => Saved(i)'
        /\ \A i \in Ids : Saved(i)' => Saved(i) \/ i = id
    BY <2>2, WrittenRow
  <2>4. (\A i \in Ids : Saved(i) <=> Saved(i)') /\ recovery' \subseteq {i \in Ids : Saved(i)}
    BY <2>2, <2>3 DEF RefInv, Shapes
  <2>5. QED BY <2>2, <2>3, <2>4, RowsStaySaved DEF RefInv, Shapes
<1>3. QED BY <1>1, <1>2

\* Opening, closing, crashing and reading what recovery will look at.
LEMMA FileStep ==
  ASSUME RefInv,
         \/ Open \/ ApplyMigration \/ CommitMigration \/ Rollback \/ Close
         \/ Crash \/ StartRecovery
  PROVE  RefInv'
<1>1. UNCHANGED tables /\ UNCHANGED used
  BY DEF Open, ApplyMigration, CommitMigration, Rollback, Close, Crash, StartRecovery, history
<1>2. part' \in [Ids \X Indexes -> Bytes]
  BY DEF Open, ApplyMigration, CommitMigration, Rollback, Close, Crash, StartRecovery,
         RefInv, Shapes
<1>3. recovery' \subseteq {id \in Ids : Saved(id)}
  <2>1. CASE StartRecovery
    BY <2>1 DEF StartRecovery, Unfinished, Saved, NoRow
  <2>2. CASE \/ Open \/ ApplyMigration \/ CommitMigration \/ Rollback \/ Close \/ Crash
    BY <2>2 DEF Open, ApplyMigration, CommitMigration, Rollback, Close, Crash, RefInv, Shapes
  <2>3. QED BY <2>1, <2>2
<1>4. call' \in [Callers -> {Idle} \cup [at : {"log"}, id : Ids, explicit : BOOLEAN]
                                   \cup [at : {"sum"}, id : Ids]]
  <2>1. UNCHANGED call \/ call' = [c \in Callers |-> Idle]
    BY DEF Open, ApplyMigration, CommitMigration, Rollback, Close, Crash, StartRecovery
  <2>2. QED BY <2>1 DEF RefInv, Shapes
<1>5. QED BY <1>1, <1>2, <1>3, <1>4, TablesStay

\* The insertion of an event, for a row just saved or any other.
LEMMA LogSteps ==
  ASSUME RefInv, NEW c \in Callers
  PROVE  /\ LogCreated(c) => RefInv'
         /\ \A id \in Ids : LogDownloadEvent(c, id, "started") => RefInv'
<1>1. ASSUME LogCreated(c) PROVE RefInv'
  <2>1. /\ Logged(SavedId(c), "created") /\ call' = [call EXCEPT ![c] = Idle]
        /\ UNCHANGED <<rows, segs, seq, segSeq, used>> /\ UNCHANGED <<recovery, part>>
    BY <1>1 DEF LogCreated, Continues, history
  <2>2. call' \in [Callers -> {Idle} \cup [at : {"log"}, id : Ids, explicit : BOOLEAN]
                                     \cup [at : {"sum"}, id : Ids]]
    BY <2>1 DEF RefInv, Shapes
  <2>3. QED BY <2>1, <2>2, LoggedStep
<1>2. ASSUME NEW id \in Ids, LogDownloadEvent(c, id, "started") PROVE RefInv'
  <2>1. /\ Logged(id, "started")
        /\ UNCHANGED <<rows, segs, seq, segSeq, used, call>> /\ UNCHANGED <<recovery, part>>
    BY <1>2 DEF LogDownloadEvent, Starts, history
  <2>2. QED BY <2>1, LoggedStep DEF RefInv, Shapes
<1>3. QED BY <1>1, <1>2

\* The invariant holds before the database is opened.
LEMMA RefInvStarts == Init => RefInv
<1>1. 0 \in Nat /\ 0 \in Bytes BY StorageAssumption
<1>2. Init => Shapes
  BY <1>1 DEF Init, Shapes, RowsShaped, NoRow
<1>3. Init => ReferencesHold /\ CountersAhead
  BY DEF Init, ReferencesHold, CountersAhead, Saved
<1>4. QED BY <1>2, <1>3 DEF RefInv

\* RefInv is an invariant of the store, its callers and recovery.
LEMMA RefInvHolds == Spec => []RefInv
<1>1. Init => RefInv BY RefInvStarts
<1>2. RefInv /\ [Next]_vars => RefInv'
  <2> SUFFICES ASSUME RefInv, [Next]_vars PROVE RefInv'
    OBVIOUS
  <2>1. CASE \/ Open \/ ApplyMigration \/ CommitMigration \/ Rollback \/ Close
             \/ Crash \/ StartRecovery
    BY <2>1, FileStep
  <2>2. ASSUME NEW c \in Callers, Step(c) PROVE RefInv'
    <3>1. CASE \E record \in Record :
                 \/ SaveNew(c, record)
                 \/ \E id \in Ids : SaveWithId(c, id, record) \/ UpdateDownload(c, id, record)
      BY <3>1, SaveNewStep, SaveWithIdStep, UpdateStep
    <3>2. CASE LogCreated(c) \/ \E id \in Ids : LogDownloadEvent(c, id, "started")
      BY <3>2, LogSteps
    <3>3. CASE SumUp(c) BY <3>3, SumUpStep
    <3>4. CASE CleanupCompleted(c) BY <3>4, CleanupStep
    <3>5. CASE \E id \in Ids : \E status \in Statuses : UpdateDownloadStatus(c, id, status)
      BY <3>5, UpdateStep
    <3>6. CASE \E id \in Ids : DeleteDownload(c, id) BY <3>6, DeleteStep
    <3>7. CASE \E id \in Ids : \E index \in Indexes, bytes \in FirstBytes :
                 SaveSegment(c, id, index, bytes)
      BY <3>7, SaveSegmentStep
    <3>8. CASE \E id \in Ids : \E segment \in Indexes \cup SegIds, bytes \in Bytes :
                 SaveCheckpoint(c, id, segment, bytes)
      BY <3>8, SaveCheckpointStep
    <3>9. CASE \E s \in SegIds, index \in Indexes, bytes \in Bytes :
                 UpdateSegment(c, s, index, bytes)
      BY <3>9, UpdateSegmentStep
    <3>10. QED BY <2>2, <3>1, <3>2, <3>3, <3>4, <3>5, <3>6, <3>7, <3>8, <3>9 DEF Step
  <2>3. CASE (\E s \in SegIds : RecoverSegment(s)) \/ (\E id \in Ids : RecoverRow(id))
    BY <2>3, RecoverStep
  <2>4. CASE UNCHANGED vars
    BY <2>4, TablesStay DEF vars, tables, counters, RefInv, Shapes
  <2>5. QED BY <2>1, <2>2, <2>3, <2>4 DEF Next
<1>3. QED BY <1>1, <1>2, PTL DEF Spec

\* Every segment row and every event belongs to a row of downloads in every state
\* of any number of callers, downloads and segments.
THEOREM ReferencesAlwaysHold == Spec => []ReferencesHold
<1>1. RefInv => ReferencesHold BY DEF RefInv
<1>2. QED BY RefInvHolds, <1>1, PTL

\* Only saveDownload leaves an INSERT to be logged.
LEMMA OnlySavingLogs ==
  ASSUME RefInv, [Next]_vars, NEW c \in Callers, call[c] = Idle, call'[c].at = "log"
  PROVE  \/ \E record \in Record, id \in Ids : SaveWithId(c, id, record) /\ Complete(record)
         \/ \E record \in Record : SaveNew(c, record) /\ Complete(record)
<1>1. Idle.at # "log" BY DEF Idle
<1>2. call'[c] # call[c] BY <1>1
<1>3. call \in [Callers -> {Idle} \cup [at : {"log"}, id : Ids, explicit : BOOLEAN]
                                  \cup [at : {"sum"}, id : Ids]]
  BY DEF RefInv, Shapes
<1>4. ~ UNCHANGED call BY <1>2
<1>5. ~(\/ Open \/ ApplyMigration \/ CommitMigration \/ Rollback \/ Close \/ StartRecovery)
  BY <1>4 DEF Open, ApplyMigration, CommitMigration, Rollback, Close, StartRecovery
<1>6. ~Crash BY <1>1 DEF Crash
<1>7. ~(\E s \in SegIds : RecoverSegment(s)) /\ ~(\E id \in Ids : RecoverRow(id))
  BY <1>4 DEF RecoverSegment, RecoverRow
<1>8. ~ UNCHANGED vars BY <1>4 DEF vars
<1>9. PICK d \in Callers : Step(d) BY <1>5, <1>6, <1>7, <1>8 DEF Next
<1>10. ASSUME NEW x, call' = [call EXCEPT ![d] = x] PROVE d = c /\ call'[c] = x
  BY <1>2, <1>3, <1>10
<1>11. ~LogCreated(d) /\ ~SumUp(d)
  BY <1>1, <1>10 DEF LogCreated, SumUp
<1>12. ~(\E id \in Ids : \E segment \in Indexes \cup SegIds, bytes \in Bytes :
           SaveCheckpoint(d, id, segment, bytes))
  <2> SUFFICES ASSUME NEW id \in Ids, NEW segment, NEW bytes, SaveCheckpoint(d, id, segment, bytes)
               PROVE  FALSE
    OBVIOUS
  <2>1. call' = [call EXCEPT ![d] = [at |-> "sum", id |-> id]] BY DEF SaveCheckpoint
  <2>2. call'[c].at = "sum" BY <1>10, <2>1
  <2>3. QED BY <2>2
<1>13. /\ ~CleanupCompleted(d)
       /\ \A id \in Ids : /\ ~(\E status \in Statuses : UpdateDownloadStatus(d, id, status))
                          /\ ~LogDownloadEvent(d, id, "started")
                          /\ ~DeleteDownload(d, id)
                          /\ ~(\E record \in Record : UpdateDownload(d, id, record))
                          /\ ~(\E index \in Indexes, bytes \in FirstBytes :
                                 SaveSegment(d, id, index, bytes))
       /\ ~(\E s \in SegIds, index \in Indexes, bytes \in Bytes :
              UpdateSegment(d, s, index, bytes))
  BY <1>4 DEF CleanupCompleted, UpdateDownloadStatus, LogDownloadEvent, DeleteDownload,
              UpdateDownload, SaveSegment, UpdateSegment
<1>14. \E record \in Record : \/ SaveNew(d, record)
                              \/ \E id \in Ids : SaveWithId(d, id, record)
  BY <1>9, <1>11, <1>12, <1>13 DEF Step
<1>15. ASSUME NEW record \in Record, SaveNew(d, record)
       PROVE  Complete(record) /\ d = c
  BY <1>4, <1>10, <1>15 DEF SaveNew
<1>16. ASSUME NEW record \in Record, NEW id \in Ids, SaveWithId(d, id, record)
       PROVE  Complete(record) /\ d = c
  BY <1>4, <1>10, <1>16 DEF SaveWithId
<1>17. QED BY <1>14, <1>15, <1>16

\* An id the database gives to a new download has never been the id of another one,
\* for any number of callers: AUTOINCREMENT counts past ids of the callers' too.
THEOREM IdsAreNew == Spec => NewIdsAreNew
<1>1. RefInv /\ [Next]_vars => [\A c \in Callers :
                                  /\ call[c] = Idle
                                  /\ call'[c].at = "log"
                                  => call'[c].explicit \/ call'[c].id \notin used]_vars
  <2> SUFFICES ASSUME RefInv, [Next]_vars, NEW c \in Callers,
                      call[c] = Idle, call'[c].at = "log"
               PROVE  call'[c].explicit \/ call'[c].id \notin used
    OBVIOUS
  <2>1. call \in [Callers -> {Idle} \cup [at : {"log"}, id : Ids, explicit : BOOLEAN]
                                    \cup [at : {"sum"}, id : Ids]]
    BY DEF RefInv, Shapes
  <2>2. CASE \E record \in Record, id \in Ids : SaveWithId(c, id, record) /\ Complete(record)
    BY <2>1, <2>2 DEF SaveWithId
  <2>3. CASE \E record \in Record : SaveNew(c, record) /\ Complete(record)
    <3>1. call' = [call EXCEPT ![c] = [at |-> "log", id |-> NextRowId, explicit |-> FALSE]]
      BY <2>3 DEF SaveNew
    <3>2. call'[c].id = seq + 1 BY <2>1, <3>1 DEF NextRowId
    <3>3. seq + 1 \notin used BY UsedBounded
    <3>4. QED BY <3>2, <3>3
  <2>4. QED BY <2>2, <2>3, OnlySavingLogs
<1>2. QED BY RefInvHolds, <1>1, PTL DEF Spec, NewIdsAreNew

-----------------------------------------------------------------------------
(* The sums of bytes. *)

\* Downloads with a sum that is to be kept have a row.
SumsOfRows == summed \subseteq {id \in Ids : Saved(id)} /\ counted \subseteq Ids

SumInv == RefInv /\ SumsOfRows /\ ProgressAddsUp /\ RecoveredIsOnDisk

\* A checkpoint between its two statements stays there, as far as it concerns a
\* download that has been summed up.
WritersStay == \A id \in summed' : Writing(id) => Writing(id)'

\* A step leaves a download's bytes, its segments and their part files alone.
SumStays(id) ==
  /\ rows'[id].bytes = rows[id].bytes
  /\ \A s \in SegIds : \/ segs'[s] = segs[s]
                       \/ s \notin SegmentsOf(id) /\ s \notin SegmentsOf(id)'

\* A download whose segments stay has the same segments, with the same bytes.
LEMMA SameSegments ==
  ASSUME NEW id \in Ids, SumStays(id)
  PROVE  /\ SegmentsOf(id)' = SegmentsOf(id)
         /\ \A s \in SegmentsOf(id) : segs'[s] = segs[s]
BY DEF SumStays, SegmentsOf

\* Then what its segments add up to, in the database and on disk, stays too.
LEMMA SameSums ==
  ASSUME NEW id \in Ids, SumStays(id), UNCHANGED part
  PROVE  /\ SumOfSegments(id)' = SumOfSegments(id)
         /\ SumFunction([s \in SegmentsOf(id) |-> part[<<id, segs[s].index>>]])'
              = SumFunction([s \in SegmentsOf(id) |-> part[<<id, segs[s].index>>]])
<1>1. SegmentsOf(id)' = SegmentsOf(id) /\ \A s \in SegmentsOf(id) : segs'[s] = segs[s]
  BY SameSegments
<1>2. [s \in SegmentsOf(id)' |-> segs'[s].bytes] = [s \in SegmentsOf(id) |-> segs[s].bytes]
  BY <1>1
<1>3. [s \in SegmentsOf(id)' |-> part'[<<id, segs'[s].index>>]]
        = [s \in SegmentsOf(id) |-> part[<<id, segs[s].index>>]]
  BY <1>1
<1>4. QED BY <1>2, <1>3 DEF SumOfSegments

\* A step that only forgets sums and leaves the remaining ones alone.
LEMMA SumsKept ==
  ASSUME SumInv, RefInv', WritersStay, UNCHANGED part,
         summed' \subseteq summed, counted' \subseteq counted,
         \A id \in counted' : SumStays(id),
         \A id \in summed' : Writing(id)' \/ SumStays(id),
         \A id \in summed' : Saved(id)'
  PROVE  SumInv'
<1>1. SumsOfRows' BY DEF SumInv, SumsOfRows
<1>2. ASSUME NEW id \in summed', ~Writing(id)' PROVE rows'[id].bytes = SumOfSegments(id)'
  <2>1. id \in Ids /\ id \in summed /\ SumStays(id) BY <1>2 DEF SumInv, SumsOfRows
  <2>2. SumOfSegments(id)' = SumOfSegments(id) BY <2>1, SameSums
  <2>3. ~Writing(id) BY <1>2 DEF WritersStay
  <2>4. QED BY <2>1, <2>2, <2>3 DEF SumInv, ProgressAddsUp, SumStays
<1>3. ASSUME NEW id \in counted'
      PROVE  rows'[id].bytes = SumFunction([s \in SegmentsOf(id) |-> part[<<id, segs[s].index>>]])'
  <2>1. id \in Ids /\ id \in counted /\ SumStays(id) BY <1>3 DEF SumInv, SumsOfRows
  <2>2. SumFunction([s \in SegmentsOf(id) |-> part[<<id, segs[s].index>>]])'
          = SumFunction([s \in SegmentsOf(id) |-> part[<<id, segs[s].index>>]])
    BY <2>1, SameSums
  <2>3. QED BY <2>1, <2>2 DEF SumInv, RecoveredIsOnDisk, SumStays
<1>4. QED BY <1>1, <1>2, <1>3 DEF SumInv, ProgressAddsUp, RecoveredIsOnDisk

\* A step that writes neither bytes nor segments, and removes no row.
LEMMA NothingSummed ==
  ASSUME SumInv, RefInv', WritersStay, UNCHANGED <<segs, part>>,
         summed' \subseteq summed, counted' \subseteq counted,
         \A id \in Ids : rows'[id].bytes = rows[id].bytes /\ (Saved(id) => Saved(id)')
  PROVE  SumInv'
<1>1. /\ \A id \in counted' : SumStays(id)
      /\ \A id \in summed' : Writing(id)' \/ SumStays(id)
  BY DEF SumInv, SumsOfRows, SumStays
<1>2. \A id \in summed' : Saved(id)' BY DEF SumInv, SumsOfRows
<1>3. QED BY <1>1, <1>2, SumsKept

\* A statement that writes one download or its segments, which it strikes off or
\* has still to sum up.
LEMMA OneStruckOff ==
  ASSUME SumInv, RefInv', WritersStay, NEW i, UNCHANGED part,
         \/ summed' = summed \ {i}
         \/ (summed' = summed) /\ Writing(i)' /\ (Saved(i) => Saved(i)'),
         counted' = counted \ {i},
         \A id \in Ids \ {i} : SumStays(id) /\ (Saved(id) => Saved(id)')
  PROVE  SumInv'
<1>1. summed' \subseteq summed /\ \A id \in summed' : id \in Ids /\ Saved(id)
  BY DEF SumInv, SumsOfRows
<1>2. \A id \in summed' : id # i \/ (Writing(id)' /\ Saved(id)') BY <1>1
<1>3. \A id \in counted' : SumStays(id) BY DEF SumInv, SumsOfRows
<1>4. \A id \in summed' : (Writing(id)' \/ SumStays(id)) /\ Saved(id)' BY <1>1, <1>2
<1>5. QED BY <1>1, <1>3, <1>4, SumsKept

\* Writing one row leaves the others.
LEMMA OtherRows ==
  ASSUME RefInv, NEW i, NEW x, rows' = [rows EXCEPT ![i] = x], NEW id \in Ids, id # i
  PROVE  rows'[id] = rows[id] /\ (Saved(id) => Saved(id)')
BY DEF RefInv, Shapes, RowsShaped, Saved

\* A cascade takes the segments of its own download only.
LEMMA CascadeStops ==
  ASSUME RefInv, NEW i \in Ids, DeletedWith(i), NEW id \in Ids, id # i, rows'[id] = rows[id]
  PROVE  SumStays(id)
<1>1. \A s \in SegIds : segs'[s] = IF s \in SegmentsOf(i) THEN NoSeg ELSE segs[s]
  BY DEF DeletedWith
<1>2. ASSUME NEW s \in SegIds, segs'[s] # segs[s]
      PROVE  s \notin SegmentsOf(id) /\ s \notin SegmentsOf(id)'
  BY <1>1, <1>2 DEF SegmentsOf
<1>3. QED BY <1>2 DEF SumStays

\* Saving a download keeps the sums of all that have been summed up.
LEMMA SavingSums ==
  ASSUME SumInv, RefInv', WritersStay, NEW c \in Callers, NEW record \in Record
  PROVE  /\ \A id \in Ids : SaveWithId(c, id, record) => SumInv'
         /\ SaveNew(c, record) => SumInv'
<1>1. ASSUME NEW i \in Ids, SaveWithId(c, i, record) PROVE SumInv'
  <2>1. UNCHANGED part BY <1>1 DEF SaveWithId, Starts
  <2>2. CASE Complete(record)
    <3>1. /\ DeletedWith(i)
          /\ rows' = [rows EXCEPT ![i] = [status |-> record.status, bytes |-> record.bytes]]
          /\ summed' = summed \ {i} /\ counted' = counted \ {i}
      BY <1>1, <2>2 DEF SaveWithId
    <3>2. ASSUME NEW id \in Ids \ {i} PROVE SumStays(id) /\ (Saved(id) => Saved(id)')
      BY <3>1, OtherRows, CascadeStops DEF SumInv
    <3>3. QED BY <2>1, <3>1, <3>2, OneStruckOff
  <2>3. CASE ~Complete(record)
    <3>1. UNCHANGED <<rows, segs, summed, counted>>
      BY <1>1, <2>3 DEF SaveWithId, tables, history
    <3>2. QED BY <2>1, <3>1, NothingSummed DEF Saved
  <2>4. QED BY <2>2, <2>3
<1>2. ASSUME SaveNew(c, record) PROVE SumInv'
  <2>1. UNCHANGED part BY <1>2 DEF SaveNew, Starts
  <2>2. CASE Complete(record)
    <3>0. PICK i : i = NextRowId OBVIOUS
    <3>1. /\ rows' = [rows EXCEPT ![i] = [status |-> record.status, bytes |-> record.bytes]]
          /\ summed' = summed \ {i} /\ counted' = counted \ {i} /\ UNCHANGED segs
      BY <1>2, <2>2, <3>0 DEF SaveNew
    <3>2. ASSUME NEW id \in Ids \ {i} PROVE SumStays(id) /\ (Saved(id) => Saved(id)')
      <4>1. rows'[id] = rows[id] /\ (Saved(id) => Saved(id)') BY <3>1, OtherRows DEF SumInv
      <4>2. QED BY <3>1, <4>1 DEF SumStays
    <3>3. QED BY <2>1, <3>1, <3>2, OneStruckOff
  <2>3. CASE ~Complete(record)
    <3>1. UNCHANGED <<rows, segs, summed, counted>>
      BY <1>2, <2>3 DEF SaveNew, tables, history
    <3>2. QED BY <2>1, <3>1, NothingSummed DEF Saved
  <2>4. QED BY <2>2, <2>3
<1>3. QED BY <1>1, <1>2

\* Updating or deleting a download keeps the sums of all that have been summed up.
LEMMA UpdatingSums ==
  ASSUME SumInv, RefInv', WritersStay, NEW c \in Callers, NEW i \in Ids
  PROVE  /\ \A record \in Record : UpdateDownload(c, i, record) => SumInv'
         /\ \A status \in Statuses : UpdateDownloadStatus(c, i, status) => SumInv'
         /\ DeleteDownload(c, i) => SumInv'
<1>1. ASSUME NEW record \in Record, UpdateDownload(c, i, record) PROVE SumInv'
  <2>1. UNCHANGED part /\ UNCHANGED segs BY <1>1 DEF UpdateDownload, Starts
  <2>2. CASE Saved(i) /\ Complete(record)
    <3>1. /\ rows' = [rows EXCEPT ![i] = [status |-> record.status, bytes |-> record.bytes]]
          /\ summed' = summed \ {i} /\ counted' = counted \ {i}
      BY <1>1, <2>2 DEF UpdateDownload
    <3>2. ASSUME NEW id \in Ids \ {i} PROVE SumStays(id) /\ (Saved(id) => Saved(id)')
      <4>1. rows'[id] = rows[id] /\ (Saved(id) => Saved(id)') BY <3>1, OtherRows DEF SumInv
      <4>2. QED BY <2>1, <4>1 DEF SumStays
    <3>3. QED BY <2>1, <3>1, <3>2, OneStruckOff
  <2>3. CASE ~(Saved(i) /\ Complete(record))
    <3>1. UNCHANGED <<rows, summed, counted>> BY <1>1, <2>3 DEF UpdateDownload
    <3>2. QED BY <2>1, <3>1, NothingSummed DEF Saved
  <2>4. QED BY <2>2, <2>3
<1>2. ASSUME NEW status \in Statuses, UpdateDownloadStatus(c, i, status) PROVE SumInv'
  <2>1. UNCHANGED <<segs, part, summed, counted>>
    BY <1>2 DEF UpdateDownloadStatus, Starts, history
  <2>2. CASE Saved(i)
    <3>1. rows' = [rows EXCEPT ![i].status = status] /\ status # "none"
      BY <1>2, <2>2, StorageAssumption DEF UpdateDownloadStatus
    <3>2. \A id \in Ids : Saved(id) <=> Saved(id)'
      BY <2>2, <3>1, ChangedColumn DEF SumInv
    <3>3. \A id \in Ids : rows'[id].bytes = rows[id].bytes
      BY <3>1 DEF SumInv, RefInv, Shapes, RowsShaped
    <3>4. QED BY <2>1, <3>2, <3>3, NothingSummed
  <2>3. CASE ~Saved(i)
    <3>1. UNCHANGED rows BY <1>2, <2>3 DEF UpdateDownloadStatus
    <3>2. QED BY <2>1, <3>1, NothingSummed DEF Saved
  <2>4. QED BY <2>2, <2>3
<1>3. ASSUME DeleteDownload(c, i) PROVE SumInv'
  <2>1. /\ DeletedWith(i) /\ rows' = [rows EXCEPT ![i] = NoRow]
        /\ summed' = summed \ {i} /\ counted' = counted \ {i} /\ UNCHANGED part
    BY <1>3 DEF DeleteDownload, Starts
  <2>2. ASSUME NEW id \in Ids \ {i} PROVE SumStays(id) /\ (Saved(id) => Saved(id)')
    BY <2>1, OtherRows, CascadeStops DEF SumInv
  <2>3. QED BY <2>1, <2>2, OneStruckOff
<1>4. QED BY <1>1, <1>2, <1>3

\* The download is struck off, or its checkpoint has still to sum it up.
StruckOff(i) == (summed' = summed \ {i}) \/ (summed' = summed /\ Writing(i)')

\* Segments of one download are written: the others' stay.
LEMMA SegmentsOfOne ==
  ASSUME SumInv, RefInv', WritersStay, NEW i, UNCHANGED <<rows, part>>,
         StruckOff(i), counted' = counted \ {i},
         \A s \in SegIds : \/ segs'[s] = segs[s]
                           \/ /\ segs[s] = NoSeg \/ segs[s].download = i
                              /\ segs'[s].download = i
  PROVE  SumInv'
<1>1. ASSUME NEW id \in Ids \ {i} PROVE SumStays(id) /\ (Saved(id) => Saved(id)')
  BY DEF SumStays, SegmentsOf, Saved
<1>2. Saved(i) => Saved(i)' BY DEF Saved
<1>3. QED BY <1>1, <1>2, OneStruckOff DEF StruckOff

\* Writing a segment withdraws its download from those summed up, or leaves a
\* checkpoint that will sum it up.
LEMMA SegmentSums ==
  ASSUME SumInv, RefInv', WritersStay, NEW c \in Callers
  PROVE  /\ \A id \in Ids, index \in Indexes, bytes \in FirstBytes :
              SaveSegment(c, id, index, bytes) => SumInv'
         /\ \A id \in Ids, segment \in Indexes \cup SegIds, bytes \in Bytes :
              SaveCheckpoint(c, id, segment, bytes) => SumInv'
         /\ \A s \in SegIds, index \in Indexes, bytes \in Bytes :
              UpdateSegment(c, s, index, bytes) => SumInv'
<1>1. ASSUME NEW id \in Ids, NEW index \in Indexes, NEW bytes \in FirstBytes,
             SaveSegment(c, id, index, bytes)
      PROVE  SumInv'
  <2>1. UNCHANGED <<rows, part>> BY <1>1 DEF SaveSegment, Starts
  <2>2. CASE Saved(id) /\ ~Taken(id, index)
    <3>1. /\ segs' = [segs EXCEPT ![segSeq + 1] = [download |-> id, index |-> index,
                                                   bytes |-> bytes]]
          /\ summed' = summed \ {id} /\ counted' = counted \ {id}
      BY <1>1, <2>2 DEF SaveSegment
    <3>2. \A s \in SegIds : segs[s] # NoSeg => s # segSeq + 1
      <4>1. segSeq \in Nat /\ \A s \in SegIds : s \in Nat
        BY StorageAssumption DEF SumInv, RefInv, Shapes, SegIds
      <4>2. \A s \in SegIds : segs[s] # NoSeg => s <= segSeq
        BY DEF SumInv, RefInv, CountersAhead
      <4>3. QED BY <4>1, <4>2
    <3>3. \A s \in SegIds : \/ segs'[s] = segs[s]
                            \/ segs[s] = NoSeg /\ segs'[s].download = id
      BY <3>1, <3>2 DEF SumInv, RefInv, Shapes
    <3>4. StruckOff(id) BY <3>1 DEF StruckOff
    <3>5. QED BY <2>1, <3>1, <3>3, <3>4, SegmentsOfOne
  <2>3. CASE ~(Saved(id) /\ ~Taken(id, index))
    <3>1. UNCHANGED <<segs, summed, counted>> BY <1>1, <2>3 DEF SaveSegment
    <3>2. QED BY <2>1, <3>1, NothingSummed DEF Saved
  <2>4. QED BY <2>2, <2>3
<1>2. ASSUME NEW id \in Ids, NEW segment \in Indexes \cup SegIds, NEW bytes \in Bytes,
             SaveCheckpoint(c, id, segment, bytes)
      PROVE  SumInv'
  <2>1. /\ segs' = [s \in SegIds |-> IF s \in Addressed(id, segment)
                                     THEN [segs[s] EXCEPT !.bytes = bytes] ELSE segs[s]]
        /\ summed' = summed /\ counted' = counted \ {id} /\ UNCHANGED <<rows, part>>
    BY <1>2 DEF SaveCheckpoint, Starts
  <2>2. ASSUME NEW s \in SegIds, segs'[s] # segs[s]
        PROVE  segs[s].download = id /\ segs'[s].download = id
    <3>1. s \in Addressed(id, segment) BY <2>1, <2>2
    <3>2. /\ segs[s].download = id
          /\ segs[s] \in [download : Ids, index : Indexes, bytes : Bytes]
      BY <3>1, SegmentShaped DEF Addressed, SegmentsOf, SumInv
    <3>3. QED BY <2>1, <3>1, <3>2
  <2>3. Writing(id)'
    <3>1. call'[c] = [at |-> "sum", id |-> id]
      BY <1>2 DEF SaveCheckpoint, SumInv, RefInv, Shapes
    <3>2. QED BY <3>1 DEF Writing
  <2>4. StruckOff(id) BY <2>1, <2>3 DEF StruckOff
  <2>5. QED BY <2>1, <2>2, <2>4, SegmentsOfOne
<1>3. ASSUME NEW s \in SegIds, NEW index \in Indexes, NEW bytes \in Bytes,
             UpdateSegment(c, s, index, bytes)
      PROVE  SumInv'
  <2>1. segs[s] # NoSeg /\ UNCHANGED <<rows, part>> BY <1>3 DEF UpdateSegment, Starts
  <2>2. segs[s] \in [download : Ids, index : Indexes, bytes : Bytes]
    BY <2>1, SegmentShaped DEF SumInv
  <2>3. PICK i : i = segs[s].download OBVIOUS
  <2>4. PICK row : row = [segs[s] EXCEPT !.index = index, !.bytes = bytes] OBVIOUS
  <2>5. row.download = i BY <2>2, <2>3, <2>4
  <2>6. \/ /\ segs' = [segs EXCEPT ![s] = row]
           /\ summed' = summed \ {i} /\ counted' = counted \ {i}
        \/ UNCHANGED <<segs, summed, counted>>
    BY <1>3, <2>3, <2>4 DEF UpdateSegment
  <2>7. CASE /\ segs' = [segs EXCEPT ![s] = row]
             /\ summed' = summed \ {i} /\ counted' = counted \ {i}
    <3>1. \A t \in SegIds : \/ segs'[t] = segs[t]
                            \/ segs[t].download = i /\ segs'[t].download = i
      BY <2>3, <2>5, <2>7 DEF SumInv, RefInv, Shapes
    <3>2. StruckOff(i) BY <2>7 DEF StruckOff
    <3>3. QED BY <2>1, <2>7, <3>1, <3>2, SegmentsOfOne
  <2>8. CASE UNCHANGED <<segs, summed, counted>>
    BY <2>1, <2>8, NothingSummed DEF Saved
  <2>9. QED BY <2>6, <2>7, <2>8
<1>4. QED BY <1>1, <1>2, <1>3

\* The second statement of saveCheckpoint: the row gets the sum.
LEMMA CheckpointSums ==
  ASSUME SumInv, RefInv', NEW c \in Callers, SumUp(c)
  PROVE  SumInv'
<1>1. UNCHANGED <<segs, part>> BY DEF SumUp, Continues
<1>0. ASSUME NEW id, id # call[c].id, Writing(id) PROVE Writing(id)'
  <2>1. PICK d \in Callers : call[d].at = "sum" /\ call[d].id = id BY <1>0 DEF Writing
  <2>2. call'[d] = call[d] BY <1>0, <2>1 DEF SumUp, SumInv, RefInv, Shapes
  <2>3. QED BY <2>1, <2>2 DEF Writing
<1>2. CASE Saved(call[c].id)
  <2>1. PICK i \in Ids : i = call[c].id /\ Saved(i) BY <1>2 DEF Saved
  <2>2. PICK sum : sum = SumOfSegments(i) OBVIOUS
  <2>3. /\ rows' = [rows EXCEPT ![i].bytes = sum]
        /\ summed' = summed \cup {i} /\ counted' = counted \ {i}
    BY <2>1, <2>2 DEF SumUp
  <2>4. \A id \in Ids : Saved(id) <=> Saved(id)' BY <2>1, <2>3, ChangedColumn DEF SumInv
  <2>5. /\ rows'[i].bytes = sum
        /\ \A id \in Ids \ {i} : rows'[id] = rows[id]
    BY <2>1, <2>3 DEF SumInv, RefInv, Shapes, RowsShaped
  <2>6. SumOfSegments(i)' = sum
    BY <1>1, <2>2 DEF SumOfSegments, SegmentsOf
  <2>7. ASSUME NEW id \in Ids \ {i}
        PROVE  /\ SumOfSegments(id)' = SumOfSegments(id)
               /\ SumFunction([s \in SegmentsOf(id) |-> part[<<id, segs[s].index>>]])'
                    = SumFunction([s \in SegmentsOf(id) |-> part[<<id, segs[s].index>>]])
               /\ rows'[id].bytes = rows[id].bytes
    BY <1>1, <2>5, SameSums DEF SumStays
  <2>8. SumsOfRows' BY <2>1, <2>3, <2>4 DEF SumInv, SumsOfRows
  <2>9. ProgressAddsUp'
    BY <1>0, <2>1, <2>3, <2>5, <2>6, <2>7 DEF SumInv, SumsOfRows, ProgressAddsUp
  <2>10. RecoveredIsOnDisk'
    BY <2>3, <2>7 DEF SumInv, SumsOfRows, RecoveredIsOnDisk
  <2>11. QED BY <2>8, <2>9, <2>10 DEF SumInv
<1>3. CASE ~Saved(call[c].id)
  <2>1. UNCHANGED <<rows, summed, counted>> BY <1>3 DEF SumUp
  <2>2. WritersStay BY <1>0, <1>3, <2>1 DEF WritersStay, SumInv, SumsOfRows
  <2>3. QED BY <1>1, <2>1, <2>2, NothingSummed DEF Saved
<1>4. QED BY <1>2, <1>3

\* Recovery writes one segment, or the row once all its segments are as on disk.
LEMMA RecoveryOfSegment ==
  ASSUME SumInv, RefInv', WritersStay, NEW s \in SegIds, RecoverSegment(s)
  PROVE  SumInv'
<1>1. PICK i : i = segs[s].download OBVIOUS
<1>2. PICK b : b = part[<<i, segs[s].index>>] OBVIOUS
<1>3. /\ i \in Ids /\ segs[s] # NoSeg
      /\ segs' = [segs EXCEPT ![s].bytes = b]
      /\ summed' = summed \ {i} /\ counted' = counted \ {i} /\ UNCHANGED <<rows, part>>
  BY <1>1, <1>2, StorageAssumption DEF RecoverSegment, SumInv, RefInv, Shapes, NoSeg, Ids
<1>4. segs[s] \in [download : Ids, index : Indexes, bytes : Bytes]
  BY <1>3, SegmentShaped DEF SumInv
<1>5. \A t \in SegIds : \/ segs'[t] = segs[t]
                        \/ segs[t].download = i /\ segs'[t].download = i
  BY <1>1, <1>3, <1>4 DEF SumInv, RefInv, Shapes
<1>6. StruckOff(i) BY <1>3 DEF StruckOff
<1>7. QED BY <1>3, <1>5, <1>6, SegmentsOfOne

\* Recovery writes a row's total from segments that already match the disk.
LEMMA RecoveryOfRow ==
  ASSUME SumInv, RefInv', NEW i \in Ids, RecoverRow(i)
  PROVE  SumInv'
<1> DEFINE onDisk(id) == SumFunction([s \in SegmentsOf(id) |-> part[<<id, segs[s].index>>]])
<1>1. /\ UNCHANGED <<segs, part, call>>
      /\ summed' = summed \cup {i} /\ counted' = counted \cup {i}
      /\ \A s \in SegmentsOf(i) : ~OutOfDate(s)
  BY DEF RecoverRow
<1>2. PICK sum : sum = SumOfSegments(i) OBVIOUS
<1>3. rows' = [rows EXCEPT ![i] = [status |-> "queued", bytes |-> sum]]
  BY <1>2 DEF RecoverRow
<1>4. rows'[i].bytes = sum BY <1>3 DEF SumInv, RefInv, Shapes, RowsShaped
<1>5. \A s \in SegmentsOf(i) : segs[s].bytes = part[<<i, segs[s].index>>]
  BY <1>1 DEF OutOfDate, SegmentsOf
<1>6. sum = onDisk(i)
  <2>1. [s \in SegmentsOf(i) |-> segs[s].bytes]
          = [s \in SegmentsOf(i) |-> part[<<i, segs[s].index>>]]
    BY <1>5
  <2>2. QED BY <1>2, <2>1 DEF SumOfSegments
<1>7. \A id : onDisk(id)' = onDisk(id) BY <1>1 DEF SegmentsOf
<1>8. ASSUME NEW id \in Ids \ {i}
      PROVE  /\ rows'[id] = rows[id] /\ (Saved(id) => Saved(id)')
             /\ SumOfSegments(id)' = SumOfSegments(id)
  <2>1. rows'[id] = rows[id] /\ (Saved(id) => Saved(id)') BY <1>3, OtherRows DEF SumInv
  <2>2. SumStays(id) BY <1>1, <2>1 DEF SumStays
  <2>3. QED BY <1>1, <2>1, <2>2, SameSums
<1>9. SumsOfRows'
  <2>1. Saved(i)' BY <1>3 DEF SumInv, RefInv, Shapes, RowsShaped, Saved, NoRow
  <2>2. QED BY <1>1, <1>8, <2>1 DEF SumInv, SumsOfRows
<1>10. ProgressAddsUp'
  <2>1. ASSUME NEW id \in summed', ~Writing(id)'
        PROVE  rows'[id].bytes = SumOfSegments(id)'
    <3>1. CASE id = i
      <4>1. SumOfSegments(i)' = sum BY <1>1, <1>2 DEF SumOfSegments, SegmentsOf
      <4>2. QED BY <1>4, <3>1, <4>1
    <3>2. CASE id # i
      <4>1. id \in summed /\ id \in Ids \ {i} /\ ~Writing(id)
        BY <1>1, <2>1, <3>2 DEF SumInv, SumsOfRows, Writing
      <4>2. QED BY <1>8, <4>1 DEF SumInv, ProgressAddsUp
    <3>3. QED BY <3>1, <3>2
  <2>2. QED BY <2>1 DEF ProgressAddsUp
<1>11. ASSUME NEW id \in counted' PROVE rows'[id].bytes = onDisk(id)'
  <2>1. CASE id = i BY <1>4, <1>6, <1>7, <2>1
  <2>2. CASE id # i
    <3>1. id \in Ids \ {i} /\ id \in counted BY <1>1, <1>11, <2>2 DEF SumInv, SumsOfRows
    <3>2. rows[id].bytes = onDisk(id) BY <3>1 DEF SumInv, RecoveredIsOnDisk
    <3>3. QED BY <1>7, <1>8, <3>1, <3>2
  <2>3. QED BY <2>1, <2>2
<1>12. RecoveredIsOnDisk' BY <1>11 DEF RecoveredIsOnDisk
<1>13. QED BY <1>9, <1>10, <1>12 DEF SumInv

\* Steps that write no bytes: logging, cleaning up, opening, closing, crashing, and
\* the look at the disk that starts recovery.
LEMMA OtherSums ==
  ASSUME SumInv, RefInv', WritersStay, NEW c \in Callers
  PROVE  /\ LogCreated(c) => SumInv'
         /\ CleanupCompleted(c) => SumInv'
         /\ \A id \in Ids : LogDownloadEvent(c, id, "started") => SumInv'
<1>1. ASSUME UNCHANGED <<rows, segs, part, summed, counted>> PROVE SumInv'
  BY <1>1, NothingSummed DEF Saved
<1>2. ASSUME LogCreated(c) PROVE SumInv'
  BY <1>1, <1>2 DEF LogCreated, Continues, history
<1>3. ASSUME CleanupCompleted(c) PROVE SumInv'
  BY <1>1, <1>3 DEF CleanupCompleted, Starts, history
<1>4. ASSUME NEW id \in Ids, LogDownloadEvent(c, id, "started") PROVE SumInv'
  BY <1>1, <1>4 DEF LogDownloadEvent, Starts, history
<1>5. QED BY <1>2, <1>3, <1>4

\* Opening, closing and crashing touch no sum.
LEMMA FileSums ==
  ASSUME SumInv, RefInv',
         \/ Open \/ ApplyMigration \/ CommitMigration \/ Rollback \/ Close
         \/ Crash \/ StartRecovery \/ UNCHANGED vars
  PROVE  SumInv'
<1>1. CASE StartRecovery
  <2>1. UNCHANGED <<rows, segs, summed, call>> /\ counted' = {}
    BY <1>1 DEF StartRecovery, tables
  <2>2. SumsOfRows' BY <2>1 DEF SumInv, SumsOfRows, Saved
  <2>3. ProgressAddsUp'
    BY <2>1 DEF SumInv, ProgressAddsUp, SumOfSegments, SegmentsOf, Writing
  <2>4. RecoveredIsOnDisk' BY <2>1 DEF RecoveredIsOnDisk
  <2>5. QED BY <2>2, <2>3, <2>4 DEF SumInv
<1>2. CASE Crash
  <2>1. UNCHANGED <<rows, segs, part, counted>> /\ summed' = {id \in summed : ~Writing(id)}
    BY <1>2 DEF Crash, tables
  <2>2. WritersStay BY <2>1 DEF WritersStay
  <2>3. QED BY <2>1, <2>2, NothingSummed DEF Saved
<1>3. CASE ~StartRecovery /\ ~Crash
  <2>1. UNCHANGED <<rows, segs, part, summed, counted, call>>
    BY <1>3 DEF Open, ApplyMigration, CommitMigration, Rollback, Close, vars, tables,
               history
  <2>2. WritersStay BY <2>1 DEF WritersStay, Writing
  <2>3. QED BY <2>1, <2>2, NothingSummed DEF Saved
<1>4. QED BY <1>1, <1>2, <1>3

\* A checkpoint between its statements goes on to the second; all that other steps
\* may do is to begin or end a call that is not one.
LEMMA OthersKeepWriting ==
  ASSUME RefInv, NEW c \in Callers, Step(c), ~SumUp(c)
  PROVE  WritersStay
<1>1. \A d \in Callers : call[d].at = "sum" => call'[d] = call[d]
  <2>1. Idle.at # "sum" BY DEF Idle
  <2>2. CASE call[c] = Idle
    <3>1. \A d \in Callers \ {c} : call'[d] = call[d]
      BY <2>1, <2>2
      DEF Step, RefInv, Shapes, SaveNew, SaveWithId, UpdateDownload, LogCreated, SumUp,
          Continues, CleanupCompleted, UpdateDownloadStatus, LogDownloadEvent,
          DeleteDownload, SaveSegment, SaveCheckpoint, UpdateSegment
    <3>2. QED BY <2>1, <2>2, <3>1
  <2>3. CASE call[c] # Idle
    <3>1. LogCreated(c)
      BY <2>3
      DEF Step, Starts, SaveNew, SaveWithId, UpdateDownload, CleanupCompleted,
          UpdateDownloadStatus, LogDownloadEvent, DeleteDownload, SaveSegment,
          SaveCheckpoint, UpdateSegment
    <3>2. call[c].at = "log" /\ call' = [call EXCEPT ![c] = Idle]
      BY <3>1 DEF LogCreated, Continues
    <3>3. QED BY <3>2 DEF RefInv, Shapes
  <2>4. QED BY <2>2, <2>3
<1>2. QED BY <1>1 DEF WritersStay, Writing

\* SumInv is an invariant of the store, its callers and recovery.
LEMMA SumInvHolds == Spec => []SumInv
<1>1. Init => SumInv
  <2>1. Init => SumsOfRows /\ ProgressAddsUp /\ RecoveredIsOnDisk
    BY DEF Init, SumsOfRows, ProgressAddsUp, RecoveredIsOnDisk
  <2>2. QED BY <2>1, RefInvStarts DEF SumInv
<1>2. SumInv /\ RefInv' /\ [Next]_vars => SumInv'
  <2> SUFFICES ASSUME SumInv, RefInv', [Next]_vars PROVE SumInv'
    OBVIOUS
  <2>1. CASE \/ Open \/ ApplyMigration \/ CommitMigration \/ Rollback \/ Close
             \/ Crash \/ StartRecovery \/ UNCHANGED vars
    BY <2>1, FileSums
  <2>2. ASSUME NEW c \in Callers, Step(c) PROVE SumInv'
    <3>0. CASE SumUp(c) BY <3>0, CheckpointSums
    <3> SUFFICES ASSUME ~SumUp(c) PROVE SumInv'
      BY <3>0
    <3>a. WritersStay BY <2>2, OthersKeepWriting DEF SumInv
    <3>1. CASE \E record \in Record :
                 \/ SaveNew(c, record)
                 \/ \E id \in Ids : SaveWithId(c, id, record) \/ UpdateDownload(c, id, record)
      BY <3>1, <3>a, SavingSums, UpdatingSums
    <3>2. CASE \/ LogCreated(c) \/ CleanupCompleted(c)
               \/ \E id \in Ids : LogDownloadEvent(c, id, "started")
      BY <3>2, <3>a, OtherSums
    <3>3. CASE \E id \in Ids : \/ \E status \in Statuses : UpdateDownloadStatus(c, id, status)
                               \/ DeleteDownload(c, id)
      BY <3>3, <3>a, UpdatingSums
    <3>4. CASE \/ \E id \in Ids :
                    \/ \E index \in Indexes, bytes \in FirstBytes :
                         SaveSegment(c, id, index, bytes)
                    \/ \E segment \in Indexes \cup SegIds, bytes \in Bytes :
                         SaveCheckpoint(c, id, segment, bytes)
               \/ \E s \in SegIds, index \in Indexes, bytes \in Bytes :
                    UpdateSegment(c, s, index, bytes)
      BY <3>4, <3>a, SegmentSums
    <3>5. QED BY <2>2, <3>1, <3>2, <3>3, <3>4 DEF Step
  <2>3. ASSUME NEW s \in SegIds, RecoverSegment(s) PROVE SumInv'
    <3>1. WritersStay BY <2>3 DEF RecoverSegment, WritersStay, Writing
    <3>2. QED BY <2>3, <3>1, RecoveryOfSegment
  <2>4. CASE \E id \in Ids : RecoverRow(id) BY <2>4, RecoveryOfRow
  <2>5. QED BY <2>1, <2>2, <2>3, <2>4 DEF Next
<1>3. QED BY <1>1, <1>2, RefInvHolds, PTL DEF Spec

\* The row of a download that saveCheckpoint or recovery has summed up holds the sum
\* of its segments outside the two statements of its checkpoints, for any number of
\* callers whose statements interleave in any way; a crash leaves behind only rows
\* whose own checkpoint it cuts in two, until they are summed up again.
THEOREM ProgressAlwaysAddsUp == Spec => []ProgressAddsUp
<1>1. SumInv => ProgressAddsUp BY DEF SumInv
<1>2. QED BY SumInvHolds, <1>1, PTL

\* A row that recovery has written holds what the part files of its segments hold,
\* for any rows, segments and part files the last session left behind.
THEOREM RecoveredAlwaysOnDisk == Spec => []RecoveredIsOnDisk
<1>1. SumInv => RecoveredIsOnDisk BY DEF SumInv
<1>2. QED BY SumInvHolds, <1>1, PTL

=============================================================================
