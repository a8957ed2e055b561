---------------------------- MODULE ClientsProofs ----------------------------
(***************************************************************************)
(* For any number of downloads, requests and crashes of the service, and   *)
(* any size of the clients' buffer: an id that is shown is right, and       *)
(* nothing was made where the command line says so.  The invariant follows *)
(* a request: nothing is made while it is on its way, and the answer,      *)
(* until it is read, tells what was made.                                  *)
(***************************************************************************)
EXTENDS Clients, FiniteSetTheorems, TLAPS

Whys == {"none", "refused", "connect", "write", "read"}

\* The answers there are.
Forms ==
  {Added(id) : id \in Ids} \cup {Done(ok) : ok \in BOOLEAN}
    \cup {[success |-> TRUE, downloads |-> rows] : rows \in SUBSET {[id |-> id] : id \in Ids}}
    \cup {Failure(why) : why \in Whys}

\* What an answer to a request for a download tells of the downloads it made.
Truthful(a, ids) ==
  /\ a.success => ids = {NumberAt(a, "downloadId")}
  /\ Text(a) \in {"refused", "connect", "write"} => ids = {}

\* What a client says tells no more of the downloads made than is true.
Sound(r, ids) ==
  /\ r.id \in Ids \cup {0}
  /\ r.says = "added" => ids = {r.id}
  /\ r.says \in {"refused", "connect", "write"} => ids = {}

\* Ids are given one after the other, so that a new one was not given before.
IdsCounted ==
  /\ Cardinality(taken) \in 0..MaxDownloads /\ taken = 1..Cardinality(taken)
  /\ \A c \in Callers :
       /\ made[c] \subseteq taken
       /\ made[c] = {} \/ \E id \in Ids : made[c] = {id}
       /\ \A d \in Callers \ {c} : made[c] \cap made[d] = {}

\* What one client knows, from its request to what it has told its user.
ToldRight(c) ==
  /\ Sound(report[c], made[c])
  /\ call[c].cmd = "add" =>
       /\ call[c].at = "sent" => made[c] = {}
       /\ call[c].at # "idle" => report[c] = Says("nothing")
       /\ call[c].at = "answered" => Truthful(answer[c], made[c])

-----------------------------------------------------------------------------
(* What the clients read from the answers. *)

\* An id, a success, and no message.
LEMMA AddedIs ==
  ASSUME NEW id \in Ids
  PROVE  /\ Added(id) \in Forms /\ Added(id).success
         /\ NumberAt(Added(id), "downloadId") = id
         /\ Text(Added(id)) \notin {"refused", "connect", "write"}
<1>1. Added(id) \in Forms BY DEF Forms
<1>2. /\ DOMAIN Added(id) = {"success", "downloadId"}
      /\ Added(id).success /\ Added(id)["downloadId"] = id
  BY DEF Added
<1>3. NumberAt(Added(id), "downloadId") = id BY <1>2 DEF NumberAt
<1>4. "errorMessage" \notin DOMAIN Added(id) BY <1>2
<1>5. Text(Added(id)) \notin {"refused", "connect", "write"} BY <1>4, Zenon DEF Text
<1>6. QED BY <1>1, <1>2, <1>3, <1>5

\* A message and no success.
LEMMA FailureIs ==
  ASSUME NEW why \in Whys
  PROVE  Failure(why) \in Forms /\ ~Failure(why).success /\ Text(Failure(why)) = why
<1>1. Failure(why) \in Forms BY DEF Forms
<1>2. /\ DOMAIN Failure(why) = {"success", "errorMessage"}
      /\ ~Failure(why).success /\ Failure(why).errorMessage = why
  BY DEF Failure
<1>3. "errorMessage" \in DOMAIN Failure(why) BY <1>2
<1>4. Text(Failure(why)) = why BY <1>2, <1>3, Zenon DEF Text
<1>5. QED BY <1>1, <1>2, <1>4

\* What each answer gives the clients that look into it.
LEMMA FormFacts ==
  ASSUME NEW a \in Forms
  PROVE  /\ a.success \in BOOLEAN /\ RowsOf(a) \subseteq Ids
         /\ NumberAt(a, "downloadId") \in Ids \cup {0} /\ Text(a) # "added"
<1>1. ASSUME NEW id \in Ids, a = Added(id)
      PROVE  /\ a.success \in BOOLEAN /\ RowsOf(a) \subseteq Ids
             /\ NumberAt(a, "downloadId") \in Ids \cup {0} /\ Text(a) = "none"
  <2>1. DOMAIN a = {"success", "downloadId"} /\ a["downloadId"] = id /\ a.success = TRUE
    BY <1>1 DEF Added
  <2>2. NumberAt(a, "downloadId") = id BY <2>1 DEF NumberAt
  <2>3. RowsOf(a) \subseteq Ids BY <2>1, <2>2 DEF RowsOf
  <2>4. Text(a) = "none" BY <2>1 DEF Text
  <2>5. QED BY <2>1, <2>2, <2>3, <2>4
<1>2. ASSUME NEW done \in BOOLEAN, a = Done(done)
      PROVE  /\ a.success \in BOOLEAN /\ RowsOf(a) \subseteq Ids
             /\ NumberAt(a, "downloadId") \in Ids \cup {0} /\ Text(a) = "none"
  <2>1. DOMAIN a = {"success"} /\ a.success = done BY <1>2 DEF Done
  <2>2. NumberAt(a, "downloadId") = 0 BY <2>1 DEF NumberAt
  <2>3. RowsOf(a) \subseteq Ids BY <2>1, <2>2 DEF RowsOf
  <2>4. Text(a) = "none" BY <2>1 DEF Text
  <2>5. QED BY <2>1, <2>2, <2>3, <2>4
<1>3. ASSUME NEW rows \in SUBSET {[id |-> id] : id \in Ids},
             a = [success |-> TRUE, downloads |-> rows]
      PROVE  /\ a.success \in BOOLEAN /\ RowsOf(a) \subseteq Ids
             /\ NumberAt(a, "downloadId") \in Ids \cup {0} /\ Text(a) = "none"
  <2>1. DOMAIN a = {"success", "downloads"} /\ a.success = TRUE /\ a.downloads = rows
    BY <1>3
  <2>2. \A row \in rows : DOMAIN row = {"id"} OBVIOUS
  <2>3. \A row \in rows : NumberAt(row, "downloadId") = 0 BY <2>2 DEF NumberAt
  <2>4. RowsOf(a) = {id \in {NumberAt(row, "downloadId") : row \in rows} : id > 0}
    BY <2>1 DEF RowsOf
  <2>5. RowsOf(a) \subseteq Ids BY <2>3, <2>4
  <2>6. NumberAt(a, "downloadId") = 0 /\ Text(a) = "none" BY <2>1 DEF NumberAt, Text
  <2>7. QED BY <2>1, <2>5, <2>6
<1>4. ASSUME NEW why \in Whys, a = Failure(why)
      PROVE  /\ a.success \in BOOLEAN /\ RowsOf(a) \subseteq Ids
             /\ NumberAt(a, "downloadId") \in Ids \cup {0} /\ Text(a) \in Whys
  <2>1. DOMAIN a = {"success", "errorMessage"} /\ a.success = FALSE BY <1>4 DEF Failure
  <2>2. NumberAt(a, "downloadId") = 0 BY <2>1 DEF NumberAt
  <2>3. RowsOf(a) \subseteq Ids BY <2>1, <2>2 DEF RowsOf
  <2>4. Text(a) = why BY <1>4, FailureIs
  <2>5. QED BY <2>1, <2>2, <2>3, <2>4
<1>5. "none" # "added" /\ "added" \notin Whys BY DEF Whys
<1>6. QED BY <1>1, <1>2, <1>3, <1>4, <1>5 DEF Forms

\* An answer that was lost claims nothing, nor does none.
LEMMA SilentIs ==
  ASSUME NEW ids, NEW why \in {"none", "read"}
  PROVE  Failure(why) \in Forms /\ Truthful(Failure(why), ids)
BY FailureIs DEF Truthful, Whys

\* What a client says that has not been answered, and what the window and the command
\* line say of an answer.
LEMMA SaysSound ==
  ASSUME NEW ids, NEW what, what \notin {"added", "refused", "connect", "write"}
  PROVE  Sound(Says(what), ids)
BY DEF Says, Sound

\* A client that has not reached the service says so.
LEMMA UnreachedSound == Sound(Says("connect"), {})
BY DEF Says, Sound

\* The message of an answer, or its id.
LEMMA AnswerSound ==
  ASSUME NEW ids, NEW a \in Forms, Truthful(a, ids)
  PROVE  Sound(DialogSays(a), ids) /\ Sound(CliPrints(a), ids)
<1>1. a.success => ids = {NumberAt(a, "downloadId")} BY DEF Truthful
<1>2. Text(a) \in {"refused", "connect", "write"} => ids = {} BY DEF Truthful
<1>3. /\ NumberAt(a, "downloadId") \in Ids \cup {0} /\ Text(a) # "added"
      /\ a.success \in BOOLEAN
  BY FormFacts
<1>4. ASSUME a.success PROVE Sound(SaysAdded(a), ids)
  BY <1>1, <1>3, <1>4 DEF SaysAdded, Sound
<1>5. Sound(Says("not_sent"), ids) BY SaysSound
<1>6. Sound(Says(Text(a)), ids) BY <1>2, <1>3 DEF Says, Sound
<1>7. Sound(DialogSays(a), ids) BY <1>4, <1>5 DEF DialogSays
<1>8. Sound(CliPrints(a), ids) BY <1>4, <1>6 DEF CliPrints
<1>9. QED BY <1>7, <1>8

-----------------------------------------------------------------------------
(* Ids. *)

\* No id is given and none is forgotten but by a new request.
LEMMA IdsKept ==
  ASSUME IdsCounted, taken' = taken, \A c \in Callers : made'[c] \in {made[c], {}}
  PROVE  IdsCounted'
<1>1. \A c \in Callers : made'[c] \subseteq made[c] /\ (made'[c] = made[c] \/ made'[c] = {})
  OBVIOUS
<1>2. \A c \in Callers : made'[c] \subseteq taken' BY <1>1 DEF IdsCounted
<1>3. \A c \in Callers : made'[c] = {} \/ \E id \in Ids : made'[c] = {id}
  BY <1>1 DEF IdsCounted
<1>4. \A c \in Callers : \A d \in Callers \ {c} : made'[c] \cap made'[d] = {}
  <2> SUFFICES ASSUME NEW c \in Callers, NEW d \in Callers \ {c}
               PROVE  made'[c] \cap made'[d] = {}
    OBVIOUS
  <2>1. made[c] \cap made[d] = {} BY DEF IdsCounted
  <2>2. QED BY <1>1, <2>1
<1>5. QED BY <1>2, <1>3, <1>4 DEF IdsCounted

\* The next id is new.
LEMMA IdTaken ==
  ASSUME IdsCounted, Cardinality(taken) < MaxDownloads,
         NEW id, id = Cardinality(taken) + 1, taken' = taken \cup {id},
         NEW c \in Callers, made[c] = {}, made'[c] = {id},
         \A d \in Callers \ {c} : made'[d] = made[d]
  PROVE  IdsCounted' /\ id \in Ids
<1> DEFINE n == Cardinality(taken)
<1>1. n \in Nat /\ n < MaxDownloads /\ MaxDownloads \in Nat /\ taken = 1..n /\ id = n + 1
  BY BoundsAssumption DEF IdsCounted
<1> HIDE DEF n
<1>2. taken' = 1..(n + 1) /\ id \notin taken /\ id \in Ids BY <1>1 DEF Ids
<1>3. Cardinality(1..(n + 1)) = n + 1
  <2>1. 1 \in Int /\ n + 1 \in Int BY <1>1
  <2>2. Cardinality(1..(n + 1)) = IF 1 > n + 1 THEN 0 ELSE (n + 1) - 1 + 1 BY <2>1, FS_Interval
  <2>3. QED BY <1>1, <2>2
<1>4. Cardinality(taken') \in 0..MaxDownloads /\ taken' = 1..Cardinality(taken')
  <2>1. Cardinality(taken') = n + 1 BY <1>2, <1>3
  <2>2. n + 1 \in 0..MaxDownloads BY <1>1
  <2>3. QED BY <1>2, <2>1, <2>2
<1>5. \A d \in Callers : made'[d] \subseteq taken' BY <1>2 DEF IdsCounted
<1>6. \A d \in Callers : made'[d] = {} \/ \E other \in Ids : made'[d] = {other}
  BY <1>2 DEF IdsCounted
<1>7. \A d \in Callers : \A e \in Callers \ {d} : made'[d] \cap made'[e] = {}
  <2> SUFFICES ASSUME NEW d \in Callers, NEW e \in Callers \ {d}
               PROVE  made'[d] \cap made'[e] = {}
    OBVIOUS
  <2>1. id \notin made[d] /\ id \notin made[e] /\ made[d] \cap made[e] = {}
    BY <1>2 DEF IdsCounted
  <2>2. CASE d = c BY <2>1, <2>2
  <2>3. CASE e = c BY <2>1, <2>3
  <2>4. CASE d # c /\ e # c BY <2>1, <2>4
  <2>5. QED BY <2>2, <2>3, <2>4
<1>8. QED BY <1>2, <1>4, <1>5, <1>6, <1>7 DEF IdsCounted

-----------------------------------------------------------------------------
(* Steps.  Each concerns one client's request or none. *)

\* The parts of the invariant about requests.
CallsTyped ==
  /\ call \in [Callers -> [cmd : Commands, at : {"idle", "sent", "answered"}]]
  /\ answer \in [Callers -> Forms] /\ made \in [Callers -> SUBSET Ids]
  /\ DOMAIN report = Callers

CallsInv == CallsTyped /\ IdsCounted /\ \A c \in Callers : ToldRight(c)

\* A client that no step concerns knows what it knew.
LEMMA SameTold ==
  ASSUME NEW c \in Callers, ToldRight(c), call'[c] = call[c], answer'[c] = answer[c],
         made'[c] = made[c], report'[c] = report[c]
  PROVE  ToldRight(c)'
BY DEF ToldRight

\* Nor does any client in a step that concerns none of them.
LEMMA NothingTold ==
  ASSUME CallsInv, UNCHANGED <<taken, call, answer, made, report>>
  PROVE  CallsInv'
<1>1. IdsCounted' BY IdsKept DEF CallsInv
<1>2. \A c \in Callers : ToldRight(c)' BY SameTold DEF CallsInv
<1>3. QED BY <1>1, <1>2 DEF CallsInv, CallsTyped

\* A new request for a download has made and told nothing yet.
LEMMA RequestKeeps ==
  ASSUME CallsInv, NEW c \in Callers, NEW cmd \in Commands, Request(c, cmd),
         UNCHANGED <<taken, answer>>
  PROVE  CallsInv'
<1>1. CallsTyped /\ IdsCounted /\ \A d \in Callers : ToldRight(d) BY DEF CallsInv
<1>2. /\ call' = [call EXCEPT ![c] = [cmd |-> cmd, at |-> "sent"]]
      /\ made' = [made EXCEPT ![c] = IF cmd = "add" THEN {} ELSE made[c]]
      /\ report' = [report EXCEPT ![c] = IF cmd = "add" THEN Says("nothing") ELSE report[c]]
  BY DEF Request
<1>3. CallsTyped' BY <1>1, <1>2 DEF CallsTyped
<1>4. IdsCounted' BY <1>1, <1>2, IdsKept DEF CallsTyped
<1>5. ToldRight(c)'
  <2>1. call'[c].cmd = cmd /\ call'[c].at = "sent" BY <1>1, <1>2 DEF CallsTyped
  <2>2. CASE cmd = "add"
    <3>1. made'[c] = {} /\ report'[c] = Says("nothing") BY <1>1, <1>2, <2>2 DEF CallsTyped
    <3>2. Sound(report'[c], made'[c]) BY <3>1, SaysSound
    <3>3. QED BY <2>1, <3>1, <3>2 DEF ToldRight
  <2>3. CASE cmd # "add"
    <3>1. made'[c] = made[c] /\ report'[c] = report[c] BY <1>1, <1>2, <2>3 DEF CallsTyped
    <3>2. QED BY <1>1, <2>1, <2>3, <3>1 DEF ToldRight, Truthful
  <2>4. QED BY <2>2, <2>3
<1>6. ASSUME NEW d \in Callers \ {c} PROVE ToldRight(d)'
  <2>1. /\ call'[d] = call[d] /\ answer'[d] = answer[d]
        /\ made'[d] = made[d] /\ report'[d] = report[d]
    BY <1>1, <1>2 DEF CallsTyped
  <2>2. QED BY <1>1, <2>1, SameTold
<1>7. QED BY <1>3, <1>4, <1>5, <1>6 DEF CallsInv

\* Of an answer that tells what was made, or that the client's buffer does not hold.
LEMMA AnsweredRight ==
  ASSUME CallsInv, NEW c \in Callers, call[c].at = "sent",
         NEW a \in Forms, Answer(c, a), report' = report,
         made' \in [Callers -> SUBSET Ids], call[c].cmd = "add" => Truthful(a, made'[c]),
         call[c].cmd # "add" => made'[c] = made[c],
         \A d \in Callers \ {c} : made'[d] = made[d], IdsCounted'
  PROVE  CallsInv'
<1>1. CallsTyped /\ IdsCounted /\ \A d \in Callers : ToldRight(d) BY DEF CallsInv
<1>2. PICK b \in {a, Failure("read")} :
        answer' = [answer EXCEPT ![c] = b] /\ call' = [call EXCEPT ![c].at = "answered"]
  BY DEF Answer
<1>3. /\ b \in Forms
      /\ call[c].cmd = "add" => Truthful(b, made'[c])
  BY <1>2, SilentIs
<1>4. call[c] \in [cmd : Commands, at : {"idle", "sent", "answered"}] BY <1>1 DEF CallsTyped
<1>5. PICK k : /\ call' = [call EXCEPT ![c] = k] /\ k.cmd = call[c].cmd /\ k.at = "answered"
               /\ k \in [cmd : Commands, at : {"idle", "sent", "answered"}]
  <2>1. call' = [call EXCEPT ![c] = [call[c] EXCEPT !.at = "answered"]] BY <1>2
  <2>2. /\ [call[c] EXCEPT !.at = "answered"].cmd = call[c].cmd
        /\ [call[c] EXCEPT !.at = "answered"].at = "answered"
        /\ [call[c] EXCEPT !.at = "answered"]
             \in [cmd : Commands, at : {"idle", "sent", "answered"}]
    BY <1>4
  <2>3. QED BY <2>1, <2>2
<1>6. CallsTyped' BY <1>1, <1>2, <1>3, <1>5 DEF CallsTyped
<1>7. ToldRight(c)'
  <2>1. call'[c] = k /\ answer'[c] = b /\ report'[c] = report[c]
    BY <1>1, <1>2, <1>5 DEF CallsTyped
  <2>2. CASE call[c].cmd = "add"
    <3>1. report[c] = Says("nothing") BY <1>1, <2>2 DEF ToldRight
    <3>2. Sound(report'[c], made'[c]) BY <2>1, <3>1, SaysSound
    <3>3. Truthful(answer'[c], made'[c]) BY <1>3, <2>1, <2>2
    <3>4. QED BY <1>5, <2>1, <3>1, <3>2, <3>3 DEF ToldRight
  <2>3. CASE call[c].cmd # "add"
    <3>1. made'[c] = made[c] BY <2>3
    <3>2. QED BY <1>1, <1>5, <2>1, <2>3, <3>1 DEF ToldRight, Truthful
  <2>4. QED BY <2>2, <2>3
<1>8. ASSUME NEW d \in Callers \ {c} PROVE ToldRight(d)'
  <2>1. /\ call'[d] = call[d] /\ answer'[d] = answer[d]
        /\ made'[d] = made[d] /\ report'[d] = report[d]
    BY <1>1, <1>2, <1>5 DEF CallsTyped
  <2>2. QED BY <1>1, <2>1, SameTold
<1>9. QED BY <1>6, <1>7, <1>8 DEF CallsInv

\* The id in the answer is the one the request has made.
LEMMA TakeKeeps == ASSUME CallsInv, NEW c \in Callers, TakeDownload(c) PROVE CallsInv'
<1>1. CallsTyped /\ IdsCounted /\ \A d \in Callers : ToldRight(d) BY DEF CallsInv
<1>2. call[c].at = "sent" /\ call[c].cmd = "add" /\ report' = report
  BY DEF TakeDownload
<1>3. made[c] = {} BY <1>1, <1>2 DEF ToldRight
<1>4. PICK id : /\ id = Cardinality(taken) + 1 /\ taken' = taken \cup {id}
                /\ made' = [made EXCEPT ![c] = made[c] \cup {id}] /\ Answer(c, Added(id))
  BY DEF TakeDownload
<1>5. Cardinality(taken) < MaxDownloads BY DEF TakeDownload
<1>6. made'[c] = {id} /\ \A d \in Callers \ {c} : made'[d] = made[d]
  BY <1>1, <1>3, <1>4 DEF CallsTyped
<1>7. IdsCounted' /\ id \in Ids BY <1>1, <1>3, <1>4, <1>5, <1>6, IdTaken
<1>8. made' \in [Callers -> SUBSET Ids] BY <1>1, <1>3, <1>4, <1>7 DEF CallsTyped
<1>9. Added(id) \in Forms /\ Truthful(Added(id), made'[c])
  BY <1>6, <1>7, AddedIs DEF Truthful
<1>10. QED BY <1>2, <1>4, <1>6, <1>7, <1>8, <1>9, AnsweredRight

\* A refusal and a service out of reach have made nothing.
LEMMA OtherAnswersKeep ==
  ASSUME CallsInv, NEW c \in Callers, RefuseDownload(c) \/ Serve(c) \/ CannotReach(c)
  PROVE  CallsInv'
<1>1. CallsTyped /\ IdsCounted /\ \A d \in Callers : ToldRight(d) BY DEF CallsInv
<1>2. call[c].at = "sent" /\ UNCHANGED <<taken, made, report>>
  BY DEF RefuseDownload, Serve, CannotReach, service
<1>3. call[c].cmd = "add" => made'[c] = {} BY <1>1, <1>2 DEF ToldRight
<1>4. IdsCounted' /\ made' \in [Callers -> SUBSET Ids] BY <1>1, <1>2, IdsKept DEF CallsTyped
<1>5. PICK a \in Forms : Answer(c, a) /\ (call[c].cmd = "add" => Truthful(a, {}))
  <2>1. CASE RefuseDownload(c)
    <3>1. Answer(c, Failure("refused")) BY <2>1 DEF RefuseDownload, Refused, Failure
    <3>2. Failure("refused") \in Forms /\ Truthful(Failure("refused"), {})
      BY FailureIs DEF Truthful, Whys
    <3>3. QED BY <3>1, <3>2
  <2>2. CASE Serve(c)
    <3>1. call[c].cmd # "add" BY <2>2 DEF Serve
    <3>2. taken \subseteq Ids
      <4>1. PICK n \in 0..MaxDownloads : taken = 1..n BY <1>1 DEF IdsCounted
      <4>2. QED BY <4>1, BoundsAssumption DEF Ids
    <3>3. Listing \in Forms
      <4>1. {[id |-> id] : id \in taken} \subseteq {[id |-> id] : id \in Ids} BY <3>2
      <4>2. QED BY <4>1 DEF Listing, Forms
    <3>4. \A done \in BOOLEAN : Done(done) \in Forms BY DEF Forms
    <3>5. QED BY <2>2, <3>1, <3>3, <3>4 DEF Serve
  <2>3. CASE CannotReach(c)
    <3>1. PICK why \in {"connect", "write"} : Answer(c, Failure(why)) BY <2>3 DEF CannotReach
    <3>2. Failure(why) \in Forms /\ Truthful(Failure(why), {})
      BY FailureIs DEF Truthful, Whys
    <3>3. QED BY <3>1, <3>2
  <2>4. QED BY <2>1, <2>2, <2>3
<1>6. call[c].cmd = "add" => Truthful(a, made'[c]) BY <1>3, <1>5
<1>7. QED BY <1>2, <1>4, <1>5, <1>6, AnsweredRight

\* The client is done with its answer and, if it asked for a download, shows it.
LEMMA ReadKeeps ==
  ASSUME CallsInv, NEW c \in Callers, call[c].at = "answered", Read(c),
         UNCHANGED <<taken, made>>, DOMAIN report' = Callers,
         \A d \in Callers \ {c} : report'[d] = report[d],
         \/ report'[c] = report[c] /\ call[c].cmd # "add"
         \/ /\ call[c].cmd = "add"
            /\ \E what \in {"accepted", "service_error"} :
                 report'[c] \in {DialogSays(answer[c]), CliPrints(answer[c]), Says(what)}
  PROVE  CallsInv'
<1>1. CallsTyped /\ IdsCounted /\ \A d \in Callers : ToldRight(d) BY DEF CallsInv
<1>2. call' = [call EXCEPT ![c] = Idle] /\ answer' = [answer EXCEPT ![c] = NoAnswer]
  BY DEF Read
<1>3. NoAnswer \in Forms BY SilentIs DEF NoAnswer
<1>4. Idle \in [cmd : Commands, at : {"idle", "sent", "answered"}] /\ Idle.cmd # "add"
  BY DEF Idle, Commands
<1>5. CallsTyped' BY <1>1, <1>2, <1>3, <1>4 DEF CallsTyped
<1>6. IdsCounted' BY <1>1, IdsKept
<1>7. ToldRight(c)'
  <2>1. call'[c] = Idle BY <1>1, <1>2 DEF CallsTyped
  <2>2. CASE call[c].cmd # "add"
    <3>1. report'[c] = report[c] BY <2>2
    <3>2. QED BY <1>1, <1>4, <2>1, <3>1 DEF ToldRight, Truthful
  <2>3. CASE call[c].cmd = "add"
    <3>1. answer[c] \in Forms /\ Truthful(answer[c], made[c])
      BY <1>1, <2>3 DEF CallsTyped, ToldRight
    <3>2. Sound(report'[c], made'[c])
      BY <2>3, <3>1, AnswerSound, SaysSound
    <3>3. QED BY <1>4, <2>1, <3>2 DEF ToldRight
  <2>4. QED BY <2>2, <2>3
<1>8. ASSUME NEW d \in Callers \ {c} PROVE ToldRight(d)'
  <2>1. /\ call'[d] = call[d] /\ answer'[d] = answer[d]
        /\ made'[d] = made[d] /\ report'[d] = report[d]
    BY <1>1, <1>2 DEF CallsTyped
  <2>2. QED BY <1>1, <2>1, SameTold
<1>9. QED BY <1>5, <1>6, <1>7, <1>8 DEF CallsInv

\* A client that finds no service asks nothing, and tells that; a host that has just
\* been launched tells nothing.
LEMMA NoRequestKeeps ==
  ASSUME CallsInv, NEW c \in Callers, AtRest(c), NEW what \in {"nothing", "connect"},
         report' = [report EXCEPT ![c] = Says(what)], made' = [made EXCEPT ![c] = {}],
         UNCHANGED <<taken, call, answer>>
  PROVE  CallsInv'
<1>1. CallsTyped /\ IdsCounted /\ \A d \in Callers : ToldRight(d) BY DEF CallsInv
<1>2. CallsTyped' BY <1>1 DEF CallsTyped
<1>3. IdsCounted' BY <1>1, IdsKept DEF CallsTyped
<1>4. ToldRight(c)'
  <2>1. report'[c] = Says(what) /\ made'[c] = {} BY <1>1 DEF CallsTyped
  <2>2. Sound(report'[c], made'[c]) BY <2>1, SaysSound, UnreachedSound
  <2>3. call'[c].at = "idle" BY DEF AtRest
  <2>4. QED BY <2>2, <2>3 DEF ToldRight
<1>5. ASSUME NEW d \in Callers \ {c} PROVE ToldRight(d)'
  <2>1. made'[d] = made[d] /\ report'[d] = report[d] BY <1>1 DEF CallsTyped
  <2>2. QED BY <1>1, <2>1, SameTold
<1>6. QED BY <1>2, <1>3, <1>4, <1>5 DEF CallsInv

\* A crash may lose requests and answers, which then claim nothing.
LEMMA CrashKeeps == ASSUME CallsInv, Crash PROVE CallsInv'
<1>1. CallsTyped /\ IdsCounted /\ \A d \in Callers : ToldRight(d) BY DEF CallsInv
<1>2. PICK lost \in SUBSET {c \in Callers : ~AtRest(c)} :
        /\ call' = [c \in Callers |-> IF c \in lost THEN [call[c] EXCEPT !.at = "answered"] ELSE call[c]]
        /\ answer' = [c \in Callers |-> IF c \in lost THEN Failure("read") ELSE answer[c]]
  BY DEF Crash
<1>3. UNCHANGED <<taken, made, report>> BY DEF Crash
<1>4. Failure("read") \in Forms BY SilentIs
<1>5. ASSUME NEW c \in lost
      PROVE  /\ call'[c] \in [cmd : Commands, at : {"idle", "sent", "answered"}]
             /\ call'[c].cmd = call[c].cmd /\ call'[c].at = "answered"
             /\ answer'[c] = Failure("read") /\ call[c].at # "idle"
  <2>1. call[c] \in [cmd : Commands, at : {"idle", "sent", "answered"}] BY <1>1 DEF CallsTyped
  <2>2. call'[c] = [call[c] EXCEPT !.at = "answered"] /\ answer'[c] = Failure("read") BY <1>2
  <2>3. QED BY <2>1, <2>2 DEF AtRest
<1>6. \A c \in Callers \ lost : call'[c] = call[c] /\ answer'[c] = answer[c] BY <1>2
<1>7. CallsTyped'
  <2>1. DOMAIN call' = Callers /\ DOMAIN answer' = Callers BY <1>2
  <2>2. \A c \in Callers : /\ call'[c] \in [cmd : Commands, at : {"idle", "sent", "answered"}]
                           /\ answer'[c] \in Forms
    BY <1>1, <1>4, <1>5, <1>6 DEF CallsTyped
  <2>3. call' \in [Callers -> [cmd : Commands, at : {"idle", "sent", "answered"}]]
    BY <1>2, <2>2
  <2>4. answer' \in [Callers -> Forms] BY <1>2, <2>2
  <2>5. QED BY <1>1, <1>3, <2>3, <2>4 DEF CallsTyped
<1>8. IdsCounted' BY <1>1, <1>3, IdsKept
<1>9. ASSUME NEW c \in Callers PROVE ToldRight(c)'
  <2>1. CASE c \in lost
    <3>1. Truthful(answer'[c], made'[c]) BY <1>3, <1>5, <2>1, SilentIs
    <3>2. call'[c].cmd = "add" => report'[c] = Says("nothing")
      BY <1>1, <1>3, <1>5, <2>1 DEF ToldRight
    <3>3. Sound(report'[c], made'[c]) BY <1>1, <1>3 DEF ToldRight
    <3>4. QED BY <1>5, <2>1, <3>1, <3>2, <3>3 DEF ToldRight
  <2>2. CASE c \notin lost
    <3>1. call'[c] = call[c] /\ answer'[c] = answer[c] BY <1>6, <2>2
    <3>2. QED BY <1>1, <1>3, <3>1, SameTold
  <2>3. QED BY <2>1, <2>2
<1>10. QED BY <1>7, <1>8, <1>9 DEF CallsInv

\* Every step of a user or a timer.
LEMMA AskingKeeps == ASSUME CallsInv, Asking PROVE CallsInv'
<1> USE DEF service, window
<1>1. Window \in Callers /\ Host \in Callers /\ Cli \in Callers BY DEF Callers
<1>2. CASE Poll \/ SubmitDialog
  <2>1. \E cmd \in Commands : Request(Window, cmd) /\ UNCHANGED <<taken, answer>>
    BY <1>2 DEF Poll, SubmitDialog, Commands
  <2>2. QED BY <1>1, <2>1, RequestKeeps
<1>3. CASE OpenDialog \/ CloseDialog \/ HostEnds
  BY <1>3, NothingTold DEF OpenDialog, CloseDialog, HostEnds
<1>4. CASE LaunchHost
  <2>1. PICK what \in {"nothing", "connect"} : report' = [report EXCEPT ![Host] = Says(what)]
    BY <1>4 DEF LaunchHost
  <2>2. AtRest(Host) /\ made' = [made EXCEPT ![Host] = {}] /\ UNCHANGED <<taken, call, answer>>
    BY <1>4 DEF LaunchHost
  <2>3. QED BY <1>1, <2>1, <2>2, NoRequestKeeps
<1>5. CASE \E cmd \in {"add", "list"} : HostReads(cmd)
  <2>1. \E cmd \in Commands : Request(Host, cmd) /\ UNCHANGED <<taken, answer>>
    BY <1>5 DEF HostReads, Commands
  <2>2. QED BY <1>1, <2>1, RequestKeeps
<1>6. CASE CliFindsNoService
  <2>1. /\ report' = [report EXCEPT ![Cli] = Says("connect")] /\ AtRest(Cli)
        /\ made' = [made EXCEPT ![Cli] = {}] /\ UNCHANGED <<taken, call, answer>>
    BY <1>6 DEF CliFindsNoService
  <2>2. QED BY <1>1, <2>1, NoRequestKeeps
<1>7. CASE \E cmd \in Commands : CliAsks(cmd)
  <2>1. \E cmd \in Commands : Request(Cli, cmd) /\ UNCHANGED <<taken, answer>>
    BY <1>7 DEF CliAsks
  <2>2. QED BY <1>1, <2>1, RequestKeeps
<1>8. QED BY <1>2, <1>3, <1>4, <1>5, <1>6, <1>7 DEF Asking

\* Every client that reads its answer.
LEMMA ReadingKeeps == ASSUME CallsInv, Reading PROVE CallsInv'
<1> USE DEF service, window
<1>1. Window \in Callers /\ Host \in Callers /\ Cli \in Callers BY DEF Callers
<1>2. CallsTyped BY DEF CallsInv
<1>3. CASE PollAnswered
  <2>1. /\ call[Window].at = "answered" /\ call[Window].cmd # "add" /\ Read(Window)
        /\ UNCHANGED <<taken, made, report>>
    BY <1>3 DEF PollAnswered
  <2>2. QED BY <1>1, <1>2, <2>1, ReadKeeps DEF CallsTyped
<1>4. CASE SubmitAnswered
  <2>1. /\ call[Window].at = "answered" /\ call[Window].cmd = "add" /\ Read(Window)
        /\ UNCHANGED <<taken, made>>
        /\ report' = [report EXCEPT ![Window] = DialogSays(answer[Window])]
    BY <1>4 DEF SubmitAnswered
  <2>2. /\ DOMAIN report' = Callers /\ report'[Window] = DialogSays(answer[Window])
        /\ \A d \in Callers \ {Window} : report'[d] = report[d]
    BY <1>1, <1>2, <2>1 DEF CallsTyped
  <2>3. QED BY <1>1, <2>1, <2>2, ReadKeeps
<1>5. CASE HostAnswered
  <2>1. /\ call[Host].at = "answered" /\ Read(Host) /\ UNCHANGED <<taken, made>>
    BY <1>5 DEF HostAnswered
  <2>2. CASE call[Host].cmd # "add"
    <3>1. report' = report BY <1>5, <2>2 DEF HostAnswered
    <3>2. QED BY <1>1, <1>2, <2>1, <2>2, <3>1, ReadKeeps DEF CallsTyped
  <2>3. CASE call[Host].cmd = "add"
    <3>1. PICK what \in {"accepted", "service_error"} : report' = [report EXCEPT ![Host] = Says(what)]
      BY <1>5, <2>3 DEF HostAnswered
    <3>2. /\ DOMAIN report' = Callers /\ report'[Host] = Says(what)
          /\ \A d \in Callers \ {Host} : report'[d] = report[d]
      BY <1>1, <1>2, <3>1 DEF CallsTyped
    <3>3. QED BY <1>1, <2>1, <2>3, <3>2, ReadKeeps
  <2>4. QED BY <2>2, <2>3
<1>6. CASE CliAnswered
  <2>1. /\ call[Cli].at = "answered" /\ Read(Cli) /\ UNCHANGED <<taken, made>>
        /\ report' = IF call[Cli].cmd # "add" THEN report
                     ELSE [report EXCEPT ![Cli] = CliPrints(answer[Cli])]
    BY <1>6 DEF CliAnswered
  <2>2. /\ DOMAIN report' = Callers
        /\ IF call[Cli].cmd = "add" THEN report'[Cli] = CliPrints(answer[Cli])
           ELSE report'[Cli] = report[Cli]
        /\ \A d \in Callers \ {Cli} : report'[d] = report[d]
    BY <1>1, <1>2, <2>1 DEF CallsTyped
  <2>3. QED BY <1>1, <2>1, <2>2, ReadKeeps
<1>7. QED BY <1>3, <1>4, <1>5, <1>6 DEF Reading

\* Every step.
LEMMA CallsKeep == CallsInv /\ [Next]_vars => CallsInv'
<1> SUFFICES ASSUME CallsInv, [Next]_vars PROVE CallsInv' OBVIOUS
<1>1. CASE Asking BY <1>1, AskingKeeps
<1>2. CASE \E c \in Callers : Answering(c)
  BY <1>2, TakeKeeps, OtherAnswersKeep DEF Answering
<1>3. CASE Reading BY <1>3, ReadingKeeps
<1>4. CASE Launch BY <1>4, NothingTold DEF Launch
<1>5. CASE Crash BY <1>5, CrashKeeps
<1>6. CASE UNCHANGED vars BY <1>6, NothingTold DEF vars
<1>7. QED BY <1>1, <1>2, <1>3, <1>4, <1>5, <1>6 DEF Next

\* At the start nothing is made and nothing is told.
LEMMA CallsStart == Init => CallsInv
<1> SUFFICES ASSUME Init PROVE CallsInv OBVIOUS
<1>1. \A ids : NoAnswer \in Forms /\ Truthful(NoAnswer, ids) BY SilentIs DEF NoAnswer
<1>2. /\ Idle \in [cmd : Commands, at : {"idle", "sent", "answered"}] /\ Idle.cmd # "add"
      /\ MaxDownloads \in Nat
  BY BoundsAssumption DEF Idle, Commands
<1>3. CallsTyped BY <1>1, <1>2 DEF Init, CallsTyped
<1>4. taken = {} /\ \A c \in Callers : made[c] = {} BY DEF Init
<1>5. IdsCounted
  <2>1. Cardinality(taken) = 0 BY <1>4, FS_EmptySet
  <2>2. 0 \in 0..MaxDownloads /\ taken = 1..0 BY <1>2, <1>4
  <2>3. QED BY <1>4, <2>1, <2>2 DEF IdsCounted
<1>6. ASSUME NEW c \in Callers PROVE ToldRight(c)
  <2>1. report[c] = Says("nothing") /\ call[c] = Idle BY DEF Init
  <2>2. Sound(report[c], made[c]) BY <2>1, SaysSound
  <2>3. QED BY <1>2, <2>1, <2>2 DEF ToldRight
<1>7. QED BY <1>3, <1>5, <1>6 DEF CallsInv

-----------------------------------------------------------------------------
(* What follows. *)

\* What the clients say is then right, for any number of downloads, requests and crashes
\* between the work and the answer.
LEMMA InvReports == ASSUME CallsInv PROVE ReportsRight
<1>1. CallsTyped /\ IdsCounted /\ \A c \in Callers : ToldRight(c) BY DEF CallsInv
<1>2. ASSUME NEW c \in Callers PROVE Cardinality(made[c]) <= 1
  <2>1. CASE made[c] = {}
    <3>1. Cardinality(made[c]) = 0 BY <2>1, FS_EmptySet
    <3>2. QED BY <3>1
  <2>2. CASE \E id \in Ids : made[c] = {id}
    <3>1. Cardinality(made[c]) = 1 BY <2>2, FS_Singleton
    <3>2. QED BY <3>1
  <2>3. QED BY <1>1, <2>1, <2>2 DEF IdsCounted
<1>3. \A c \in Callers : Sound(report[c], made[c]) BY <1>1 DEF ToldRight
<1>4. ASSUME NEW c \in Callers, NEW d \in Callers \ {c},
             report[c].says = "added", report[d].says = "added"
      PROVE  report[d].id # report[c].id
  <2>1. made[c] = {report[c].id} /\ made[d] = {report[d].id} BY <1>3, <1>4 DEF Sound
  <2>2. made[c] \cap made[d] = {} BY <1>1 DEF IdsCounted
  <2>3. QED BY <2>1, <2>2
<1>5. QED BY <1>2, <1>3, <1>4 DEF ReportsRight, Sound

\* An id that the window shows or the command line prints is the one download its
\* request made, and nobody else's; a refusal that is printed, and a service that a
\* client says it did not reach, mean that nothing was made; and no request makes two.
THEOREM ReportsAlwaysRight == Spec => []ReportsRight
<1>1. CallsInv => ReportsRight BY InvReports
<1>2. QED BY <1>1, CallsStart, CallsKeep, PTL DEF Spec

\* The rest of the types: what the service and the window keep.
RestTyped ==
  /\ up \in BOOLEAN /\ crashes \in 0..MaxCrashes
  /\ asked \in [Callers -> Nat] /\ (\A c \in Callers : asked[c] <= MaxAsked[c])
  /\ dialog \in BOOLEAN /\ conn \in BOOLEAN /\ label \in BOOLEAN
  /\ list \subseteq Ids /\ hostOn \in BOOLEAN

\* Every step keeps those types, too.
LEMMA RestKeeps == CallsInv /\ RestTyped /\ [Next]_vars => RestTyped'
<1> SUFFICES ASSUME CallsInv, RestTyped, [Next]_vars PROVE RestTyped' OBVIOUS
<1> USE DEF service, window
<1>1. Window \in Callers /\ Host \in Callers /\ Cli \in Callers BY DEF Callers
<1>2. ASSUME NEW c \in Callers, asked[c] < MaxAsked[c]
      PROVE  asked[c] + 1 \in Nat /\ asked[c] + 1 <= MaxAsked[c]
  BY <1>2, BoundsAssumption DEF RestTyped
<1>3. answer \in [Callers -> Forms] BY DEF CallsInv, CallsTyped
<1>4. CASE Poll \/ OpenDialog \/ CloseDialog
  BY <1>4 DEF Poll, OpenDialog, CloseDialog, RestTyped
<1>5. CASE SubmitDialog BY <1>1, <1>2, <1>5 DEF SubmitDialog, RestTyped
<1>6. CASE LaunchHost \/ HostEnds BY <1>6 DEF LaunchHost, HostEnds, RestTyped
<1>7. CASE \E cmd \in {"add", "list"} : HostReads(cmd)
  BY <1>1, <1>2, <1>7 DEF HostReads, RestTyped
<1>8. CASE CliFindsNoService BY <1>1, <1>2, <1>8 DEF CliFindsNoService, RestTyped
<1>9. CASE \E cmd \in Commands : CliAsks(cmd)
  BY <1>1, <1>2, <1>9 DEF CliAsks, RestTyped
<1>10. ASSUME NEW c \in Callers, Answering(c) PROVE RestTyped'
  BY <1>10 DEF Answering, TakeDownload, RefuseDownload, Serve, CannotReach, RestTyped
<1>11. CASE PollAnswered
  <2>1. RowsOf(answer[Window]) \subseteq Ids BY <1>1, <1>3, FormFacts
  <2>2. conn' \in BOOLEAN BY <1>11 DEF PollAnswered, ReachedService, Unreached
  <2>3. QED BY <1>11, <2>1, <2>2 DEF PollAnswered, RestTyped
<1>12. CASE SubmitAnswered
  <2>1. answer[Window].success \in BOOLEAN BY <1>1, <1>3, FormFacts
  <2>2. conn' \in BOOLEAN /\ dialog' \in BOOLEAN BY <1>12, <2>1 DEF SubmitAnswered
  <2>3. QED BY <1>12, <2>2 DEF SubmitAnswered, RestTyped
<1>13. CASE HostAnswered \/ CliAnswered
  BY <1>13 DEF HostAnswered, CliAnswered, RestTyped
<1>14. CASE Launch BY <1>14 DEF Launch, RestTyped
<1>15. CASE Crash
  <2>1. crashes' \in 0..MaxCrashes BY <1>15, BoundsAssumption DEF Crash, RestTyped
  <2>2. QED BY <1>15, <2>1 DEF Crash, RestTyped
<1>16. CASE UNCHANGED vars BY <1>16 DEF vars, RestTyped
<1>17. QED
  BY <1>4, <1>5, <1>6, <1>7, <1>8, <1>9, <1>10, <1>11, <1>12, <1>13, <1>14, <1>15, <1>16
     DEF Next, Asking, Reading

\* Every variable of the clients has its type; in particular the ids in the window's
\* table are ids of downloads, whatever answers it was given.
THEOREM TypesAlwaysHold == Spec => []TypeOK
<1>1. Init => RestTyped
  <2> SUFFICES ASSUME Init PROVE RestTyped OBVIOUS
  <2>1. (\A c \in Callers : 0 <= MaxAsked[c]) /\ 0 \in 0..MaxCrashes BY BoundsAssumption
  <2>2. asked = [c \in Callers |-> 0] /\ crashes = 0 BY DEF Init
  <2>3. asked \in [Callers -> Nat] /\ \A c \in Callers : asked[c] <= MaxAsked[c] BY <2>1, <2>2
  <2>4. /\ up \in BOOLEAN /\ dialog = FALSE /\ conn = FALSE /\ label = FALSE
        /\ list = {} /\ hostOn = FALSE
    BY DEF Init
  <2>5. QED BY <2>1, <2>2, <2>3, <2>4 DEF RestTyped
<1>2. CallsInv /\ RestTyped => TypeOK
  <2> SUFFICES ASSUME CallsInv, RestTyped PROVE TypeOK OBVIOUS
  <2>1. CallsTyped /\ IdsCounted /\ \A c \in Callers : ToldRight(c) BY DEF CallsInv
  <2>2. taken \subseteq Ids
    <3>1. PICK n \in 0..MaxDownloads : taken = 1..n BY <2>1 DEF IdsCounted
    <3>2. QED BY <3>1, BoundsAssumption DEF Ids
  <2>3. ASSUME NEW c \in Callers
        PROVE  /\ call[c].cmd \in Commands /\ call[c].at \in {"idle", "sent", "answered"}
               /\ answer[c].success \in BOOLEAN /\ report[c].id \in Ids \cup {0}
               /\ made[c] \subseteq Ids /\ asked[c] \in 0..MaxAsked[c]
    <3>1. call[c] \in [cmd : Commands, at : {"idle", "sent", "answered"}]
          /\ answer[c] \in Forms /\ made[c] \subseteq Ids
      BY <2>1 DEF CallsTyped
    <3>2. answer[c].success \in BOOLEAN BY <3>1, FormFacts
    <3>3. report[c].id \in Ids \cup {0} BY <2>1 DEF ToldRight, Sound
    <3>4. QED BY <3>1, <3>2, <3>3 DEF RestTyped
  <2>4. QED BY <2>2, <2>3 DEF TypeOK, RestTyped
<1>3. QED BY <1>1, <1>2, CallsStart, CallsKeep, RestKeeps, PTL DEF Spec
=============================================================================
