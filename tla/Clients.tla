------------------------------ MODULE Clients ------------------------------
(***************************************************************************)
(* The programs that talk to the service: the desktop window with its      *)
(* IpcServiceClient and its dialog for a new download, the native          *)
(* messaging host a browser launches, and the command line client.  Each   *)
(* sends one request at a time over the pipe and waits for the answer; the *)
(* service may be stopped, crash and be launched again at any moment.      *)
(*                                                                         *)
(* The pipe itself (its instances, its retries, its busy state) is the     *)
(* subject of NamedPipeIpc: here a request either reaches a running        *)
(* service or fails because there is none, so a client that gives up on a  *)
(* pipe that was busy for 50 seconds is left out.  Commands other than     *)
(* adding a download and listing them are one command "other", which may   *)
(* succeed or not.  Answers are records with the keys the code puts in its *)
(* JSON, because a client looks for a key by its name.                     *)
(***************************************************************************)
EXTENDS Naturals, FiniteSets

CONSTANTS MaxDownloads,   \* bound: downloads the service takes
          MaxAsked,       \* bound: requests of the user, for each client
          MaxCrashes,     \* bound: deaths of the service process
          RowsPerAnswer   \* rows of a status answer the client's buffer holds

Window == "window"
Host == "host"
Cli == "cli"
Callers == {Window, Host, Cli}

ASSUME BoundsAssumption ==
  MaxDownloads \in Nat /\ MaxAsked \in [Callers -> Nat] /\ MaxCrashes \in Nat /\ RowsPerAnswer \in Nat

VARIABLES
  up,       \* the service listens
  crashes,  \* deaths of the service process so far
  taken,    \* ids of the downloads the service has taken
  call,     \* what each client has asked: its command and how far it got
  answer,   \* what each client's last request was answered
  made,     \* ids of the downloads made by each client's last request
  report,   \* what each client told its user or browser of the last download asked for
  asked,    \* requests of the user per client
  dialog,   \* the dialog for a new download is open
  conn,     \* IpcServiceClient::connected
  label,    \* serviceConnected, the label in the status bar
  list,     \* rowDownloadIds, the rows of the table
  hostOn    \* the native messaging host runs

service == <<up, crashes, taken>>
window == <<dialog, conn, label, list>>
vars == <<up, crashes, taken, call, answer, made, report, asked, dialog, conn, label, list, hostOn>>

Commands == {"add", "list", "other"}
Ids == 1..MaxDownloads

------------------------------------------------------------------------------
(* The answers of the service, and those the pipe client makes up. *)

Added(id) == [success |-> TRUE, downloadId |-> id]
Done(ok) == [success |-> ok]
Refused == [success |-> FALSE, errorMessage |-> "refused"]
Listing == [success |-> TRUE, downloads |-> {[id |-> id] : id \in taken}]
Failure(why) == [success |-> FALSE, errorMessage |-> why]
NoAnswer == Failure("none")

Text(a) == IF "errorMessage" \in DOMAIN a THEN a.errorMessage ELSE "none"
NumberAt(row, key) == IF key \in DOMAIN row THEN row[key] ELSE 0
FitsBuffer(a) == "downloads" \in DOMAIN a => Cardinality(a.downloads) <= RowsPerAnswer
Unreached(a) == ~a.success /\ Text(a) \in {"connect", "write"}

\* What a client says of it: an id, or in which of its ways it failed.
Says(what) == [says |-> what, id |-> 0]
SaysAdded(a) == [says |-> "added", id |-> NumberAt(a, "downloadId")]

Idle == [cmd |-> "other", at |-> "idle"]
AtRest(c) == call[c].at = "idle"

Init ==
  /\ up \in BOOLEAN /\ crashes = 0 /\ taken = {}
  /\ call = [c \in Callers |-> Idle]
  /\ answer = [c \in Callers |-> NoAnswer]
  /\ made = [c \in Callers |-> {}]
  /\ report = [c \in Callers |-> Says("nothing")]
  /\ asked = [c \in Callers |-> 0]
  /\ dialog = FALSE /\ conn = FALSE /\ label = FALSE /\ list = {} /\ hostOn = FALSE

------------------------------------------------------------------------------
(* Requests: sent, served and read by every client in the same way. *)

\* sendRequest begins: a new request of this client is on its way.
Request(c, cmd) ==
  /\ AtRest(c)
  /\ call' = [call EXCEPT ![c] = [cmd |-> cmd, at |-> "sent"]]
  /\ made' = [made EXCEPT ![c] = IF cmd = "add" THEN {} ELSE @]
  /\ report' = [report EXCEPT ![c] = IF cmd = "add" THEN Says("nothing") ELSE @]

Answer(c, a) ==
  /\ call' = [call EXCEPT ![c].at = "answered"]
  /\ answer' = [answer EXCEPT ![c] = IF FitsBuffer(a) THEN a ELSE Failure("read")]

\* The handler has read its answer and is done with it.
Read(c) ==
  /\ call' = [call EXCEPT ![c] = Idle]
  /\ answer' = [answer EXCEPT ![c] = NoAnswer]

\* The service takes the download and answers with its id.
TakeDownload(c) ==
  /\ up /\ call[c] = [cmd |-> "add", at |-> "sent"]
  /\ Cardinality(taken) < MaxDownloads
  /\ LET id == Cardinality(taken) + 1
     IN  /\ taken' = taken \union {id}
         /\ made' = [made EXCEPT ![c] = @ \union {id}]
         /\ Answer(c, Added(id))
  /\ UNCHANGED <<up, crashes, report, asked, window, hostOn>>

\* The service refuses: no file name, no folder, no answer from the server.
RefuseDownload(c) ==
  /\ up /\ call[c] = [cmd |-> "add", at |-> "sent"]
  /\ Answer(c, Refused)
  /\ UNCHANGED <<service, made, report, asked, window, hostOn>>

\* The service answers any other request.
Serve(c) ==
  /\ up /\ call[c].at = "sent" /\ call[c].cmd # "add"
  /\ \/ call[c].cmd = "list" /\ Answer(c, Listing)
     \/ call[c].cmd = "other" /\ \E ok \in BOOLEAN : Answer(c, Done(ok))
  /\ UNCHANGED <<service, made, report, asked, window, hostOn>>

\* All attempts to open the pipe have failed, or it broke before the write.
CannotReach(c) ==
  /\ ~up /\ call[c].at = "sent"
  /\ \E why \in {"connect", "write"} : Answer(c, Failure(why))
  /\ UNCHANGED <<service, made, report, asked, window, hostOn>>

------------------------------------------------------------------------------
(* The desktop window: one thread, which waits for every answer. *)

\* The timer, every second, also while the dialog is open: connect if the label
\* says not connected, then ask for all downloads.
Poll ==
  /\ Request(Window, "list")
  /\ conn' = IF label THEN conn ELSE up
  /\ UNCHANGED <<service, answer, asked, dialog, label, list, hostOn>>

\* Mutant form of ReachedService: only a failed write counts as a request that did not reach the service.
ReachedUnlessBroken(a) == a.success \/ Text(a) # "write"

\* getStatus marks a request that did not reach the service, any other answer
\* counts as connected.
ReachedService(a) == ~Unreached(a)

\* The rows of the table: the objects of the answer with a downloadId.
RowsOf(a) ==
  IF "downloads" \in DOMAIN a
    THEN {id \in {NumberAt(row, "downloadId") : row \in a.downloads} : id > 0}
    ELSE {id \in {NumberAt(a, "downloadId")} : id > 0}

PollAnswered ==
  /\ call[Window] = [cmd |-> "list", at |-> "answered"]
  /\ Read(Window)
  /\ conn' = ReachedService(answer[Window])
  /\ label' = conn'
  /\ list' = IF conn' THEN RowsOf(answer[Window]) ELSE list
  /\ UNCHANGED <<service, made, report, asked, dialog, hostOn>>

\* The tool bar opens the dialog only while the label says connected.
OpenDialog ==
  /\ AtRest(Window) /\ label /\ ~dialog
  /\ dialog' = TRUE
  /\ UNCHANGED <<service, call, answer, made, report, asked, conn, label, list, hostOn>>

CloseDialog ==
  /\ AtRest(Window) /\ dialog
  /\ dialog' = FALSE
  /\ UNCHANGED <<service, call, answer, made, report, asked, conn, label, list, hostOn>>

\* OK with a URL in the field.
SubmitDialog ==
  /\ dialog /\ asked[Window] < MaxAsked[Window]
  /\ Request(Window, "add")
  /\ asked' = [asked EXCEPT ![Window] = @ + 1]
  /\ UNCHANGED <<service, answer, window, hostOn>>

\* The dialog has one message for every answer without an id, that the request could
\* not be sent and that the service should be running: also for a refusal, and for an
\* answer that was lost after the download had been made.
DialogSays(a) ==
  IF a.success /\ NumberAt(a, "downloadId") > 0 THEN SaysAdded(a) ELSE Says("not_sent")

\* Mutant form of SubmitAnswered: after a broken read the dialog sends the request again by itself.
SubmitAgain ==
  /\ call[Window] = [cmd |-> "add", at |-> "answered"]
  /\ LET lost == Text(answer[Window]) = "read"
     IN  /\ call' = [call EXCEPT ![Window] = IF lost THEN [@ EXCEPT !.at = "sent"] ELSE Idle]
         /\ answer' = [answer EXCEPT ![Window] = NoAnswer]
         /\ report' = IF lost THEN report
                      ELSE [report EXCEPT ![Window] = DialogSays(answer[Window])]
  /\ conn' = answer[Window].success /\ dialog' = ~conn'
  /\ UNCHANGED <<service, made, asked, label, list, hostOn>>

\* addDownload: an answer without success counts as not connected.  The dialog shows
\* the id and closes, or stays open with its error.
SubmitAnswered ==
  /\ call[Window] = [cmd |-> "add", at |-> "answered"]
  /\ conn' = answer[Window].success
  /\ report' = [report EXCEPT ![Window] = DialogSays(answer[Window])]
  /\ dialog' = (report'[Window].says # "added")
  /\ Read(Window)
  /\ UNCHANGED <<service, made, asked, label, list, hostOn>>

------------------------------------------------------------------------------
(* The native messaging host: launched by the browser, one message at a time. *)

\* Without a service the host says so and exits at once; a new one has told nothing.
LaunchHost ==
  /\ ~hostOn /\ AtRest(Host) /\ asked[Host] < MaxAsked[Host]
  /\ hostOn' = up
  /\ report' = [report EXCEPT ![Host] = Says(IF up THEN "nothing" ELSE "connect")]
  /\ made' = [made EXCEPT ![Host] = {}]
  /\ UNCHANGED <<service, call, answer, asked, window>>

\* readMessage gave a message of the extension: getStatus, or a download.
HostReads(cmd) ==
  /\ hostOn /\ asked[Host] < MaxAsked[Host]
  /\ Request(Host, cmd)
  /\ asked' = [asked EXCEPT ![Host] = @ + 1]
  /\ UNCHANGED <<service, answer, window, hostOn>>

\* The end of the input, an empty message or one of more than 1 MiB.
HostEnds ==
  /\ hostOn /\ AtRest(Host)
  /\ hostOn' = FALSE
  /\ UNCHANGED <<service, call, answer, made, report, asked, window>>

\* A download counts as accepted if the answer says ok or accepted, and as an error of
\* the service otherwise (with the answer as its details, which the extension leaves
\* alone).  The host ends if it cannot write its own answer.
HostAccepts(a) == "ok" \in DOMAIN a \/ ("status" \in DOMAIN a /\ a.status = "accepted")

HostAnswered ==
  /\ call[Host].at = "answered"
  /\ report' = IF call[Host].cmd # "add" THEN report
               ELSE [report EXCEPT ![Host] =
                       Says(IF HostAccepts(answer[Host]) THEN "accepted" ELSE "service_error")]
  /\ Read(Host)
  /\ hostOn' \in BOOLEAN
  /\ UNCHANGED <<service, made, asked, window>>

------------------------------------------------------------------------------
(* The command line client: one request per launch, the answer is printed. *)

CliAsks(cmd) ==
  /\ up /\ asked[Cli] < MaxAsked[Cli]
  /\ Request(Cli, cmd)
  /\ asked' = [asked EXCEPT ![Cli] = @ + 1]
  /\ UNCHANGED <<service, answer, window, hostOn>>

\* connect waits 5 seconds for a pipe, then the client exits.
CliFindsNoService ==
  /\ ~up /\ AtRest(Cli) /\ asked[Cli] < MaxAsked[Cli]
  /\ asked' = [asked EXCEPT ![Cli] = @ + 1]
  /\ report' = [report EXCEPT ![Cli] = Says("connect")]
  /\ made' = [made EXCEPT ![Cli] = {}]
  /\ UNCHANGED <<service, call, answer, window, hostOn>>

CliPrints(a) == IF a.success THEN SaysAdded(a) ELSE Says(Text(a))

CliAnswered ==
  /\ call[Cli].at = "answered"
  /\ report' = IF call[Cli].cmd # "add" THEN report
               ELSE [report EXCEPT ![Cli] = CliPrints(answer[Cli])]
  /\ Read(Cli)
  /\ UNCHANGED <<service, made, asked, window, hostOn>>

------------------------------------------------------------------------------
(* The service process. *)

Launch ==
  /\ ~up /\ up' = TRUE
  /\ UNCHANGED <<crashes, taken, call, answer, made, report, asked, window, hostOn>>

\* It is stopped or dies: an answer that has not been read yet may be lost, and so may
\* a request that was written but not handled yet, which nobody is going to answer.
Crash ==
  /\ up /\ crashes < MaxCrashes
  /\ up' = FALSE /\ crashes' = crashes + 1
  /\ \E lost \in SUBSET {c \in Callers : ~AtRest(c)} :
       /\ call' = [c \in Callers |-> IF c \in lost THEN [call[c] EXCEPT !.at = "answered"] ELSE call[c]]
       /\ answer' = [c \in Callers |-> IF c \in lost THEN Failure("read") ELSE answer[c]]
  /\ UNCHANGED <<taken, made, report, asked, window, hostOn>>

------------------------------------------------------------------------------
Asking ==
  \/ Poll \/ OpenDialog \/ CloseDialog \/ SubmitDialog
  \/ LaunchHost \/ HostEnds \/ (\E cmd \in {"add", "list"} : HostReads(cmd))
  \/ CliFindsNoService \/ (\E cmd \in Commands : CliAsks(cmd))

Answering(c) == TakeDownload(c) \/ RefuseDownload(c) \/ Serve(c) \/ CannotReach(c)
Reading == PollAnswered \/ SubmitAnswered \/ HostAnswered \/ CliAnswered

Next == Asking \/ (\E c \in Callers : Answering(c)) \/ Reading \/ Launch \/ Crash

Spec == Init /\ [][Next]_vars

\* Every request comes to an end and is read, and the timer of an event loop
\* that keeps returning to its queue fires.  Nothing is assumed of the users,
\* nor that a service is ever launched.
FairSpec ==
  /\ Spec
  /\ WF_vars(Answering(Window)) /\ WF_vars(PollAnswered \/ SubmitAnswered)
  /\ SF_vars(Poll)

------------------------------------------------------------------------------
(* Properties *)

\* Type invariant, a theorem of ClientsProofs.
TypeOK ==
  /\ up \in BOOLEAN /\ crashes \in 0..MaxCrashes /\ taken \subseteq Ids
  /\ \A c \in Callers :
       /\ call[c].cmd \in Commands /\ call[c].at \in {"idle", "sent", "answered"}
       /\ answer[c].success \in BOOLEAN /\ report[c].id \in Ids \cup {0}
       /\ made[c] \subseteq Ids /\ asked[c] \in 0..MaxAsked[c]
  /\ dialog \in BOOLEAN /\ conn \in BOOLEAN /\ label \in BOOLEAN
  /\ list \subseteq Ids /\ hostOn \in BOOLEAN

\* No request makes two downloads, whatever is shown, across crashes between the work
\* and the answer.  An id that the window shows or the command line prints is the one
\* download the request made, and no other client was given it.  And where the command
\* line prints a refusal, or that or the host says that the service was not reached,
\* nothing was made.  (What the window and the host say instead of an id may follow a
\* download that was made: DialogSays, HostAnswered.)
ReportsRight ==
  \A c \in Callers :
    /\ Cardinality(made[c]) <= 1
    /\ report[c].says = "added" =>
         /\ made[c] = {report[c].id}
         /\ \A d \in Callers \ {c} : report[d].says = "added" => report[d].id # report[c].id
    /\ report[c].says \in {"refused", "connect", "write"} => made[c] = {}

\* The label follows the service: it ends up as connected when the service stays
\* up and as not connected when it stays down, also if downloads are refused,
\* answers are lost and the dialog stays open in between.
LabelFollows ==
  /\ <>[]up => <>[]label
  /\ <>[]~up => <>[]~label

=============================================================================
