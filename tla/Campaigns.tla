----------------------------- MODULE Campaigns -----------------------------
(***************************************************************************)
(* One campaign of the marketing backend: its row in the campaigns table,  *)
(* its message logs, the BullMQ queue 'campaign', the worker of that queue *)
(* (CampaignProcessor.process) and the HTTP requests that start, pause,    *)
(* cancel, edit and delete the campaign (CampaignsService).                *)
(*                                                                         *)
(* Every await of the code ends a step: a handler reads a row, yields, and *)
(* later writes back what it read.  repository.save(entity) writes every   *)
(* column of the entity that was read, so it is modelled as overwriting    *)
(* the row with the handler's copy; repository.update and the query        *)
(* builder write the named columns only.                                   *)
(*                                                                         *)
(* A request whose guard fails answers 400 and changes nothing: that is a  *)
(* stuttering step and has no action.                                      *)
(***************************************************************************)
EXTENDS Integers, FiniteSets

CONSTANTS
  Contacts,     \* members of the campaign's contact group
  Logs,         \* message_logs rows that starts may create
  Null,         \* stands for "no row"
  Requests,     \* HTTP requests that can be in flight together
  Operations,   \* the endpoints they may call
  MaxAttempts,  \* the job option attempts: 3
  MaxStalls,    \* BullMQ's maxStalledCount: 1
  Faults,       \* what may go wrong, see the ASSUME
  MaxStarts,    \* bound: start requests that pass their first check
  MaxCrashes    \* bound: crashes of the backend process

ASSUME ContactsAssumption == IsFiniteSet(Contacts)
ASSUME NullAssumption == Null \notin Logs \cup Contacts
ASSUME OperationsAssumption ==
  Operations \subseteq {"start", "pause", "cancel", "edit", "remove"}
ASSUME AttemptsAssumption == MaxAttempts \in Nat \ {0} /\ MaxStalls \in Nat
ASSUME BoundsAssumption == MaxStarts \in Nat /\ MaxCrashes \in Nat

(***************************************************************************)
(* "send":   the session-manager refuses or is unreachable, nothing sent   *)
(* "reply":  the message goes out but the HTTP answer is lost              *)
(* "record": the UPDATE that stores waMessageId fails                      *)
(* "db":     any other database access of a handler fails                  *)
(* "cap":    the rate limiter answers -1, the daily cap is reached         *)
(***************************************************************************)
ASSUME FaultsAssumption == Faults \subseteq {"send", "reply", "record", "db", "cap"}

VARIABLES
  campaign,     \* the campaigns row; status "DELETED" when there is none
  optedOut,     \* contacts.optedOut
  log,          \* the message_logs rows; status "NONE" before the insert
  job,          \* the BullMQ job created for each log
  worker,       \* the one job the worker is processing
  req,          \* the HTTP requests in flight
  starts,       \* start requests admitted so far
  crashes,      \* crashes so far
  transmitted,  \* history: times the message of a log reached WhatsApp
  lost,         \* history: attempts that ended after the message went out
                \*   and before waMessageId was stored
  late,         \* history: messages sent since the row was last RUNNING
  afterOptOut   \* history: messages sent to a contact since it opted out

vars == << campaign, optedOut, log, job, worker, req, starts, crashes,
           transmitted, lost, late, afterOptOut >>

rowVars     == << campaign, late >>
historyVars == << transmitted, lost, afterOptOut >>
boundVars   == << starts, crashes >>

-----------------------------------------------------------------------------
(* Rows, jobs and processes. *)

CampaignStatus ==
  {"DRAFT", "SCHEDULED", "RUNNING", "PAUSED", "COMPLETED", "FAILED", "DELETED"}

Row == [status : CampaignStatus, sent : Nat, failed : Nat, total : Nat]

NewRow == [status |-> "DRAFT", sent |-> 0, failed |-> 0, total |-> 0]

\* linked: campaignId still refers to the campaign (deleting it sets NULL);
\* wa: waMessageId is set.
LogRow == [status : {"NONE", "PENDING", "SENT", "FAILED"},
           contact : Contacts \cup {Null}, wa : BOOLEAN, linked : BOOLEAN]

NoLogRow == [status |-> "NONE", contact |-> Null, wa |-> FALSE, linked |-> TRUE]

JobState == {"none", "waiting", "active", "delayed", "completed", "failed"}

Job == [state : JobState, attempts : 0..MaxAttempts, stalls : 0..(MaxStalls + 1)]

\* The worker's program counter names the next await of process().
\* outcome: the status updateMessageStatus is called with;
\* catching: process() is in its catch block.
WorkerPc == {"idle", "check", "contact", "idempotency", "token", "send",
             "record", "count", "progress", "complete", "emit"}

Worker == [pc : WorkerPc, log : Logs \cup {Null}, row : Row,
           outcome : {"SENT", "FAILED"}, catching : BOOLEAN]

IdleWorker == [pc |-> "idle", log |-> Null, row |-> NewRow,
               outcome |-> "SENT", catching |-> FALSE]

RequestPc == {"idle", "session", "contacts", "loop", "enqueue", "saveStart",
              "savePause", "failLogs", "saveCancel", "saveEdit", "delete"}

Request == [pc : RequestPc, row : Row, todo : SUBSET Contacts,
            log : Logs \cup {Null}]

IdleRequest == [pc |-> "idle", row |-> NewRow, todo |-> {}, log |-> Null]

Created == {l \in Logs : log[l].status # "NONE"}

-----------------------------------------------------------------------------
(* CampaignsService.create leaves a DRAFT row with zero counters; nothing  *)
(* has been enqueued for it.                                               *)

Init ==
  /\ campaign = NewRow
  /\ optedOut \in [Contacts -> BOOLEAN]
  /\ log = [l \in Logs |-> NoLogRow]
  /\ job = [l \in Logs |-> [state |-> "none", attempts |-> 0, stalls |-> 0]]
  /\ worker = IdleWorker
  /\ req = [r \in Requests |-> IdleRequest]
  /\ starts = 0
  /\ crashes = 0
  /\ transmitted = [l \in Logs |-> 0]
  /\ lost = [l \in Logs |-> 0]
  /\ late = 0
  /\ afterOptOut = [c \in Contacts |-> 0]

-----------------------------------------------------------------------------
(* HTTP requests. *)

\* campaignRepository.save(entity): the whole copy replaces the row, and
\* inserts it again if it was deleted meanwhile.
Save(row) ==
  /\ campaign' = row
  /\ late' = IF row.status = "RUNNING" THEN 0 ELSE late

\* findById: the request takes a copy of the row and goes on at pc.
Load(r, operation, statuses, pc) ==
  /\ operation \in Operations
  /\ req[r].pc = "idle"
  /\ campaign.status \in statuses
  /\ req' = [req EXCEPT ![r] = [@ EXCEPT !.pc = pc, !.row = campaign]]

Goto(r, pc) == req' = [req EXCEPT ![r] = [@ EXCEPT !.pc = pc]]

Respond(r) == req' = [req EXCEPT ![r] = IdleRequest]

BeginStart(r) ==
  /\ starts < MaxStarts
  /\ Load(r, "start", {"DRAFT", "PAUSED", "SCHEDULED"}, "session")
  /\ starts' = starts + 1
  /\ UNCHANGED << rowVars, optedOut, log, job, worker, crashes, historyVars >>

\* The session is or is not CONNECTED; if not, 400.
CheckSession(r) ==
  /\ req[r].pc = "session"
  /\ Goto(r, "contacts") \/ Respond(r)
  /\ UNCHANGED << rowVars, optedOut, log, job, worker, boundVars, historyVars >>

\* getGroupContactsNotOptedOut; no eligible contact is a 400.
PickContacts(r) ==
  LET eligible == {c \in Contacts : ~optedOut[c]} IN
  /\ req[r].pc = "contacts"
  /\ \/ /\ eligible # {}
        /\ req' = [req EXCEPT ![r] = [@ EXCEPT
             !.pc = "loop", !.todo = eligible, !.row.total = Cardinality(eligible)]]
     \/ eligible = {} /\ Respond(r)
  /\ UNCHANGED << rowVars, optedOut, log, job, worker, boundVars, historyVars >>

\* One PENDING message log; the foreign key refuses it once the campaign is gone.
CreateLog(r) ==
  /\ req[r].pc = "loop"
  /\ req[r].todo # {}
  /\ \/ /\ campaign.status # "DELETED"
        /\ \E c \in req[r].todo, l \in Logs \ Created :
             /\ log' = [log EXCEPT ![l] = [status |-> "PENDING", contact |-> c,
                                           wa |-> FALSE, linked |-> TRUE]]
             /\ req' = [req EXCEPT ![r] = [@ EXCEPT
                  !.pc = "enqueue", !.todo = req[r].todo \ {c}, !.log = l]]
     \/ campaign.status = "DELETED" /\ Respond(r) /\ UNCHANGED log
  /\ UNCHANGED << rowVars, optedOut, job, worker, boundVars, historyVars >>

\* campaignQueue.add: no jobId, so every call makes a new job.
EnqueueJob(r) ==
  /\ req[r].pc = "enqueue"
  /\ job' = [job EXCEPT ![req[r].log].state = "waiting"]
  /\ Goto(r, "loop")
  /\ UNCHANGED << rowVars, optedOut, log, worker, boundVars, historyVars >>

\* Only after the loop does the row become RUNNING.
SaveStart(r) ==
  /\ req[r].pc = "loop"
  /\ req[r].todo = {}
  /\ Save([req[r].row EXCEPT !.status = "RUNNING"])
  /\ Respond(r)
  /\ UNCHANGED << optedOut, log, job, worker, boundVars, historyVars >>

BeginPause(r) ==
  /\ Load(r, "pause", {"RUNNING"}, "savePause")
  /\ UNCHANGED << rowVars, optedOut, log, job, worker, boundVars, historyVars >>

SavePause(r) ==
  /\ req[r].pc = "savePause"
  /\ Save([req[r].row EXCEPT !.status = "PAUSED"])
  /\ Respond(r)
  /\ UNCHANGED << optedOut, log, job, worker, boundVars, historyVars >>

BeginCancel(r) ==
  /\ Load(r, "cancel", {"RUNNING", "PAUSED", "SCHEDULED"}, "failLogs")
  /\ UNCHANGED << rowVars, optedOut, log, job, worker, boundVars, historyVars >>

\* PENDING logs become FAILED; failedCount is left alone, so are the jobs.
FailPendingLogs(r) ==
  /\ req[r].pc = "failLogs"
  /\ log' = [l \in Logs |-> IF log[l].status = "PENDING" /\ log[l].linked
                            THEN [log[l] EXCEPT !.status = "FAILED"] ELSE log[l]]
  /\ Goto(r, "saveCancel")
  /\ UNCHANGED << rowVars, optedOut, job, worker, boundVars, historyVars >>

SaveCancel(r) ==
  /\ req[r].pc = "saveCancel"
  /\ Save([req[r].row EXCEPT !.status = "FAILED"])
  /\ Respond(r)
  /\ UNCHANGED << optedOut, log, job, worker, boundVars, historyVars >>

BeginEdit(r) ==
  /\ Load(r, "edit", {"DRAFT"}, "saveEdit")
  /\ UNCHANGED << rowVars, optedOut, log, job, worker, boundVars, historyVars >>

\* The edited name, template or group is not in the model; the save is.
SaveEdit(r) ==
  /\ req[r].pc = "saveEdit"
  /\ Save(req[r].row)
  /\ Respond(r)
  /\ UNCHANGED << optedOut, log, job, worker, boundVars, historyVars >>

BeginRemove(r) ==
  /\ Load(r, "remove", {"DRAFT", "COMPLETED", "FAILED"}, "delete")
  /\ UNCHANGED << rowVars, optedOut, log, job, worker, boundVars, historyVars >>

\* The row goes, message_logs.campaignId becomes NULL, the jobs stay queued.
DeleteRow(r) ==
  /\ req[r].pc = "delete"
  /\ campaign' = [NewRow EXCEPT !.status = "DELETED"]
  /\ log' = [l \in Logs |-> [log[l] EXCEPT !.linked = log[l].status = "NONE"]]
  /\ Respond(r)
  /\ UNCHANGED << late, optedOut, job, worker, boundVars, historyVars >>

\* A database access of the request throws: 500, what was done stays done.
RequestFails(r) ==
  /\ "db" \in Faults
  /\ req[r].pc # "idle"
  /\ Respond(r)
  /\ UNCHANGED << rowVars, optedOut, log, job, worker, boundVars, historyVars >>

-----------------------------------------------------------------------------
(* CampaignProcessor.process. *)

Step(pc) == worker' = [worker EXCEPT !.pc = pc]

\* BullMQ hands the worker one job at a time (concurrency 1).  Jobs are FIFO
\* but for the retries that rejoin the list; any waiting job may be next here.
TakeJob ==
  /\ worker.pc = "idle"
  /\ \E l \in Logs :
       /\ job[l].state = "waiting"
       /\ job' = [job EXCEPT ![l].state = "active"]
       /\ worker' = [IdleWorker EXCEPT !.pc = "check", !.log = l]
  /\ UNCHANGED << rowVars, optedOut, log, req, boundVars, historyVars >>

\* process() returns: BullMQ removes the job.
FinishJob ==
  /\ job' = [job EXCEPT ![worker.log].state = "completed"]
  /\ worker' = IdleWorker

\* Mutant: the attempt in progress is not counted.
IsLastAttemptOffByOne == job[worker.log].attempts >= MaxAttempts

IsLastAttempt == job[worker.log].attempts + 1 >= MaxAttempts

\* process() rejects: BullMQ counts the attempt and backs off, or gives up.
RejectJob ==
  LET attempts == job[worker.log].attempts + 1 IN
  /\ job' = [job EXCEPT ![worker.log] = [@ EXCEPT
       !.attempts = attempts,
       !.state = IF attempts < MaxAttempts THEN "delayed" ELSE "failed"]]
  /\ worker' = IdleWorker

\* An exception: the catch block marks the log FAILED when no attempt is left
\* or the cap was hit, else rethrows.  A throw inside the catch block rejects.
Throw(capExceeded) ==
  IF ~worker.catching /\ (IsLastAttempt \/ capExceeded)
    THEN /\ worker' = [worker EXCEPT !.pc = "record", !.outcome = "FAILED",
                                     !.catching = TRUE]
         /\ UNCHANGED job
    ELSE RejectJob

\* Mutant: the status is not checked.
CheckCampaignSkipped ==
  /\ worker.pc = "check"
  /\ Step("contact")
  /\ UNCHANGED << job, rowVars, optedOut, log, req, boundVars, historyVars >>

\* 1. A job of a campaign that is not RUNNING is consumed without effect.
CheckCampaign ==
  /\ worker.pc = "check"
  /\ \/ campaign.status = "RUNNING" /\ Step("contact") /\ UNCHANGED job
     \/ campaign.status # "RUNNING" /\ FinishJob
  /\ UNCHANGED << rowVars, optedOut, log, req, boundVars, historyVars >>

\* Mutant: the contact is not read again before the send.
CheckContactSkipped ==
  /\ worker.pc = "contact"
  /\ Step("idempotency")
  /\ UNCHANGED << rowVars, optedOut, log, job, req, boundVars, historyVars >>

\* 2. An opted-out contact's log is recorded as FAILED.
CheckContact ==
  /\ worker.pc = "contact"
  /\ worker' = IF optedOut[log[worker.log].contact]
                 THEN [worker EXCEPT !.pc = "record", !.outcome = "FAILED"]
                 ELSE [worker EXCEPT !.pc = "idempotency"]
  /\ UNCHANGED << rowVars, optedOut, log, job, req, boundVars, historyVars >>

\* Mutant: waMessageId is not checked.
CheckIdempotencySkipped ==
  /\ worker.pc = "idempotency"
  /\ Step("token")
  /\ UNCHANGED << job, rowVars, optedOut, log, req, boundVars, historyVars >>

\* 3. A log that has its waMessageId was sent by an earlier attempt.
CheckIdempotency ==
  /\ worker.pc = "idempotency"
  /\ \/ log[worker.log].wa /\ FinishJob
     \/ ~log[worker.log].wa /\ Step("token") /\ UNCHANGED job
  /\ UNCHANGED << rowVars, optedOut, log, req, boundVars, historyVars >>

\* 4. The limiter lets the job pass, after a delay or not, or refuses.
AcquireToken ==
  /\ worker.pc = "token"
  /\ \/ Step("send") /\ UNCHANGED job
     \/ "cap" \in Faults /\ Throw(TRUE)
  /\ UNCHANGED << rowVars, optedOut, log, req, boundVars, historyVars >>

\* The session-manager hands the message to WhatsApp.
Transmit ==
  LET c == log[worker.log].contact IN
  /\ transmitted' = [transmitted EXCEPT ![worker.log] = @ + 1]
  /\ late' = IF campaign.status = "RUNNING" THEN late ELSE late + 1
  /\ afterOptOut' = IF optedOut[c] THEN [afterOptOut EXCEPT ![c] = @ + 1]
                                   ELSE afterOptOut

\* 5. POST /sessions/:id/send.
SendAnswered ==
  /\ worker.pc = "send"
  /\ Transmit
  /\ worker' = [worker EXCEPT !.pc = "record", !.outcome = "SENT"]
  /\ UNCHANGED << campaign, optedOut, log, job, req, boundVars, lost >>

\* Mutant: a fetch without answer is repeated in place, attempt after attempt.
SendUnansweredRepeated ==
  /\ "reply" \in Faults
  /\ worker.pc = "send"
  /\ Transmit
  /\ lost' = [lost EXCEPT ![worker.log] = @ + 1]
  /\ UNCHANGED << campaign, optedOut, log, job, worker, req, boundVars >>

SendUnanswered ==
  /\ "reply" \in Faults
  /\ worker.pc = "send"
  /\ Transmit
  /\ lost' = [lost EXCEPT ![worker.log] = @ + 1]
  /\ Throw(FALSE)
  /\ UNCHANGED << campaign, optedOut, log, req, boundVars >>

SendRefused ==
  /\ "send" \in Faults
  /\ worker.pc = "send"
  /\ Throw(FALSE)
  /\ UNCHANGED << rowVars, optedOut, log, req, boundVars, historyVars >>

\* 6. updateMessageStatus: the log's columns.
RecordStatus ==
  /\ worker.pc = "record"
  /\ log' = [log EXCEPT ![worker.log] = [@ EXCEPT
               !.status = worker.outcome,
               !.wa = log[worker.log].wa \/ worker.outcome = "SENT"]]
  /\ Step("count")
  /\ UNCHANGED << rowVars, optedOut, job, req, boundVars, historyVars >>

\* incrementCampaignCounter: column = column + 1, if the row is there.
IncrementCounter ==
  /\ worker.pc = "count"
  /\ LET linked == log[worker.log].linked IN
     /\ campaign' = IF ~linked \/ campaign.status = "DELETED" THEN campaign
                    ELSE IF worker.outcome = "SENT"
                    THEN [campaign EXCEPT !.sent = @ + 1]
                    ELSE [campaign EXCEPT !.failed = @ + 1]
     /\ Step(IF linked THEN "progress" ELSE "emit")
  /\ UNCHANGED << late, optedOut, log, job, req, boundVars, historyVars >>

\* Mutant: completes one message early.
ReadProgressOffByOne ==
  /\ worker.pc = "progress"
  /\ worker' = IF campaign.status = "RUNNING"
                  /\ campaign.sent + campaign.failed + 1 >= campaign.total
                 THEN [worker EXCEPT !.pc = "complete", !.row = campaign]
                 ELSE [worker EXCEPT !.pc = "emit"]
  /\ UNCHANGED << rowVars, optedOut, log, job, req, boundVars, historyVars >>

\* The row is read again; every contact accounted for completes the campaign.
ReadProgress ==
  /\ worker.pc = "progress"
  /\ worker' = IF campaign.status = "RUNNING"
                  /\ campaign.sent + campaign.failed >= campaign.total
                 THEN [worker EXCEPT !.pc = "complete", !.row = campaign]
                 ELSE [worker EXCEPT !.pc = "emit"]
  /\ UNCHANGED << rowVars, optedOut, log, job, req, boundVars, historyVars >>

SaveCompleted ==
  /\ worker.pc = "complete"
  /\ Save([worker.row EXCEPT !.status = "COMPLETED"])
  /\ Step("emit")
  /\ UNCHANGED << optedOut, log, job, req, boundVars, historyVars >>

\* The last read of updateMessageStatus, the events, and process() returns.
EmitAndReturn ==
  /\ worker.pc = "emit"
  /\ FinishJob
  /\ UNCHANGED << rowVars, optedOut, log, req, boundVars, historyVars >>

\* The UPDATE fails after the message went out.
RecordFails ==
  /\ "record" \in Faults
  /\ worker.pc = "record" /\ worker.outcome = "SENT"
  /\ lost' = [lost EXCEPT ![worker.log] = @ + 1]
  /\ Throw(FALSE)
  /\ UNCHANGED << rowVars, optedOut, log, req, boundVars, transmitted, afterOptOut >>

\* Any other database access of process() fails.
DatabaseFails ==
  /\ "db" \in Faults
  /\ \/ worker.pc \in {"check", "contact", "idempotency", "count", "progress",
                       "complete", "emit"}
     \/ worker.pc = "record" /\ worker.outcome = "FAILED"
  /\ Throw(FALSE)
  /\ UNCHANGED << rowVars, optedOut, log, req, boundVars, historyVars >>

-----------------------------------------------------------------------------
(* The environment. *)

\* The exponential backoff of a retry elapses.
BackoffElapses(l) ==
  /\ job[l].state = "delayed"
  /\ job' = [job EXCEPT ![l].state = "waiting"]
  /\ UNCHANGED << rowVars, optedOut, log, worker, req, boundVars, historyVars >>

OptOut(c) ==
  /\ ~optedOut[c]
  /\ optedOut' = [optedOut EXCEPT ![c] = TRUE]
  /\ UNCHANGED << rowVars, log, job, worker, req, boundVars, historyVars >>

OptIn(c) ==
  /\ optedOut[c]
  /\ optedOut' = [optedOut EXCEPT ![c] = FALSE]
  /\ afterOptOut' = [afterOptOut EXCEPT ![c] = 0]
  /\ UNCHANGED << rowVars, log, job, worker, req, boundVars, transmitted, lost >>

\* The backend dies and restarts: the requests in flight are gone, and BullMQ
\* finds the active job stalled and queues it again, MaxStalls times.
Crash ==
  /\ crashes < MaxCrashes
  /\ crashes' = crashes + 1
  /\ req' = [r \in Requests |-> IdleRequest]
  /\ worker' = IdleWorker
  /\ IF worker.pc = "idle" THEN UNCHANGED << job, lost >> ELSE
       LET l == worker.log IN
       /\ job' = [job EXCEPT ![l] = [@ EXCEPT
            !.stalls = job[l].stalls + 1,
            !.state = IF job[l].stalls < MaxStalls THEN "waiting" ELSE "failed"]]
       /\ lost' = IF worker.pc = "record" /\ worker.outcome = "SENT"
                    THEN [lost EXCEPT ![l] = @ + 1] ELSE lost
  /\ UNCHANGED << rowVars, optedOut, log, starts, transmitted, afterOptOut >>

-----------------------------------------------------------------------------

RequestStep(r) ==
  \/ CheckSession(r) \/ PickContacts(r) \/ CreateLog(r) \/ EnqueueJob(r)
  \/ SaveStart(r) \/ SavePause(r) \/ FailPendingLogs(r) \/ SaveCancel(r)
  \/ SaveEdit(r) \/ DeleteRow(r)

NewRequest(r) ==
  \/ BeginStart(r) \/ BeginPause(r) \/ BeginCancel(r) \/ BeginEdit(r)
  \/ BeginRemove(r)

WorkerStep ==
  \/ TakeJob \/ CheckCampaign \/ CheckContact \/ CheckIdempotency
  \/ AcquireToken \/ SendAnswered \/ SendUnanswered \/ SendRefused
  \/ RecordStatus \/ IncrementCounter \/ ReadProgress \/ SaveCompleted
  \/ EmitAndReturn \/ RecordFails \/ DatabaseFails

Next ==
  \/ \E r \in Requests : NewRequest(r) \/ RequestStep(r) \/ RequestFails(r)
  \/ WorkerStep
  \/ \E l \in Logs : BackoffElapses(l)
  \/ \E c \in Contacts : OptOut(c) \/ OptIn(c)
  \/ Crash

Spec == Init /\ [][Next]_vars

(***************************************************************************)
(* The event loop runs every handler that is waiting, BullMQ's worker      *)
(* polls for ever and its timers fire.  Users, contacts, faults and        *)
(* crashes are not obliged to do anything.                                 *)
(***************************************************************************)
Fairness ==
  /\ WF_vars(WorkerStep)
  /\ \A r \in Requests : WF_vars(RequestStep(r))
  /\ \A l \in Logs : WF_vars(BackoffElapses(l))

FairSpec == Spec /\ Fairness
-----------------------------------------------------------------------------
(* Properties. *)

\* Every variable keeps its type.
TypeOK ==
  /\ campaign \in Row
  /\ optedOut \in [Contacts -> BOOLEAN]
  /\ log \in [Logs -> LogRow]
  /\ job \in [Logs -> Job]
  /\ worker \in Worker
  /\ req \in [Requests -> Request]
  /\ starts \in 0..MaxStarts
  /\ crashes \in 0..MaxCrashes
  /\ transmitted \in [Logs -> Nat]
  /\ lost \in [Logs -> Nat]
  /\ late \in Nat
  /\ afterOptOut \in [Contacts -> Nat]

\* Pausing, cancelling, completing or deleting a campaign stops it but for one
\* message: the job that had already passed the status check of process().
AtMostOneLate == late <= 1

\* A contact that opts out gets at most one more message of the campaign, the
\* one whose job had already re-read the contact, however many logs, retries
\* and restarts the campaign has for that contact.
AtMostOneAfterOptOut == \A c \in Contacts : afterOptOut[c] <= 1

\* A message goes out twice only because an attempt ended between the send and
\* the UPDATE that stores waMessageId: each extra copy has its lost attempt.
DuplicatesAreLostRecords == \A l \in Logs : transmitted[l] <= 1 + lost[l]

\* However attempts fail and the process crashes, the retries of one job send
\* at most one message per attempt and per tolerated stall.
CopiesBounded == \A l \in Logs : transmitted[l] <= MaxAttempts + MaxStalls

\* sentCount never exceeds the messages WhatsApp acknowledged, whatever
\* retries, duplicate jobs and stale saves do to the counters.
SentCountSound == campaign.sent <= Cardinality({l \in Logs : log[l].wa})

\* A campaign started once and COMPLETED has no message left PENDING.
CompletedIsDone ==
  campaign.status = "COMPLETED" /\ starts <= 1
    => \A l \in Logs : log[l].status # "PENDING"

\* Once waMessageId is stored, no retry, restart or request ever clears it or
\* sends that message again.
NeverResent ==
  [][\A l \in Logs :
       log[l].wa => log'[l].wa /\ transmitted'[l] = transmitted[l]]_vars

\* A job that passed the status check settles its log, or the campaign is
\* stopped before its retry: it is not forgotten.
InFlightSettles ==
  \A l \in Logs :
    worker.log = l /\ worker.pc = "contact"
      ~> log[l].status # "PENDING" \/ campaign.status # "RUNNING"
-----------------------------------------------------------------------------
(* The inductive invariant behind the safety properties. *)

Window == worker.pc = "record" /\ worker.outcome = "SENT"

\* Where the worker is between the first check and the send.
PastCheck   == {"contact", "idempotency", "token", "send"}
PastContact == {"idempotency", "token", "send"}
PastSend    == {"record", "count", "progress", "complete", "emit"}

One(condition) == IF condition THEN 1 ELSE 0

\* A busy worker works on an active job.
WorkerBusy ==
  worker.pc # "idle" => worker.log \in Logs /\ job[worker.log].state = "active"

\* A row that was not inserted has no job, and a job that was not added sent
\* nothing; a job that can still run has attempts and stalls left.
JobsWellFormed ==
  \A l \in Logs :
    /\ log[l].status = "NONE" => job[l].state = "none" /\ ~log[l].wa
    /\ job[l].state = "none" => transmitted[l] = 0
    /\ job[l].state # "failed" =>
         job[l].attempts < MaxAttempts /\ job[l].stalls <= MaxStalls
    /\ job[l].attempts + job[l].stalls <= MaxAttempts + MaxStalls

\* A start that is about to add a job adds the first one of its row, and no
\* other start does.
EnqueuesFresh ==
  \A r \in Requests : req[r].pc = "enqueue" =>
    /\ req[r].log \in Created
    /\ job[req[r].log].state = "none"
    /\ \A s \in Requests :
         req[s].pc = "enqueue" /\ req[s].log = req[r].log => s = r

Bookkeeping == WorkerBusy /\ JobsWellFormed /\ EnqueuesFresh

\* Each message sent used up an attempt, a stall, or is the current attempt's.
CopiesCounted ==
  \A l \in Logs :
    transmitted[l] <= job[l].attempts + job[l].stalls
      + One(\/ job[l].state = "completed"
            \/ worker.log = l /\ worker.pc \in PastSend)

\* The copies of a message are those lost track of, and the one that is recorded or
\* is being recorded; the worker never sends a recorded one, and a row that was not
\* inserted has no contact.
SendsRecorded ==
  \A l \in Logs :
    /\ transmitted[l] = lost[l] + One(log[l].wa \/ (worker.log = l /\ Window))
    /\ log[l].wa /\ worker.log = l => worker.pc \notin {"token", "send"} /\ ~Window
    /\ log[l].status = "NONE" => log[l].contact = Null

\* The job past the status check is the only message a stopped campaign owes.
LateInv ==
  /\ campaign.status = "RUNNING" => late = 0
  /\ late + One(campaign.status # "RUNNING" /\ worker.pc \in PastCheck) <= 1

\* The job past the opt-out check is the only message its contact still gets.
OptOutInv ==
  \A c \in Contacts :
    /\ ~optedOut[c] => afterOptOut[c] = 0
    /\ afterOptOut[c] + One(/\ optedOut[c]
                            /\ worker.pc \in PastContact
                            /\ log[worker.log].contact = c) <= 1

InductiveInv ==
  TypeOK /\ Bookkeeping /\ CopiesCounted /\ SendsRecorded /\ LateInv /\ OptOutInv
-----------------------------------------------------------------------------
(* The promise. *)

WorkedOnAt(pcs) == IF worker.pc \in pcs THEN {worker.log} ELSE {}

Promise == INSTANCE Outbox WITH
  Messages <- Logs, NoContact <- Null,
  running <- campaign.status = "RUNNING",
  recipient <- [l \in Logs |-> log[l].contact],
  admitted <- WorkedOnAt(PastCheck), addressed <- WorkedOnAt(PastContact),
  copies <- transmitted,
  unrecorded <- IF Window THEN {worker.log} ELSE {},
  recorded <- {l \in Logs : log[l].wa}

\* The requests, the queue and the worker implement the outbox, through retries, lost
\* answers, crashes and stale saves: every step of theirs is one of its steps, or none.
KeepsPromise == Promise!OutboxSpec
-----------------------------------------------------------------------------
(* The inductive invariant behind CompletedIsDone: the counters never run   *)
(* ahead of the logs that are settled, and the one start never ends with    *)
(* more logs than its row's total.  Without crashes and without database    *)
(* faults only: a throw after the count has the retry count the log again.  *)

Settled(l) == log[l].status \in {"SENT", "FAILED"}

\* The logs that may have been counted.
Counted ==
  {l \in Logs : /\ Settled(l)
                /\ \/ job[l].state = "completed"
                   \/ worker.log = l /\ worker.pc \in {"progress", "complete", "emit"}}

Handled(row) == row.sent + row.failed

\* The row, and each copy that may be written back, counts no more than them.
CountsEarned ==
  /\ IsFiniteSet(Created)
  /\ worker.pc = "count" => Settled(worker.log)
  /\ Handled(campaign) <= Cardinality(Counted)
  /\ worker.pc = "complete" => Handled(worker.row) <= Cardinality(Counted)
  /\ \A r \in Requests :
       req[r].pc # "idle" => Handled(req[r].row) <= Cardinality(Counted)

Starting(r) == req[r].pc \in {"session", "contacts", "loop", "enqueue"}

\* A start under way is the only one, before anything runs, and its total is
\* the logs it has inserted and those it still has to.
StartAlone(r) ==
  /\ starts = 1
  /\ campaign.status \notin {"RUNNING", "COMPLETED"} /\ worker.pc # "complete"
  /\ \A s \in Requests : Starting(s) => s = r
  /\ req[r].pc \in {"session", "contacts"} => Created = {}
  /\ req[r].pc \in {"loop", "enqueue"} =>
       /\ IsFiniteSet(req[r].todo)
       /\ Cardinality(Created) + Cardinality(req[r].todo) = req[r].row.total

OneStart ==
  /\ starts = 0 => Created = {} /\ campaign.status \notin {"RUNNING", "COMPLETED"}
  /\ \A r \in Requests :
       /\ Starting(r) => StartAlone(r)
       /\ req[r].pc = "saveEdit" => req[r].row.status = "DRAFT"
  /\ campaign.status = "RUNNING" => Cardinality(Created) <= campaign.total
  /\ campaign.status = "COMPLETED" \/ worker.pc = "complete" =>
       starts = 1 /\ \A l \in Logs : log[l].status # "PENDING"

CompletionInv == CountsEarned /\ (starts <= 1 => OneStart)
=============================================================================
