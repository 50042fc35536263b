-------------------------- MODULE CampaignsProofs --------------------------
(* What Campaigns promises for every value of its constants. *)
EXTENDS Campaigns, FiniteSetTheorems, TLAPS

(***************************************************************************)
(* Types.  The frame conditions are the same for every action, so a case   *)
(* only has to look at the variables its action assigns.                   *)
(***************************************************************************)

\* The initial state is well typed.
LEMMA InitTypeOK == Init => TypeOK
<1> SUFFICES ASSUME Init PROVE TypeOK
  OBVIOUS
<1>1. NewRow \in Row
  BY DEF NewRow, Row, CampaignStatus
<1>2. IdleWorker \in Worker /\ IdleRequest \in Request /\ NoLogRow \in LogRow
  BY <1>1 DEF IdleWorker, Worker, WorkerPc, IdleRequest, Request, RequestPc,
              NoLogRow, LogRow
<1>3. [state |-> "none", attempts |-> 0, stalls |-> 0] \in Job
  BY AttemptsAssumption DEF Job, JobState
<1>4. 0 \in 0..MaxStarts /\ 0 \in 0..MaxCrashes
  BY BoundsAssumption
<1> QED
  BY <1>1, <1>2, <1>3, <1>4 DEF Init, TypeOK

\* What a request step assigns keeps its type.
LEMMA RequestTypes ==
  ASSUME TypeOK, NEW r \in Requests,
         NewRequest(r) \/ RequestStep(r) \/ RequestFails(r)
  PROVE  TypeOK'
<1> USE DEF TypeOK, rowVars, historyVars, boundVars
<1>1. /\ req[r] \in Request /\ req[r].row \in Row /\ campaign \in Row
      /\ NewRow \in Row /\ IdleRequest \in Request
  BY DEF Request, IdleRequest, NewRow, Row, CampaignStatus, RequestPc
<1>2. ASSUME NEW row \in Row, NEW s \in CampaignStatus
      PROVE [row EXCEPT !.status = s] \in Row
  BY DEF Row
<1>3. ASSUME NEW pc \in RequestPc
      PROVE [req[r] EXCEPT !.pc = pc] \in Request
  BY <1>1 DEF Request
<1>4. CASE BeginStart(r)
  <2>1. [req[r] EXCEPT !.pc = "session", !.row = campaign] \in Request
    BY <1>1 DEF Request, RequestPc
  <2>2. starts' \in 0..MaxStarts
    BY <1>4, BoundsAssumption DEF BeginStart
  <2> QED
    BY <1>4, <2>1, <2>2 DEF BeginStart, Load
<1>5. CASE CheckSession(r)
  BY <1>5, <1>1, <1>3 DEF CheckSession, Goto, Respond, RequestPc
<1>6. CASE PickContacts(r)
  <2> DEFINE eligible == {c \in Contacts : ~optedOut[c]}
  <2>1. Cardinality(eligible) \in Nat
    BY ContactsAssumption, FS_Subset, FS_CardinalityType
  <2>2. [req[r] EXCEPT !.pc = "loop", !.todo = eligible,
                       !.row.total = Cardinality(eligible)] \in Request
    BY <2>1, <1>1 DEF Request, Row, RequestPc
  <2> QED
    BY <1>6, <1>1, <2>2 DEF PickContacts, Respond
<1>7. CASE CreateLog(r)
  <2>1. CASE Respond(r) /\ UNCHANGED log
    BY <2>1, <1>7, <1>1 DEF CreateLog, Respond
  <2>2. ASSUME NEW c \in req[r].todo, NEW l \in Logs \ Created,
               log' = [log EXCEPT ![l] = [status |-> "PENDING", contact |-> c,
                                          wa |-> FALSE, linked |-> TRUE]],
               req' = [req EXCEPT ![r] = [@ EXCEPT
                         !.pc = "enqueue", !.todo = req[r].todo \ {c}, !.log = l]]
        PROVE TypeOK'
    <3>1. c \in Contacts
      BY <1>1 DEF Request
    <3>2. [status |-> "PENDING", contact |-> c, wa |-> FALSE, linked |-> TRUE]
            \in LogRow
      BY <3>1 DEF LogRow
    <3>3. [req[r] EXCEPT !.pc = "enqueue", !.todo = req[r].todo \ {c}, !.log = l] \in Request
      BY <1>1 DEF Request, RequestPc
    <3>4. log' \in [Logs -> LogRow]
      BY <2>2, <3>2
    <3>6. req' \in [Requests -> Request]
      BY <2>2, <3>3
    <3>5. UNCHANGED << rowVars, optedOut, job, worker, boundVars, historyVars >>
      BY <1>7 DEF CreateLog
    <3> QED
      BY <3>4, <3>5, <3>6
  <2> QED
    BY <1>7, <2>1, <2>2 DEF CreateLog
<1>8. CASE EnqueueJob(r)
  BY <1>8, <1>1, <1>3 DEF EnqueueJob, Goto, RequestPc, Job, JobState
<1>9. CASE SaveStart(r)
  BY <1>9, <1>1, <1>2 DEF SaveStart, Save, Respond, CampaignStatus
<1>10. CASE BeginPause(r)
  BY <1>10, <1>1 DEF BeginPause, Load, Request, RequestPc
<1>11. CASE SavePause(r)
  BY <1>11, <1>1, <1>2 DEF SavePause, Save, Respond, CampaignStatus
<1>12. CASE BeginCancel(r)
  BY <1>12, <1>1 DEF BeginCancel, Load, Request, RequestPc
<1>13. CASE FailPendingLogs(r)
  BY <1>13, <1>1, <1>3 DEF FailPendingLogs, Goto, RequestPc, LogRow
<1>14. CASE SaveCancel(r)
  BY <1>14, <1>1, <1>2 DEF SaveCancel, Save, Respond, CampaignStatus
<1>15. CASE BeginEdit(r)
  BY <1>15, <1>1 DEF BeginEdit, Load, Request, RequestPc
<1>16. CASE SaveEdit(r)
  BY <1>16, <1>1 DEF SaveEdit, Save, Respond
<1>17. CASE BeginRemove(r)
  BY <1>17, <1>1 DEF BeginRemove, Load, Request, RequestPc
<1>18. CASE DeleteRow(r)
  BY <1>18, <1>1, <1>2 DEF DeleteRow, Respond, CampaignStatus, LogRow
<1>19. CASE RequestFails(r)
  BY <1>19, <1>1 DEF RequestFails, Respond
<1> QED
  BY <1>4, <1>5, <1>6, <1>7, <1>8, <1>9, <1>10, <1>11, <1>12, <1>13, <1>14,
     <1>15, <1>16, <1>17, <1>18, <1>19 DEF NewRequest, RequestStep

\* A busy worker has a job that is not out of attempts or stalls.
LEMMA BusyWorker ==
  ASSUME TypeOK, Bookkeeping, worker.pc # "idle"
  PROVE  /\ worker.log \in Logs
         /\ worker.log # Null
         /\ job[worker.log] \in Job
         /\ log[worker.log] \in LogRow
         /\ log[worker.log].status # "NONE"
         /\ job[worker.log].state = "active"
         /\ job[worker.log].attempts \in Nat /\ job[worker.log].stalls \in Nat
         /\ job[worker.log].attempts < MaxAttempts
         /\ job[worker.log].stalls <= MaxStalls
<1>1. worker.log \in Logs /\ job[worker.log].state = "active"
  BY DEF Bookkeeping, WorkerBusy
<1> QED
  BY <1>1, NullAssumption, AttemptsAssumption DEF TypeOK, Bookkeeping, JobsWellFormed, Job

\* What the two ends of an attempt assign keeps its type.
LEMMA FinishTypes ==
  ASSUME TypeOK, FinishJob
  PROVE  job' \in [Logs -> Job] /\ worker' \in Worker
<1>1. IdleWorker \in Worker
  BY DEF IdleWorker, Worker, WorkerPc, NewRow, Row, CampaignStatus
<1> QED
  BY <1>1 DEF TypeOK, FinishJob, Job, JobState

\* What an exception assigns keeps its type.
LEMMA ThrowTypes ==
  ASSUME TypeOK, Bookkeeping, worker.pc # "idle", NEW cap \in BOOLEAN, Throw(cap)
  PROVE  job' \in [Logs -> Job] /\ worker' \in Worker
<1>1. IdleWorker \in Worker
  BY DEF IdleWorker, Worker, WorkerPc, NewRow, Row, CampaignStatus
<1>2. CASE RejectJob
  <2>1. job[worker.log].attempts + 1 \in 0..MaxAttempts
    BY BusyWorker, AttemptsAssumption
  <2> QED
    BY <1>1, <1>2, <2>1, BusyWorker DEF TypeOK, RejectJob, Job, JobState
<1>3. CASE ~RejectJob
  BY <1>3, ZenonT(40) DEF TypeOK, Throw, Worker, WorkerPc
<1> QED
  BY <1>2, <1>3

\* Counting one more keeps a family of counters a family of counters.
LEMMA Bump ==
  ASSUME NEW S, NEW f \in [S -> Nat], NEW x
  PROVE  [f EXCEPT ![x] = @ + 1] \in [S -> Nat]
<1>1. ASSUME NEW i \in S PROVE [f EXCEPT ![x] = @ + 1][i] \in Nat
  <2>1. CASE i = x
    BY <2>1
  <2>2. CASE i # x
    BY <2>2
  <2> QED
    BY <2>1, <2>2
<1> QED
  BY <1>1

\* What a step of the worker assigns keeps its type.
LEMMA WorkerTypes ==
  ASSUME TypeOK, Bookkeeping, WorkerStep
  PROVE  TypeOK'
<1> USE DEF rowVars, historyVars, boundVars
<1>1. ASSUME NEW pc \in WorkerPc PROVE [worker EXCEPT !.pc = pc] \in Worker
  BY DEF TypeOK, Worker
<1>2. CASE TakeJob
  <2>1. ASSUME NEW l \in Logs
        PROVE [IdleWorker EXCEPT !.pc = "check", !.log = l] \in Worker
    BY DEF IdleWorker, Worker, WorkerPc, NewRow, Row, CampaignStatus
  <2>2. worker' \in Worker
    BY <1>2, <2>1 DEF TakeJob
  <2>3. job' \in [Logs -> Job]
    BY <1>2 DEF TypeOK, TakeJob, Job, JobState
  <2> QED
    BY <1>2, <2>2, <2>3 DEF TypeOK, TakeJob
<1>3. CASE CheckCampaign
  BY <1>3, <1>1, FinishTypes DEF TypeOK, CheckCampaign, Step, WorkerPc
<1>4. CASE CheckContact
  BY <1>4 DEF TypeOK, CheckContact, Worker, WorkerPc
<1>5. CASE CheckIdempotency
  BY <1>5, <1>1, FinishTypes DEF TypeOK, CheckIdempotency, Step, WorkerPc
<1>6. CASE AcquireToken
  BY <1>6, <1>1, ThrowTypes DEF TypeOK, AcquireToken, Step, WorkerPc
<1>7. ASSUME Transmit
      PROVE /\ transmitted' \in [Logs -> Nat]
            /\ late' \in Nat
            /\ afterOptOut' \in [Contacts -> Nat]
  <2>1. /\ transmitted \in [Logs -> Nat] /\ late \in Nat
        /\ afterOptOut \in [Contacts -> Nat]
    BY DEF TypeOK
  <2> QED
    BY <1>7, <2>1, Bump DEF Transmit
<1>18. ASSUME lost' = [lost EXCEPT ![worker.log] = @ + 1]
       PROVE lost' \in [Logs -> Nat]
  BY <1>18, Bump DEF TypeOK
<1>8. CASE SendAnswered
  BY <1>8, <1>7 DEF TypeOK, SendAnswered, Worker, WorkerPc
<1>9. CASE SendUnanswered
  <2>1. lost' \in [Logs -> Nat]
    BY <1>9, <1>18 DEF SendUnanswered
  <2>2. job' \in [Logs -> Job] /\ worker' \in Worker
    BY <1>9, ThrowTypes DEF SendUnanswered
  <2> QED
    BY <1>9, <1>7, <2>1, <2>2 DEF TypeOK, SendUnanswered
<1>10. CASE SendRefused
  BY <1>10, ThrowTypes DEF TypeOK, SendRefused
<1>11. CASE RecordStatus
  <2>1. worker' \in Worker
    BY <1>11, <1>1 DEF RecordStatus, Step, WorkerPc
  <2>2. log' \in [Logs -> LogRow]
    BY <1>11, BusyWorker DEF TypeOK, RecordStatus, Worker, LogRow
  <2> QED
    BY <1>11, <2>1, <2>2 DEF TypeOK, RecordStatus
<1>12. CASE IncrementCounter
  <2>1. campaign' \in Row
    BY <1>12 DEF TypeOK, IncrementCounter, Row
  <2>2. worker' \in Worker
    BY <1>12, <1>1 DEF IncrementCounter, Step, WorkerPc
  <2> QED
    BY <1>12, <2>1, <2>2 DEF TypeOK, IncrementCounter
<1>13. CASE ReadProgress
  BY <1>13 DEF TypeOK, ReadProgress, Worker, WorkerPc
<1>14. CASE SaveCompleted
  <2>1. [worker.row EXCEPT !.status = "COMPLETED"] \in Row
    BY DEF TypeOK, Worker, Row, CampaignStatus
  <2> QED
    BY <1>14, <1>1, <2>1 DEF TypeOK, SaveCompleted, Save, Step, WorkerPc
<1>15. CASE EmitAndReturn
  BY <1>15, FinishTypes DEF TypeOK, EmitAndReturn
<1>16. CASE RecordFails
  <2>1. lost' \in [Logs -> Nat]
    BY <1>16, <1>18 DEF RecordFails
  <2>2. job' \in [Logs -> Job] /\ worker' \in Worker
    BY <1>16, ThrowTypes DEF RecordFails
  <2> QED
    BY <1>16, <2>1, <2>2 DEF TypeOK, RecordFails
<1>17. CASE DatabaseFails
  BY <1>17, ThrowTypes DEF TypeOK, DatabaseFails
<1> QED
  BY <1>2, <1>3, <1>4, <1>5, <1>6, <1>8, <1>9, <1>10, <1>11, <1>12, <1>13,
     <1>14, <1>15, <1>16, <1>17 DEF WorkerStep

\* What the environment assigns keeps its type.
LEMMA EnvironmentTypes ==
  ASSUME TypeOK, Bookkeeping,
         \/ \E l \in Logs : BackoffElapses(l)
         \/ \E c \in Contacts : OptOut(c) \/ OptIn(c)
         \/ Crash
  PROVE  TypeOK'
<1> USE DEF rowVars, historyVars, boundVars
<1>1. ASSUME NEW l \in Logs, BackoffElapses(l) PROVE TypeOK'
  BY <1>1 DEF TypeOK, BackoffElapses, Job, JobState
<1>2. ASSUME NEW c \in Contacts, OptOut(c) \/ OptIn(c) PROVE TypeOK'
  <2>1. CASE OptOut(c)
    BY <2>1 DEF TypeOK, OptOut
  <2>2. CASE OptIn(c)
    BY <2>2 DEF TypeOK, OptIn
  <2> QED
    BY <1>2, <2>1, <2>2
<1>3. CASE Crash
  <2>1. IdleWorker \in Worker /\ IdleRequest \in Request
    BY DEF IdleWorker, Worker, WorkerPc, NewRow, Row, CampaignStatus,
           IdleRequest, Request, RequestPc
  <2>2. crashes' \in 0..MaxCrashes
    BY <1>3, BoundsAssumption DEF TypeOK, Crash
  <2>3. job' \in [Logs -> Job] /\ lost' \in [Logs -> Nat]
    <3>1. CASE worker.pc = "idle"
      BY <1>3, <3>1 DEF TypeOK, Crash
    <3>2. CASE worker.pc # "idle"
      <4>1. job[worker.log].stalls + 1 \in 0..(MaxStalls + 1)
        BY <3>2, BusyWorker, AttemptsAssumption
      <4>2. [job[worker.log] EXCEPT !.stalls = job[worker.log].stalls + 1,
               !.state = IF job[worker.log].stalls < MaxStalls
                           THEN "waiting" ELSE "failed"] \in Job
        BY <3>2, <4>1, BusyWorker DEF Job, JobState
      <4>3. job' \in [Logs -> Job]
        BY <1>3, <3>2, <4>2, BusyWorker DEF TypeOK, Crash
      <4>4. lost' = lost \/ lost' = [lost EXCEPT ![worker.log] = @ + 1]
        BY <1>3, <3>2 DEF Crash
      <4> QED
        BY <4>3, <4>4, Bump DEF TypeOK
    <3> QED
      BY <3>1, <3>2
  <2> QED
    BY <1>3, <2>1, <2>2, <2>3 DEF TypeOK, Crash
<1> QED
  BY <1>1, <1>2, <1>3

(***************************************************************************)
(* Bookkeeping of rows, jobs and processes.                                *)
(***************************************************************************)

\* The initial state has no job and nobody at work.
LEMMA InitBookkeeping == Init => Bookkeeping
BY AttemptsAssumption
   DEF Init, Bookkeeping, WorkerBusy, JobsWellFormed, EnqueuesFresh, IdleWorker,
       IdleRequest, NoLogRow, NewRow

\* A step that creates no enqueuing request, forgets no row and adds no job
\* keeps EnqueuesFresh.
LEMMA QuietRequests ==
  ASSUME EnqueuesFresh,
         \A s \in Requests : req'[s].pc = "enqueue" => req'[s] = req[s],
         \A l \in Logs : log[l].status # "NONE" => log'[l].status # "NONE",
         \A l \in Logs : job[l].state = "none" => job'[l].state = "none"
  PROVE  EnqueuesFresh'
BY DEF EnqueuesFresh, Created

\* A request step keeps the books.
LEMMA RequestBookkeeping ==
  ASSUME TypeOK, Bookkeeping, NEW r \in Requests,
         NewRequest(r) \/ RequestStep(r) \/ RequestFails(r)
  PROVE  Bookkeeping'
<1> USE DEF rowVars, historyVars, boundVars
<1>1. req \in [Requests -> Request] /\ log \in [Logs -> LogRow] /\ job \in [Logs -> Job]
  BY DEF TypeOK
<1>2. CASE CreateLog(r)
  <2>1. CASE Respond(r) /\ UNCHANGED log
    BY <2>1, <1>1, <1>2, QuietRequests
    DEF CreateLog, Respond, IdleRequest, Bookkeeping, WorkerBusy, JobsWellFormed
  <2>2. ASSUME NEW c \in req[r].todo, NEW l \in Logs \ Created,
               log' = [log EXCEPT ![l] = [status |-> "PENDING", contact |-> c,
                                          wa |-> FALSE, linked |-> TRUE]],
               req' = [req EXCEPT ![r] = [@ EXCEPT
                         !.pc = "enqueue", !.todo = req[r].todo \ {c}, !.log = l]]
        PROVE Bookkeeping'
    <3>1. UNCHANGED << job, worker, transmitted >>
      BY <1>2 DEF CreateLog
    <3>2. /\ req'[r].log = l
          /\ \A s \in Requests \ {r} : req'[s] = req[s]
          /\ Created' = Created \cup {l} /\ l \notin Created
          /\ job[l].state = "none"
      BY <1>1, <2>2 DEF Request, Created, Bookkeeping, JobsWellFormed
    <3>3. EnqueuesFresh'
      BY <3>1, <3>2 DEF EnqueuesFresh, Bookkeeping
    <3> QED
      BY <3>1, <3>3, <2>2, <1>1 DEF Bookkeeping, WorkerBusy, JobsWellFormed, Created
  <2> QED
    BY <1>2, <2>1, <2>2 DEF CreateLog
<1>3. CASE EnqueueJob(r)
  <2>1. /\ UNCHANGED << log, worker, transmitted >>
        /\ req'[r].pc # "enqueue"
        /\ \A s \in Requests \ {r} : req'[s] = req[s]
    BY <1>1, <1>3 DEF EnqueueJob, Goto, Request
  <2>2. /\ req[r].log \in Created /\ job[req[r].log].state = "none"
        /\ job' = [job EXCEPT ![req[r].log].state = "waiting"]
    BY <1>3 DEF EnqueueJob, Bookkeeping, EnqueuesFresh
  <2>3. EnqueuesFresh'
    BY <2>1, <2>2, <1>1, <1>3 DEF EnqueuesFresh, Bookkeeping, Created, EnqueueJob
  <2>4. JobsWellFormed' /\ WorkerBusy'
    BY <2>1, <2>2, <1>1 DEF JobsWellFormed, WorkerBusy, Bookkeeping, Created, Job
  <2> QED
    BY <2>3, <2>4 DEF Bookkeeping
<1>4. CASE FailPendingLogs(r) \/ DeleteRow(r)
  <2>1. /\ UNCHANGED << job, worker, transmitted >>
        /\ req'[r].pc # "enqueue"
        /\ \A s \in Requests \ {r} : req'[s] = req[s]
        /\ \A l \in Logs : log'[l].wa = log[l].wa
        /\ \A l \in Logs : log'[l].status = "NONE" <=> log[l].status = "NONE"
    BY <1>1, <1>4 DEF FailPendingLogs, DeleteRow, Goto, Respond, IdleRequest,
                      Request, LogRow
  <2> QED
    BY <2>1, QuietRequests DEF Bookkeeping, WorkerBusy, JobsWellFormed
<1>5. CASE \/ NewRequest(r) \/ RequestFails(r) \/ CheckSession(r)
           \/ PickContacts(r) \/ SaveStart(r) \/ SavePause(r)
           \/ SaveCancel(r) \/ SaveEdit(r)
  <2>1. UNCHANGED << log, job, worker, transmitted >>
    BY <1>5 DEF NewRequest, BeginStart, BeginPause, BeginCancel, BeginEdit,
       BeginRemove, RequestFails, CheckSession, PickContacts, SaveStart,
       SavePause, SaveCancel, SaveEdit
  <2>2. /\ req'[r].pc # "enqueue"
        /\ \A s \in Requests \ {r} : req'[s] = req[s]
    <3>1. CASE NewRequest(r)
      BY <1>1, <3>1 DEF NewRequest, BeginStart, BeginPause, BeginCancel,
                        BeginEdit, BeginRemove, Load, Request
    <3>2. CASE CheckSession(r)
      BY <1>1, <3>2 DEF CheckSession, Goto, Respond, IdleRequest, Request
    <3>4. CASE PickContacts(r)
      <4>1. CASE Respond(r)
        BY <1>1, <4>1 DEF Respond, IdleRequest
      <4>2. CASE ~Respond(r)
        BY <1>1, <3>4, <4>2 DEF PickContacts, Request
      <4> QED
        BY <4>1, <4>2
    <3>3. CASE \/ RequestFails(r) \/ SaveStart(r) \/ SavePause(r)
               \/ SaveCancel(r) \/ SaveEdit(r)
      BY <1>1, <3>3 DEF RequestFails, SaveStart, SavePause, SaveCancel, SaveEdit,
                        Respond, IdleRequest
    <3> QED
      BY <1>5, <3>1, <3>2, <3>3, <3>4
  <2> QED
    BY <2>1, <2>2, QuietRequests DEF Bookkeeping, WorkerBusy, JobsWellFormed
<1> QED
  BY <1>2, <1>3, <1>4, <1>5 DEF RequestStep

AttemptOver == FinishJob \/ Throw(TRUE) \/ Throw(FALSE)

\* The end of an attempt leaves the worker idle, or in its catch block with the
\* job still active.
LEMMA AttemptEnds ==
  ASSUME TypeOK, Bookkeeping, worker.pc # "idle", AttemptOver
  PROVE  LET l == worker.log IN
         /\ \A k \in Logs \ {l} : job'[k] = job[k]
         /\ \/ /\ worker'.pc = "idle"
               /\ job'[l].state \in {"completed", "delayed", "failed"}
            \/ /\ worker'.pc = "record" /\ worker'.outcome = "FAILED"
               /\ worker'.log = l
               /\ job' = job
         /\ job'[l].state = "completed" => job'[l] = [job[l] EXCEPT !.state = "completed"]
         /\ job'[l].state \in {"delayed", "failed"} =>
              /\ job'[l].stalls = job[l].stalls
              /\ job'[l].attempts = job[l].attempts + 1
         /\ job'[l].state = "delayed" => job'[l].attempts < MaxAttempts
<1> DEFINE l == worker.log
<1>1. job \in [Logs -> Job] /\ worker \in Worker
  BY DEF TypeOK
<1>2. CASE FinishJob
  BY <1>1, <1>2, BusyWorker DEF FinishJob, IdleWorker, Job
<1>3. ASSUME NEW cap \in BOOLEAN, Throw(cap), RejectJob
      PROVE  /\ worker'.pc = "idle"
             /\ \A k \in Logs \ {l} : job'[k] = job[k]
             /\ job'[l].state \in {"delayed", "failed"}
             /\ job'[l].stalls = job[l].stalls
             /\ job'[l].attempts = job[l].attempts + 1
             /\ job'[l].state = "delayed" => job'[l].attempts < MaxAttempts
  BY <1>1, <1>3, BusyWorker DEF RejectJob, IdleWorker, Job
<1>4. ASSUME NEW cap \in BOOLEAN, Throw(cap), ~RejectJob
      PROVE  /\ worker'.pc = "record" /\ worker'.outcome = "FAILED"
             /\ worker'.log = l
             /\ job' = job
  BY <1>1, <1>4 DEF Throw, Worker
<1> QED
  BY <1>2, <1>3, <1>4, BusyWorker DEF AttemptOver

\* A step disturbs the job, row and counter of one log only: the worker goes on
\* with it, or its attempt is over.
Frame(l) ==
  /\ \A k \in Logs \ {l} : /\ job'[k] = job[k]
                           /\ log'[k] = log[k]
                           /\ transmitted'[k] = transmitted[k]
  /\ log'[l].status # "NONE" /\ log'[l].contact = log[l].contact
  /\ log[l].wa => log'[l].wa
  /\ \/ worker'.pc # "idle" /\ worker'.log = l /\ job' = job
     \/ /\ worker'.pc = "idle"
        /\ \/ job'[l] = [job[l] EXCEPT !.state = "completed"]
           \/ /\ job'[l].state \in {"delayed", "failed"}
              /\ job'[l].stalls = job[l].stalls
              /\ job'[l].attempts = job[l].attempts + 1
              /\ job'[l].state = "delayed" => job'[l].attempts < MaxAttempts

\* Every step of a busy worker keeps to its own log.
LEMMA WorkerFrame ==
  ASSUME TypeOK, Bookkeeping, WorkerStep, worker.pc # "idle"
  PROVE  Frame(worker.log)
<1> DEFINE l == worker.log
<1> USE DEF rowVars, historyVars, boundVars
<1>1. /\ log \in [Logs -> LogRow] /\ job \in [Logs -> Job] /\ worker \in Worker
      /\ transmitted \in [Logs -> Nat]
  BY DEF TypeOK
<1>2. l \in Logs /\ log[l].status # "NONE"
  BY BusyWorker
<1>3. ASSUME AttemptOver, UNCHANGED log,
             \A k \in Logs \ {l} : transmitted'[k] = transmitted[k]
      PROVE  Frame(l)
  BY <1>2, <1>3, AttemptEnds DEF Frame
<1>4. ASSUME UNCHANGED << log, job >>, worker'.log = l, worker'.pc # "idle",
             \A k \in Logs \ {l} : transmitted'[k] = transmitted[k]
      PROVE  Frame(l)
  BY <1>2, <1>4 DEF Frame
<1>5. ASSUME NEW pc \in WorkerPc \ {"idle"}, Step(pc)
      PROVE  worker'.log = l /\ worker'.pc # "idle"
  BY <1>1, <1>5 DEF Step, Worker
<1>6. ASSUME Transmit PROVE \A k \in Logs \ {l} : transmitted'[k] = transmitted[k]
  BY <1>1, <1>6 DEF Transmit
<1>7. CASE CheckContact \/ ReadProgress \/ SaveCompleted \/ IncrementCounter
  <2>1. /\ UNCHANGED << log, job, transmitted >>
        /\ worker'.log = l /\ worker'.pc # "idle"
    BY <1>1, <1>7 DEF CheckContact, ReadProgress, SaveCompleted, IncrementCounter,
                      Step, Worker
  <2> QED
    BY <2>1, <1>4
<1>8. CASE RecordStatus
  <2>1. UNCHANGED << job, transmitted >> /\ worker'.log = l /\ worker'.pc # "idle"
    BY <1>1, <1>8 DEF RecordStatus, Step, Worker
  <2>2. /\ \A k \in Logs \ {l} : log'[k] = log[k]
        /\ log'[l].status = worker.outcome
        /\ log'[l].contact = log[l].contact
        /\ log[l].wa => log'[l].wa
    BY <1>1, <1>2, <1>8 DEF RecordStatus, LogRow
  <2> QED
    BY <1>1, <2>1, <2>2 DEF Worker, Frame
<1>9. CASE SendAnswered
  <2>1. UNCHANGED << job, log >> /\ worker'.log = l /\ worker'.pc # "idle"
    BY <1>1, <1>9 DEF SendAnswered, Worker
  <2> QED
    BY <2>1, <1>4, <1>6, <1>9 DEF SendAnswered
<1>10. CASE CheckCampaign
  BY <1>10, <1>3, <1>4, <1>5 DEF CheckCampaign, AttemptOver, WorkerPc
<1>11. CASE CheckIdempotency
  BY <1>11, <1>3, <1>4, <1>5 DEF CheckIdempotency, AttemptOver, WorkerPc
<1>12. CASE AcquireToken
  BY <1>12, <1>3, <1>4, <1>5 DEF AcquireToken, AttemptOver, WorkerPc
<1>13. CASE SendUnanswered
  BY <1>13, <1>3, <1>6 DEF SendUnanswered, AttemptOver
<1>14. CASE SendRefused \/ EmitAndReturn \/ RecordFails \/ DatabaseFails
  BY <1>14, <1>3 DEF SendRefused, EmitAndReturn, RecordFails, DatabaseFails, AttemptOver
<1> QED
  BY <1>7, <1>8, <1>9, <1>10, <1>11, <1>12, <1>13, <1>14 DEF WorkerStep, TakeJob

\* A step of the worker keeps the books.
LEMMA WorkerBookkeeping ==
  ASSUME TypeOK, Bookkeeping, WorkerStep
  PROVE  Bookkeeping'
<1> USE DEF rowVars, historyVars, boundVars
<1>1. /\ log \in [Logs -> LogRow] /\ job \in [Logs -> Job] /\ worker \in Worker
      /\ transmitted \in [Logs -> Nat]
  BY DEF TypeOK
<1>2. UNCHANGED req
  BY DEF WorkerStep, TakeJob, CheckCampaign, CheckContact, CheckIdempotency,
     AcquireToken, SendAnswered, SendUnanswered, SendRefused, RecordStatus,
     IncrementCounter, ReadProgress, SaveCompleted, EmitAndReturn, RecordFails,
     DatabaseFails
<1>3. CASE TakeJob
  BY <1>1, <1>2, <1>3, QuietRequests
  DEF TakeJob, Bookkeeping, WorkerBusy, JobsWellFormed, IdleWorker, Job
<1>4. CASE worker.pc # "idle"
  <2> DEFINE l == worker.log
  <2>1. Frame(l) /\ l \in Logs
    BY <1>4, WorkerFrame, BusyWorker
  <2>2. WorkerBusy'
    BY <1>4, <2>1, BusyWorker DEF Frame, WorkerBusy
  <2>3. JobsWellFormed'
    <3>1. job'[l].state # "none" /\ log'[l].status # "NONE"
      BY <1>1, <1>4, <2>1, BusyWorker DEF Frame, Job
    <3>2. /\ job'[l].state # "failed" =>
               job'[l].attempts < MaxAttempts /\ job'[l].stalls <= MaxStalls
          /\ job'[l].attempts + job'[l].stalls <= MaxAttempts + MaxStalls
      BY <1>1, <1>4, <2>1, BusyWorker, AttemptsAssumption DEF Frame, Job
    <3> QED
      BY <2>1, <3>1, <3>2 DEF Frame, JobsWellFormed, Bookkeeping
  <2>4. EnqueuesFresh'
    BY <1>2, <1>4, <2>1, BusyWorker, QuietRequests DEF Frame, Bookkeeping
  <2> QED
    BY <2>2, <2>3, <2>4 DEF Bookkeeping
<1> QED
  BY <1>3, <1>4 DEF WorkerStep, CheckCampaign, CheckContact, CheckIdempotency,
     AcquireToken, SendAnswered, SendUnanswered, SendRefused, RecordStatus,
     IncrementCounter, ReadProgress, SaveCompleted, EmitAndReturn, RecordFails,
     DatabaseFails

EnvironmentStep ==
  \/ \E l \in Logs : BackoffElapses(l)
  \/ \E c \in Contacts : OptOut(c) \/ OptIn(c)
  \/ Crash

\* A crash leaves nobody at work and at most one job changed: stalled once more.
LEMMA CrashFrame ==
  ASSUME TypeOK, Bookkeeping, Crash
  PROVE  /\ worker' = IdleWorker /\ worker'.pc = "idle"
         /\ \A r \in Requests : req'[r].pc = "idle"
         /\ UNCHANGED << campaign, late, optedOut, log, transmitted, afterOptOut >>
         /\ worker.pc = "idle" => UNCHANGED << job, lost >>
         /\ worker.pc # "idle" =>
              LET l == worker.log IN
              /\ \A k \in Logs \ {l} : job'[k] = job[k]
              /\ job'[l].attempts = job[l].attempts
              /\ job'[l].stalls = job[l].stalls + 1
              /\ job'[l].state = IF job[l].stalls < MaxStalls
                                   THEN "waiting" ELSE "failed"
              /\ lost' = IF Window THEN [lost EXCEPT ![l] = @ + 1] ELSE lost
<1> USE DEF rowVars
<1>1. job \in [Logs -> Job]
  BY DEF TypeOK
<1>2. /\ worker' = IdleWorker /\ worker'.pc = "idle"
      /\ \A r \in Requests : req'[r].pc = "idle"
      /\ UNCHANGED << campaign, late, optedOut, log, transmitted, afterOptOut >>
      /\ worker.pc = "idle" => UNCHANGED << job, lost >>
  BY DEF Crash, IdleWorker, IdleRequest
<1>3. ASSUME worker.pc # "idle"
      PROVE  LET l == worker.log IN
             /\ \A k \in Logs \ {l} : job'[k] = job[k]
             /\ job'[l].attempts = job[l].attempts
             /\ job'[l].stalls = job[l].stalls + 1
             /\ job'[l].state = IF job[l].stalls < MaxStalls
                                  THEN "waiting" ELSE "failed"
             /\ lost' = IF Window THEN [lost EXCEPT ![l] = @ + 1] ELSE lost
  <2> DEFINE l == worker.log
             after == [job[l] EXCEPT !.stalls = job[l].stalls + 1,
               !.state = IF job[l].stalls < MaxStalls THEN "waiting" ELSE "failed"]
  <2>1. job' = [job EXCEPT ![l] = after]
    BY <1>1, <1>3, BusyWorker DEF Crash
  <2>2. lost' = IF Window THEN [lost EXCEPT ![l] = @ + 1] ELSE lost
    BY <1>3 DEF Crash, Window
  <2>3. /\ after.attempts = job[l].attempts
        /\ after.stalls = job[l].stalls + 1
        /\ after.state = IF job[l].stalls < MaxStalls THEN "waiting" ELSE "failed"
    BY <1>3, BusyWorker DEF Job
  <2>4. job'[l] = after /\ \A k \in Logs \ {l} : job'[k] = job[k]
    BY <1>1, <1>3, <2>1, BusyWorker
  <2> QED
    BY <2>2, <2>3, <2>4
<1> QED
  BY <1>2, <1>3

\* A step of the environment keeps the books.
LEMMA EnvironmentBookkeeping ==
  ASSUME TypeOK, Bookkeeping, EnvironmentStep
  PROVE  Bookkeeping'
<1> USE DEF rowVars, historyVars, boundVars
<1>1. /\ log \in [Logs -> LogRow] /\ job \in [Logs -> Job] /\ worker \in Worker
      /\ transmitted \in [Logs -> Nat]
  BY DEF TypeOK
<1>2. ASSUME NEW l \in Logs, BackoffElapses(l) PROVE Bookkeeping'
  <2>1. /\ UNCHANGED << log, worker, req, transmitted >>
        /\ job[l].state = "delayed"
        /\ job' = [job EXCEPT ![l].state = "waiting"]
    BY <1>2 DEF BackoffElapses
  <2>2. WorkerBusy' /\ JobsWellFormed'
    BY <1>1, <2>1 DEF Bookkeeping, WorkerBusy, JobsWellFormed, Job
  <2>3. EnqueuesFresh'
    BY <1>1, <2>1, QuietRequests DEF Bookkeeping, Job
  <2> QED
    BY <2>2, <2>3 DEF Bookkeeping
<1>3. ASSUME NEW c \in Contacts, OptOut(c) \/ OptIn(c) PROVE Bookkeeping'
  BY <1>3 DEF OptOut, OptIn, Bookkeeping, WorkerBusy, JobsWellFormed,
              EnqueuesFresh, Created
<1>4. CASE Crash
  <2>1. WorkerBusy' /\ EnqueuesFresh'
    BY <1>4, CrashFrame DEF WorkerBusy, EnqueuesFresh
  <2>2. JobsWellFormed'
    <3>1. CASE worker.pc = "idle"
      BY <1>4, <3>1, CrashFrame DEF JobsWellFormed, Bookkeeping
    <3>2. CASE worker.pc # "idle"
      BY <1>1, <1>4, <3>2, CrashFrame, BusyWorker, AttemptsAssumption
      DEF JobsWellFormed, Bookkeeping
    <3> QED
      BY <3>1, <3>2
  <2> QED
    BY <2>1, <2>2 DEF Bookkeeping
<1> QED
  BY <1>2, <1>3, <1>4 DEF EnvironmentStep

(***************************************************************************)
(* Types and bookkeeping together are inductive.                           *)
(***************************************************************************)

\* Every step of the system is one of four kinds.
LEMMA StepKinds ==
  ASSUME [Next]_vars
  PROVE  \/ \E r \in Requests : NewRequest(r) \/ RequestStep(r) \/ RequestFails(r)
         \/ WorkerStep
         \/ EnvironmentStep
         \/ UNCHANGED vars
BY DEF Next, EnvironmentStep

\* Types and books are kept by every step.
LEMMA TypeStep ==
  ASSUME TypeOK, Bookkeeping, [Next]_vars
  PROVE  TypeOK' /\ Bookkeeping'
<1>1. CASE \E r \in Requests : NewRequest(r) \/ RequestStep(r) \/ RequestFails(r)
  BY <1>1, RequestTypes, RequestBookkeeping
<1>2. CASE WorkerStep
  BY <1>2, WorkerTypes, WorkerBookkeeping
<1>3. CASE EnvironmentStep
  BY <1>3, EnvironmentTypes, EnvironmentBookkeeping DEF EnvironmentStep
<1>4. CASE UNCHANGED vars
  BY <1>4 DEF vars, TypeOK, Bookkeeping, WorkerBusy, JobsWellFormed,
              EnqueuesFresh, Created
<1> QED
  BY <1>1, <1>2, <1>3, <1>4, StepKinds

(***************************************************************************)
(* How many copies of a message go out.                                    *)
(***************************************************************************)

\* What a step of a busy worker does to its own message: it sends it from
\* "send" only, and then is past the send or has used up the attempt.
LEMMA WorkerSends ==
  ASSUME TypeOK, Bookkeeping, WorkerStep, worker.pc # "idle"
  PROVE  LET l == worker.log IN
         \/ /\ transmitted'[l] = transmitted[l]
            /\ worker.pc \in PastSend => worker'.pc \in PastSend \cup {"idle"}
            /\ worker.pc \in PastSend => job[l].state # "completed"
         \/ /\ worker.pc = "send" /\ transmitted'[l] = transmitted[l] + 1
            /\ \/ worker'.pc \in PastSend
               \/ job'[l].attempts = job[l].attempts + 1
<1> DEFINE l == worker.log
<1> USE DEF rowVars, historyVars, PastSend
<1>1. /\ worker \in Worker /\ transmitted \in [Logs -> Nat] /\ l \in Logs
      /\ job[l].state = "active"
  BY BusyWorker DEF TypeOK
<1>2. ASSUME Throw(TRUE) \/ Throw(FALSE)
      PROVE  \/ worker'.pc = "idle" /\ job'[l].attempts = job[l].attempts + 1
             \/ worker'.pc = "record"
  <2>1. CASE RejectJob
    <3>1. job \in [Logs -> Job] /\ job[l].attempts + 1 \in Nat
      BY <1>1 DEF TypeOK, Job
    <3>2. job'[l].attempts = job[l].attempts + 1
      BY <1>1, <2>1, <3>1 DEF RejectJob, Job
    <3> QED
      BY <2>1, <3>2 DEF RejectJob, IdleWorker
  <2>2. CASE ~RejectJob
    BY <1>1, <1>2, <2>2 DEF Throw, Worker
  <2> QED
    BY <2>1, <2>2
<1>9. ASSUME FinishJob PROVE worker'.pc = "idle"
  BY <1>9 DEF FinishJob, IdleWorker
<1>3. CASE SendAnswered
  BY <1>1, <1>3 DEF SendAnswered, Transmit, Worker
<1>4. CASE SendUnanswered
  BY <1>1, <1>2, <1>4 DEF SendUnanswered, Transmit
<1>5. CASE CheckContact \/ ReadProgress
  BY <1>1, <1>5 DEF CheckContact, ReadProgress, Worker
<1>6. CASE CheckCampaign \/ CheckIdempotency \/ AcquireToken \/ SendRefused
  BY <1>1, <1>6 DEF CheckCampaign, CheckIdempotency, AcquireToken, SendRefused
<1>7. CASE RecordStatus \/ IncrementCounter \/ SaveCompleted
  BY <1>1, <1>7 DEF RecordStatus, IncrementCounter, SaveCompleted, Step, Worker
<1>8. CASE EmitAndReturn \/ RecordFails \/ DatabaseFails
  BY <1>1, <1>2, <1>8, <1>9 DEF EmitAndReturn, RecordFails, DatabaseFails
<1> QED
  BY <1>3, <1>4, <1>5, <1>6, <1>7, <1>8 DEF WorkerStep, TakeJob

\* Requests add jobs that sent nothing; they send nothing themselves.
LEMMA RequestFrame ==
  ASSUME TypeOK, Bookkeeping, NEW r \in Requests,
         NewRequest(r) \/ RequestStep(r) \/ RequestFails(r)
  PROVE  /\ UNCHANGED << worker, optedOut, historyVars >>
         /\ \A l \in Logs : \/ job'[l] = job[l]
                            \/ /\ job[l].state = "none" /\ job'[l].state = "waiting"
                               /\ job'[l].attempts = job[l].attempts
                               /\ job'[l].stalls = job[l].stalls
         /\ \A l \in Logs : log[l].status # "NONE" =>
              log'[l].wa = log[l].wa /\ log'[l].contact = log[l].contact
         /\ \A l \in Logs : log[l].status = "NONE" => ~log[l].wa /\ ~log'[l].wa
         /\ \A l \in Logs : log'[l].status = "NONE" =>
              log[l].status = "NONE" /\ log'[l].contact = log[l].contact
<1> USE DEF rowVars, boundVars
<1>1. /\ log \in [Logs -> LogRow] /\ job \in [Logs -> Job] /\ req \in [Requests -> Request]
      /\ \A l \in Logs : log[l].status = "NONE" => ~log[l].wa
  BY DEF TypeOK, Bookkeeping, JobsWellFormed
<1>2. CASE EnqueueJob(r)
  <2>1. job[req[r].log].state = "none"
    BY <1>2 DEF EnqueueJob, Bookkeeping, EnqueuesFresh
  <2> QED
    BY <1>1, <1>2, <2>1 DEF EnqueueJob, Job
<1>3. CASE CreateLog(r)
  <2>1. UNCHANGED << job, worker, optedOut, historyVars >>
    BY <1>3 DEF CreateLog
  <2>2. \/ UNCHANGED log
        \/ \E c \in req[r].todo, l \in Logs : /\ log[l].status = "NONE"
             /\ log' = [log EXCEPT ![l] = [status |-> "PENDING", contact |-> c,
                                           wa |-> FALSE, linked |-> TRUE]]
    BY <1>3 DEF CreateLog, Created
  <2> QED
    BY <1>1, <2>1, <2>2
<1>4. CASE FailPendingLogs(r)
  BY <1>1, <1>4 DEF FailPendingLogs, LogRow
<1>5. CASE DeleteRow(r)
  BY <1>1, <1>5 DEF DeleteRow, LogRow
<1>6. CASE NewRequest(r)
  BY <1>1, <1>6 DEF NewRequest, BeginStart, BeginPause, BeginCancel, BeginEdit,
                    BeginRemove
<1>7. CASE \/ RequestFails(r) \/ CheckSession(r) \/ PickContacts(r) \/ SaveStart(r)
           \/ SavePause(r) \/ SaveCancel(r) \/ SaveEdit(r)
  BY <1>1, <1>7 DEF RequestFails, CheckSession, PickContacts, SaveStart, SavePause,
                    SaveCancel, SaveEdit
<1> QED
  BY <1>2, <1>3, <1>4, <1>5, <1>6, <1>7 DEF RequestStep

\* Every message sent is paid for by an attempt or a stall, in every step.
LEMMA CopiesStep ==
  ASSUME TypeOK, Bookkeeping, CopiesCounted, [Next]_vars
  PROVE  CopiesCounted'
<1> USE DEF historyVars
<1>1. /\ job \in [Logs -> Job] /\ worker \in Worker
      /\ transmitted \in [Logs -> Nat]
      /\ \A l \in Logs : job[l].attempts \in Nat /\ job[l].stalls \in Nat
  BY AttemptsAssumption DEF TypeOK, Job
<1>2. ASSUME NEW r \in Requests, NewRequest(r) \/ RequestStep(r) \/ RequestFails(r)
      PROVE  CopiesCounted'
  BY <1>1, <1>2, RequestFrame DEF CopiesCounted, One
<1>3. CASE TakeJob
  BY <1>1, <1>3 DEF TakeJob, CopiesCounted, One, IdleWorker, PastSend, Job
<1>4. CASE WorkerStep /\ worker.pc # "idle"
  <2> DEFINE l == worker.log
  <2>1. Frame(l) /\ l \in Logs /\ job[l].state = "active"
    BY <1>4, WorkerFrame, BusyWorker
  <2>2. ASSUME NEW k \in Logs \ {l}
        PROVE transmitted'[k] <= job'[k].attempts + job'[k].stalls
                + One(\/ job'[k].state = "completed"
                      \/ worker'.log = k /\ worker'.pc \in PastSend)
    BY <2>1, <1>1 DEF Frame, CopiesCounted, One, PastSend
  <2>3. transmitted'[l] <= job'[l].attempts + job'[l].stalls
          + One(\/ job'[l].state = "completed"
                \/ worker'.log = l /\ worker'.pc \in PastSend)
    BY <2>1, <1>1, <1>4, WorkerSends DEF Frame, CopiesCounted, One, PastSend, Job
  <2> QED
    BY <2>2, <2>3 DEF CopiesCounted
<1>5. ASSUME NEW l \in Logs, BackoffElapses(l) PROVE CopiesCounted'
  BY <1>1, <1>5 DEF BackoffElapses, CopiesCounted, One, Job
<1>6. ASSUME NEW c \in Contacts, OptOut(c) \/ OptIn(c) PROVE CopiesCounted'
  BY <1>6 DEF OptOut, OptIn, CopiesCounted
<1>7. CASE Crash
  <2>1. CASE worker.pc = "idle"
    BY <1>7, <2>1, CrashFrame DEF CopiesCounted, One, PastSend
  <2>2. CASE worker.pc # "idle"
    <3> DEFINE l == worker.log
    <3>1. /\ l \in Logs /\ job[l].state = "active" /\ worker'.pc = "idle"
          /\ transmitted' = transmitted
          /\ job'[l].attempts + job'[l].stalls = job[l].attempts + job[l].stalls + 1
          /\ \A k \in Logs \ {l} : job'[k] = job[k]
      BY <1>1, <1>7, <2>2, CrashFrame, BusyWorker
    <3>2. transmitted[l] <= job[l].attempts + job[l].stalls + 1
      BY <1>1, <3>1 DEF CopiesCounted, One
    <3> QED
      BY <1>1, <3>1, <3>2 DEF CopiesCounted, One, PastSend
  <2> QED
    BY <2>1, <2>2
<1>8. CASE UNCHANGED vars
  BY <1>8 DEF vars, CopiesCounted
<1> QED
  BY <1>2, <1>3, <1>4, <1>5, <1>6, <1>7, <1>8, StepKinds
  DEF EnvironmentStep, WorkerStep, CheckCampaign, CheckContact, CheckIdempotency,
     AcquireToken, SendAnswered, SendUnanswered, SendRefused, RecordStatus,
     IncrementCounter, ReadProgress, SaveCompleted, EmitAndReturn, RecordFails,
     DatabaseFails

(***************************************************************************)
(* Where the extra copies come from.                                       *)
(***************************************************************************)

Recorded(l) ==
  /\ transmitted[l] = lost[l] + One(log[l].wa \/ (worker.log = l /\ Window))
  /\ log[l].wa /\ worker.log = l => worker.pc \notin {"token", "send"} /\ ~Window
  /\ log[l].status = "NONE" => log[l].contact = Null

\* A step of a busy worker keeps its own message accounted for.
LEMMA OwnMessageRecorded ==
  ASSUME TypeOK, Bookkeeping, WorkerStep, worker.pc # "idle",
         NEW l, l = worker.log, Recorded(l)
  PROVE  Recorded(l)'
<1> USE DEF historyVars
<1>1. /\ worker \in Worker /\ transmitted \in [Logs -> Nat] /\ lost \in [Logs -> Nat]
      /\ log \in [Logs -> LogRow] /\ l \in Logs
  BY BusyWorker DEF TypeOK
<1>2. ASSUME AttemptOver PROVE worker'.pc # "token" /\ worker'.pc # "send" /\ ~Window'
  BY <1>2, AttemptEnds DEF Window
<1>3. ASSUME NEW pc \in WorkerPc, Step(pc)
      PROVE  worker'.pc = pc /\ worker'.log = l /\ worker'.outcome = worker.outcome
  BY <1>1, <1>3 DEF Step, Worker
<1>4. CASE CheckCampaign
  BY <1>1, <1>2, <1>3, <1>4 DEF CheckCampaign, AttemptOver, Recorded, Window, One, WorkerPc
<1>5. CASE CheckContact
  BY <1>1, <1>5 DEF CheckContact, Recorded, Window, One, Worker
<1>6. CASE CheckIdempotency
  BY <1>1, <1>2, <1>3, <1>6 DEF CheckIdempotency, AttemptOver, Recorded, Window, One, WorkerPc
<1>7. CASE AcquireToken
  BY <1>1, <1>2, <1>3, <1>7 DEF AcquireToken, AttemptOver, Recorded, Window, One, WorkerPc
<1>8. CASE SendAnswered
  BY <1>1, <1>8 DEF SendAnswered, Transmit, Recorded, Window, One, Worker
<1>9. CASE SendUnanswered
  BY <1>1, <1>2, <1>9 DEF SendUnanswered, Transmit, AttemptOver, Recorded, Window, One
<1>10. CASE SendRefused \/ EmitAndReturn \/ DatabaseFails
  BY <1>1, <1>2, <1>10 DEF SendRefused, EmitAndReturn, DatabaseFails, AttemptOver,
                           Recorded, Window, One
<1>11. CASE RecordStatus
  <2>1. log'[l].wa <=> (log[l].wa \/ worker.outcome = "SENT")
    BY <1>1, <1>11 DEF RecordStatus, LogRow
  <2>2. /\ worker.pc = "record" /\ worker'.pc = "count" /\ worker'.log = l
        /\ UNCHANGED << transmitted, lost >>
    BY <1>3, <1>11 DEF RecordStatus, WorkerPc
  <2>3. log'[l].status # "NONE"
    BY <1>1, <1>11 DEF RecordStatus, Worker
  <2>4. Window <=> worker.outcome = "SENT"
    BY <2>2 DEF Window
  <2>5. ~Window' /\ worker'.pc \notin {"token", "send"}
    BY <2>2 DEF Window
  <2>6. (log[l].wa \/ (worker.log = l /\ Window)) <=> (log'[l].wa \/ (worker'.log = l /\ Window'))
    BY <2>1, <2>4, <2>5
  <2> QED
    BY <2>2, <2>3, <2>5, <2>6 DEF Recorded, One
<1>12. CASE IncrementCounter \/ SaveCompleted
  BY <1>1, <1>3, <1>12 DEF IncrementCounter, SaveCompleted, Recorded, Window, One, WorkerPc
<1>13. CASE ReadProgress
  BY <1>1, <1>13 DEF ReadProgress, Recorded, Window, One, Worker
<1>14. CASE RecordFails
  BY <1>1, <1>2, <1>14 DEF RecordFails, AttemptOver, Recorded, Window, One
<1> QED
  BY <1>4, <1>5, <1>6, <1>7, <1>8, <1>9, <1>10, <1>11, <1>12, <1>13, <1>14
  DEF WorkerStep, TakeJob

\* Lost attempts are counted for the worker's own log only.
LEMMA LostFrame ==
  ASSUME TypeOK, WorkerStep
  PROVE  \A k \in Logs \ {worker.log} : lost'[k] = lost[k]
BY DEF TypeOK, historyVars, WorkerStep, TakeJob, CheckCampaign, CheckContact,
   CheckIdempotency, AcquireToken, SendAnswered, SendUnanswered, SendRefused,
   RecordStatus, IncrementCounter, ReadProgress, SaveCompleted, EmitAndReturn,
   RecordFails, DatabaseFails

\* Each extra copy of a message has its lost attempt, in every step.
LEMMA SendsRecordedStep ==
  ASSUME TypeOK, Bookkeeping, SendsRecorded, [Next]_vars
  PROVE  SendsRecorded'
<1> USE DEF historyVars
<1>1. /\ worker \in Worker /\ transmitted \in [Logs -> Nat] /\ lost \in [Logs -> Nat]
      /\ log \in [Logs -> LogRow]
  BY DEF TypeOK
<1>2. \A l \in Logs : Recorded(l)
  BY DEF SendsRecorded, Recorded
<1>3. SUFFICES \A l \in Logs : Recorded(l)'
  BY DEF SendsRecorded, Recorded
<1>4. ASSUME NEW r \in Requests, NewRequest(r) \/ RequestStep(r) \/ RequestFails(r)
      PROVE  \A l \in Logs : Recorded(l)'
  <2>1. /\ UNCHANGED << worker, transmitted, lost >>
        /\ \A l \in Logs : log'[l].wa <=> log[l].wa
        /\ \A l \in Logs : log'[l].status = "NONE" =>
             log[l].status = "NONE" /\ log'[l].contact = log[l].contact
    BY <1>4, RequestFrame
  <2> QED
    BY <1>2, <2>1 DEF Recorded, Window
<1>5. CASE TakeJob
  BY <1>1, <1>2, <1>5 DEF TakeJob, Recorded, Window, One, IdleWorker
<1>6. CASE WorkerStep /\ worker.pc # "idle"
  <2>1. Frame(worker.log) /\ worker.log \in Logs
    BY <1>6, WorkerFrame, BusyWorker
  <2>2. ASSUME NEW k \in Logs \ {worker.log} PROVE Recorded(k)'
    BY <1>1, <1>2, <1>6, <2>1, LostFrame DEF Frame, Recorded, Window, One
  <2>3. ASSUME NEW k \in Logs, k = worker.log PROVE Recorded(k)'
    BY <1>2, <1>6, <2>3, OwnMessageRecorded
  <2> QED
    BY <2>2, <2>3
<1>7. ASSUME NEW l \in Logs, BackoffElapses(l) PROVE \A k \in Logs : Recorded(k)'
  BY <1>2, <1>7 DEF BackoffElapses, Recorded, Window
<1>8. ASSUME NEW c \in Contacts, OptOut(c) \/ OptIn(c)
      PROVE \A k \in Logs : Recorded(k)'
  BY <1>2, <1>8 DEF OptOut, OptIn, Recorded, Window
<1>9. CASE Crash
  <2>1. CASE worker.pc = "idle"
    BY <1>2, <1>9, <2>1, CrashFrame DEF Recorded, Window
  <2>2. CASE worker.pc # "idle"
    BY <1>1, <1>2, <1>9, <2>2, CrashFrame, BusyWorker DEF Recorded, Window, One
  <2> QED
    BY <2>1, <2>2
<1>10. CASE UNCHANGED vars
  BY <1>2, <1>10 DEF vars, Recorded, Window
<1> QED
  BY <1>4, <1>5, <1>6, <1>7, <1>8, <1>9, <1>10, StepKinds
  DEF EnvironmentStep, WorkerStep, CheckCampaign, CheckContact, CheckIdempotency,
     AcquireToken, SendAnswered, SendUnanswered, SendRefused, RecordStatus,
     IncrementCounter, ReadProgress, SaveCompleted, EmitAndReturn, RecordFails,
     DatabaseFails

(***************************************************************************)
(* What a stopped campaign and an opted-out contact still get.             *)
(***************************************************************************)

\* A request either leaves the row's status and the count of late messages
\* alone, or stores a new row and resets the count if that row is RUNNING.
LEMMA RequestRow ==
  ASSUME NEW r \in Requests, NewRequest(r) \/ RequestStep(r) \/ RequestFails(r)
  PROVE  \/ UNCHANGED << campaign, late >>
         \/ campaign'.status = "RUNNING" /\ late' = 0
         \/ campaign'.status # "RUNNING" /\ late' = late
<1> USE DEF rowVars
<1>1. CASE SaveStart(r) \/ SavePause(r) \/ SaveCancel(r) \/ SaveEdit(r)
  BY <1>1 DEF SaveStart, SavePause, SaveCancel, SaveEdit, Save
<1>2. CASE DeleteRow(r)
  BY <1>2 DEF DeleteRow, NewRow
<1>3. CASE \/ NewRequest(r) \/ RequestFails(r) \/ CheckSession(r) \/ PickContacts(r)
           \/ CreateLog(r) \/ EnqueueJob(r) \/ FailPendingLogs(r)
  BY <1>3 DEF NewRequest, BeginStart, BeginPause, BeginCancel, BeginEdit,
     BeginRemove, RequestFails, CheckSession, PickContacts, CreateLog, EnqueueJob,
     FailPendingLogs
<1> QED
  BY <1>1, <1>2, <1>3 DEF RequestStep

\* The worker enters the stretch between check and send from a RUNNING row only,
\* and leaves it when it sends.
LEMMA WorkerLate ==
  ASSUME TypeOK, Bookkeeping, WorkerStep, LateInv
  PROVE  LateInv'
<1> USE DEF LateInv, PastCheck, One, rowVars, historyVars
<1>1. worker \in Worker /\ campaign \in Row /\ late \in Nat
  BY DEF TypeOK
<1>2. ASSUME AttemptOver, worker.pc # "idle" PROVE worker'.pc \notin PastCheck
  BY <1>2, AttemptEnds
<1>3. ASSUME NEW pc \in WorkerPc, Step(pc) PROVE worker'.pc = pc
  BY <1>1, <1>3 DEF Step, Worker
<1>4. CASE TakeJob
  BY <1>1, <1>4 DEF TakeJob, IdleWorker
<1>5. CASE CheckCampaign
  BY <1>1, <1>2, <1>3, <1>5 DEF CheckCampaign, AttemptOver, WorkerPc
<1>6. CASE CheckContact
  BY <1>1, <1>6 DEF CheckContact, Worker
<1>7. CASE CheckIdempotency
  BY <1>1, <1>2, <1>3, <1>7 DEF CheckIdempotency, AttemptOver, WorkerPc
<1>8. CASE AcquireToken
  BY <1>1, <1>2, <1>3, <1>8 DEF AcquireToken, AttemptOver, WorkerPc
<1>9. CASE SendAnswered
  BY <1>1, <1>9 DEF SendAnswered, Transmit, Worker
<1>10. CASE SendUnanswered
  BY <1>1, <1>2, <1>10 DEF SendUnanswered, Transmit, AttemptOver
<1>16. ASSUME AttemptOver, worker.pc # "idle", UNCHANGED << campaign, late >>
       PROVE  LateInv'
  BY <1>1, <1>2, <1>16
<1>11. CASE SendRefused \/ EmitAndReturn \/ RecordFails \/ DatabaseFails
  BY <1>16, <1>11 DEF SendRefused, EmitAndReturn, RecordFails, DatabaseFails,
                      AttemptOver
<1>12. CASE RecordStatus
  BY <1>1, <1>3, <1>12 DEF RecordStatus, WorkerPc
<1>13. CASE IncrementCounter
  <2>1. campaign'.status = campaign.status
    BY <1>1, <1>13 DEF IncrementCounter, Row
  <2> QED
    BY <1>1, <1>3, <1>13, <2>1 DEF IncrementCounter, WorkerPc
<1>14. CASE ReadProgress
  BY <1>1, <1>14 DEF ReadProgress, Worker
<1>15. CASE SaveCompleted
  <2>1. campaign'.status = "COMPLETED" /\ late' = late
    BY <1>1, <1>15 DEF SaveCompleted, Save, Worker, Row
  <2> QED
    BY <1>1, <1>3, <1>15, <2>1 DEF SaveCompleted, WorkerPc
<1> QED
  BY <1>4, <1>5, <1>6, <1>7, <1>8, <1>9, <1>10, <1>11, <1>12, <1>13, <1>14, <1>15
  DEF WorkerStep

\* A stopped campaign owes at most one message, in every step.
LEMMA LateStep ==
  ASSUME TypeOK, Bookkeeping, LateInv, [Next]_vars
  PROVE  LateInv'
<1>1. late \in Nat
  BY DEF TypeOK
<1>2. ASSUME NEW r \in Requests, NewRequest(r) \/ RequestStep(r) \/ RequestFails(r)
      PROVE  LateInv'
  BY <1>1, <1>2, RequestRow, RequestFrame DEF LateInv, One
<1>3. CASE WorkerStep
  BY <1>3, WorkerLate
<1>4. CASE EnvironmentStep
  <2>1. UNCHANGED << campaign, late >> /\ (UNCHANGED worker \/ worker'.pc = "idle")
    BY <1>4, CrashFrame DEF EnvironmentStep, BackoffElapses, OptOut, OptIn, rowVars
  <2> QED
    BY <1>1, <2>1 DEF LateInv, One, PastCheck
<1>5. CASE UNCHANGED vars
  BY <1>5 DEF vars, LateInv
<1> QED
  BY <1>2, <1>3, <1>4, <1>5, StepKinds

\* The worker enters the stretch between opt-out check and send with a contact
\* that has not opted out, and leaves it when it sends.
LEMMA WorkerOptOut ==
  ASSUME TypeOK, Bookkeeping, WorkerStep, OptOutInv
  PROVE  OptOutInv'
<1> USE DEF rowVars, historyVars, PastContact
<1>1. /\ worker \in Worker /\ afterOptOut \in [Contacts -> Nat]
      /\ UNCHANGED optedOut
  BY DEF TypeOK, WorkerStep, TakeJob, CheckCampaign, CheckContact,
     CheckIdempotency, AcquireToken, SendAnswered, SendUnanswered, SendRefused,
     RecordStatus, IncrementCounter, ReadProgress, SaveCompleted, EmitAndReturn,
     RecordFails, DatabaseFails
<1>2. ASSUME UNCHANGED afterOptOut, worker'.pc \notin PastContact PROVE OptOutInv'
  BY <1>1, <1>2 DEF OptOutInv, One
<1>3. ASSUME UNCHANGED << afterOptOut, log >>, worker.pc \in PastContact,
             worker'.log = worker.log
      PROVE  OptOutInv'
  BY <1>1, <1>3 DEF OptOutInv, One
<1>4. ASSUME AttemptOver, worker.pc # "idle" PROVE worker'.pc \notin PastContact
  BY <1>4, AttemptEnds
<1>5. ASSUME NEW pc \in WorkerPc, Step(pc)
      PROVE  worker'.pc = pc /\ worker'.log = worker.log
  BY <1>1, <1>5 DEF Step, Worker
<1>6. CASE TakeJob
  BY <1>2, <1>6 DEF TakeJob, IdleWorker
<1>7. CASE CheckCampaign
  BY <1>2, <1>4, <1>5, <1>7 DEF CheckCampaign, AttemptOver, WorkerPc
<1>8. CASE CheckContact
  BY <1>1, <1>8 DEF CheckContact, OptOutInv, One, Worker
<1>9. CASE CheckIdempotency
  BY <1>2, <1>3, <1>4, <1>5, <1>9 DEF CheckIdempotency, AttemptOver, WorkerPc
<1>10. CASE AcquireToken
  BY <1>2, <1>3, <1>4, <1>5, <1>10 DEF AcquireToken, AttemptOver, WorkerPc
<1>11. ASSUME Transmit, worker.pc = "send", worker'.pc \notin PastContact
       PROVE  OptOutInv'
  BY <1>1, <1>11 DEF Transmit, OptOutInv, One
<1>12. CASE SendAnswered
  BY <1>1, <1>11, <1>12 DEF SendAnswered, Worker
<1>13. CASE SendUnanswered
  BY <1>4, <1>11, <1>13 DEF SendUnanswered, AttemptOver
<1>14. CASE SendRefused \/ EmitAndReturn \/ RecordFails \/ DatabaseFails
  BY <1>2, <1>4, <1>14 DEF SendRefused, EmitAndReturn, RecordFails, DatabaseFails,
                           AttemptOver
<1>15. CASE RecordStatus \/ IncrementCounter \/ SaveCompleted
  BY <1>2, <1>5, <1>15 DEF RecordStatus, IncrementCounter, SaveCompleted, WorkerPc
<1>16. CASE ReadProgress
  BY <1>1, <1>2, <1>16 DEF ReadProgress, Worker
<1> QED
  BY <1>6, <1>7, <1>8, <1>9, <1>10, <1>12, <1>13, <1>14, <1>15, <1>16 DEF WorkerStep

\* An opted-out contact is owed at most one message, in every step.
LEMMA OptOutStep ==
  ASSUME TypeOK, Bookkeeping, OptOutInv, [Next]_vars
  PROVE  OptOutInv'
<1> USE DEF historyVars
<1>1. /\ afterOptOut \in [Contacts -> Nat] /\ optedOut \in [Contacts -> BOOLEAN]
  BY DEF TypeOK
<1>2. ASSUME NEW r \in Requests, NewRequest(r) \/ RequestStep(r) \/ RequestFails(r)
      PROVE  OptOutInv'
  <2>1. /\ UNCHANGED << worker, optedOut, afterOptOut >>
        /\ worker.pc # "idle" => log'[worker.log].contact = log[worker.log].contact
    BY <1>2, RequestFrame, BusyWorker
  <2> QED
    BY <1>1, <2>1 DEF OptOutInv, One, PastContact
<1>3. CASE WorkerStep
  BY <1>3, WorkerOptOut
<1>4. ASSUME NEW l \in Logs, BackoffElapses(l) PROVE OptOutInv'
  BY <1>4 DEF BackoffElapses, OptOutInv
<1>5. ASSUME NEW c \in Contacts, OptOut(c) PROVE OptOutInv'
  BY <1>1, <1>5 DEF OptOut, OptOutInv, One
<1>6. ASSUME NEW c \in Contacts, OptIn(c) PROVE OptOutInv'
  BY <1>1, <1>6 DEF OptIn, OptOutInv, One
<1>7. CASE Crash
  BY <1>1, <1>7, CrashFrame DEF OptOutInv, One, PastContact
<1>8. CASE UNCHANGED vars
  BY <1>8 DEF vars, OptOutInv
<1> QED
  BY <1>2, <1>3, <1>4, <1>5, <1>6, <1>7, <1>8, StepKinds DEF EnvironmentStep

(***************************************************************************)
(* The theorems.                                                           *)
(***************************************************************************)

\* Nothing was sent at the start.
LEMMA InitInductive == Init => InductiveInv
<1> SUFFICES ASSUME Init PROVE InductiveInv
  OBVIOUS
<1>1. TypeOK /\ Bookkeeping
  BY InitTypeOK, InitBookkeeping
<1>2. CopiesCounted /\ SendsRecorded
  BY AttemptsAssumption DEF Init, CopiesCounted, SendsRecorded, One, Window,
     IdleWorker, NoLogRow, PastSend
<1>3. LateInv /\ OptOutInv
  BY DEF Init, LateInv, OptOutInv, One, PastCheck, PastContact, IdleWorker, NewRow
<1> QED
  BY <1>1, <1>2, <1>3 DEF InductiveInv

\* The inductive invariant is kept by every step.
LEMMA InductiveStep ==
  ASSUME InductiveInv, [Next]_vars
  PROVE  InductiveInv'
<1>1. TypeOK' /\ Bookkeeping'
  BY TypeStep DEF InductiveInv
<1> QED
  BY <1>1, CopiesStep, SendsRecordedStep, LateStep, OptOutStep DEF InductiveInv

\* The inductive invariant holds in every reachable state: of any number of
\* contacts, logs, requests, starts and crashes, with any faults.
THEOREM Invariance == Spec => []InductiveInv
  BY InitInductive, InductiveStep, PTL DEF Spec

\* Every variable keeps its type.
THEOREM TypeInvariance == Spec => []TypeOK
<1>1. InductiveInv => TypeOK
  BY DEF InductiveInv
<1> QED
  BY <1>1, Invariance, PTL

\* pause, cancel, completion and deletion stop the worker but for the one
\* message it had already checked.
THEOREM StoppedCampaign == Spec => []AtMostOneLate
<1>1. InductiveInv => AtMostOneLate
  BY DEF InductiveInv, TypeOK, LateInv, One, AtMostOneLate
<1> QED
  BY <1>1, Invariance, PTL

\* An opted-out contact gets at most the one message whose job had already
\* re-read the contact.
THEOREM OptOutRespected == Spec => []AtMostOneAfterOptOut
<1>1. InductiveInv => AtMostOneAfterOptOut
  BY DEF InductiveInv, TypeOK, OptOutInv, One, AtMostOneAfterOptOut
<1> QED
  BY <1>1, Invariance, PTL

\* A second copy of a message has a cause: an attempt that ended between the
\* send and the UPDATE of waMessageId.
THEOREM DuplicatesExplained == Spec => []DuplicatesAreLostRecords
<1>1. InductiveInv => DuplicatesAreLostRecords
  BY DEF InductiveInv, TypeOK, SendsRecorded, One, DuplicatesAreLostRecords
<1> QED
  BY <1>1, Invariance, PTL

\* One job sends at most one message per attempt and per tolerated stall.
THEOREM CopiesAreBounded == Spec => []CopiesBounded
<1>1. ASSUME InductiveInv, NEW l \in Logs
      PROVE  transmitted[l] <= MaxAttempts + MaxStalls
  <2>1. /\ job[l] \in Job /\ transmitted[l] \in Nat
        /\ job[l].attempts \in Nat /\ job[l].stalls \in Nat
        /\ MaxAttempts \in Nat /\ MaxStalls \in Nat
    BY <1>1, AttemptsAssumption DEF InductiveInv, TypeOK, Job
  <2>2. CASE job[l].state = "failed"
    <3>1. ~(worker.log = l /\ worker.pc \in PastSend)
      BY <1>1, <2>2 DEF InductiveInv, Bookkeeping, WorkerBusy, PastSend
    <3> QED
      BY <1>1, <2>1, <2>2, <3>1
      DEF InductiveInv, CopiesCounted, Bookkeeping, JobsWellFormed, One
  <2>3. CASE job[l].state # "failed"
    BY <1>1, <2>1, <2>3
    DEF InductiveInv, CopiesCounted, Bookkeeping, JobsWellFormed, One
  <2> QED
    BY <2>2, <2>3
<1>2. InductiveInv => CopiesBounded
  BY <1>1 DEF CopiesBounded
<1> QED
  BY <1>2, Invariance, PTL

\* A stored waMessageId stays, and its message is not sent again.
THEOREM RecordedIsFinal == Spec => NeverResent
<1>1. ASSUME TypeOK, Bookkeeping, SendsRecorded, [Next]_vars, NEW l \in Logs, log[l].wa
      PROVE  log'[l].wa /\ transmitted'[l] = transmitted[l]
  <2>1. log[l].status # "NONE" /\ transmitted[l] \in Nat
    BY <1>1 DEF Bookkeeping, JobsWellFormed, TypeOK
  <2>2. ASSUME NEW r \in Requests, NewRequest(r) \/ RequestStep(r) \/ RequestFails(r)
        PROVE  log'[l].wa /\ transmitted'[l] = transmitted[l]
    BY <1>1, <2>1, <2>2, RequestFrame DEF historyVars
  <2>3. CASE TakeJob \/ EnvironmentStep \/ UNCHANGED vars
    BY <1>1, <2>3, CrashFrame
    DEF TakeJob, EnvironmentStep, BackoffElapses, OptOut, OptIn, vars, historyVars
  <2>4. CASE WorkerStep /\ worker.pc # "idle"
    <3>1. Frame(worker.log) /\ worker.log \in Logs
      BY <1>1, <2>4, WorkerFrame, BusyWorker
    <3>2. CASE l # worker.log
      BY <1>1, <3>1, <3>2 DEF Frame
    <3>3. CASE l = worker.log
      BY <1>1, <2>1, <2>4, <3>1, <3>3, WorkerSends DEF Frame, SendsRecorded
    <3> QED
      BY <3>2, <3>3
  <2> QED
    BY <1>1, <2>2, <2>3, <2>4, StepKinds
    DEF WorkerStep, CheckCampaign, CheckContact, CheckIdempotency, AcquireToken,
     SendAnswered, SendUnanswered, SendRefused, RecordStatus, IncrementCounter,
     ReadProgress, SaveCompleted, EmitAndReturn, RecordFails, DatabaseFails
<1>2. InductiveInv /\ [Next]_vars =>
        [\A l \in Logs : log[l].wa => log'[l].wa /\ transmitted'[l] = transmitted[l]]_vars
  BY <1>1 DEF InductiveInv
<1> QED
  BY <1>2, Invariance, PTL DEF Spec, NeverResent

(***************************************************************************)
(* The promise: every step is one of Outbox, or none.                      *)
(***************************************************************************)

\* Nothing is on its way at the start.
LEMMA StartsAsPromised == Init => Promise!OutboxInit
BY DEF Init, NewRow, NoLogRow, IdleWorker, WorkedOnAt, PastCheck, PastContact, Window,
       Promise!OutboxInit

\* What the promise sees of the row, the contacts and the logs' contacts.
LEMMA PeopleKept ==
  ASSUME UNCHANGED optedOut, campaign'.status = campaign.status,
         \A l \in Logs : log'[l].contact = log[l].contact
  PROVE  UNCHANGED Promise!peopleVars
BY DEF Promise!peopleVars

\* What the promise sees of the copies that went out.
LEMMA CopiesKept ==
  ASSUME UNCHANGED << transmitted, lost >>, Window' <=> Window,
         Window => worker'.log = worker.log,
         \A l \in Logs : log'[l].wa <=> log[l].wa
  PROVE  UNCHANGED Promise!copyVars
<1>1. {l \in Logs : log[l].wa}' = {l \in Logs : log[l].wa}
  OBVIOUS
<1>2. (IF Window THEN {worker.log} ELSE {})' = IF Window THEN {worker.log} ELSE {}
  OBVIOUS
<1> QED
  BY <1>1, <1>2 DEF Promise!copyVars

\* An attempt that ends, or a crash, gives up what was on its way.
LEMMA AttemptGivenUp ==
  ASSUME TypeOK, worker'.pc \notin PastCheck, ~Window',
         UNCHANGED << log, optedOut, transmitted >>, campaign'.status = campaign.status,
         lost' = IF Window THEN [lost EXCEPT ![worker.log] = @ + 1] ELSE lost
  PROVE  Promise!GiveUp
<1>1. UNCHANGED Promise!peopleVars
  BY PeopleKept
<1>2. /\ WorkedOnAt(PastCheck)' = {} /\ WorkedOnAt(PastContact)' = {}
      /\ (IF Window THEN {worker.log} ELSE {})' = {}
  BY DEF WorkedOnAt, PastCheck, PastContact
<1>3. lost' = [l \in Logs |-> IF l \in (IF Window THEN {worker.log} ELSE {})
                              THEN lost[l] + 1 ELSE lost[l]]
  BY DEF TypeOK
<1>4. {l \in Logs : log[l].wa}' = {l \in Logs : log[l].wa}
  OBVIOUS
<1> QED
  BY <1>1, <1>2, <1>3, <1>4 DEF Promise!GiveUp

\* A request writes a message, or starts or stops the campaign, or neither.
LEMMA RequestKeepsPromise ==
  ASSUME InductiveInv, NEW r \in Requests,
         NewRequest(r) \/ RequestStep(r) \/ RequestFails(r)
  PROVE  [Promise!OutboxNext]_(Promise!outboxVars)
<1>1. /\ TypeOK /\ Bookkeeping /\ SendsRecorded
      /\ log \in [Logs -> LogRow] /\ req \in [Requests -> Request]
  BY DEF InductiveInv, TypeOK
<1>2. /\ UNCHANGED << worker, optedOut, transmitted, lost >>
      /\ \A l \in Logs : log'[l].wa <=> log[l].wa
  BY <1>1, RequestFrame DEF historyVars
<1>3. UNCHANGED Promise!copyVars
  BY <1>2, CopiesKept DEF Window
<1>4. UNCHANGED << WorkedOnAt(PastCheck), WorkedOnAt(PastContact) >>
  BY <1>2 DEF WorkedOnAt
<1>5. CASE \A l \in Logs : log'[l].contact = log[l].contact
  <2>1. [l \in Logs |-> log[l].contact]' = [l \in Logs |-> log[l].contact]
    BY <1>5
  <2>2. (campaign.status = "RUNNING")' \in BOOLEAN
    OBVIOUS
  <2>3. Promise!StartOrStop
    BY <1>2, <1>3, <1>4, <2>1, <2>2 DEF Promise!StartOrStop
  <2> QED
    BY <2>3 DEF Promise!OutboxNext
<1>6. ASSUME NEW c \in req[r].todo, NEW l \in Logs \ Created,
             log' = [log EXCEPT ![l] = [status |-> "PENDING", contact |-> c,
                                        wa |-> FALSE, linked |-> TRUE]],
             UNCHANGED campaign
      PROVE  [Promise!OutboxNext]_(Promise!outboxVars)
  <2>1. c \in Contacts /\ log[l].status = "NONE"
    BY <1>1 DEF Created, Request
  <2>2. log[l].contact = Null /\ transmitted[l] = 0
    BY <1>1, <2>1 DEF SendsRecorded, Bookkeeping, JobsWellFormed
  <2>3. l \notin WorkedOnAt(PastCheck)
    BY <1>1, <2>1, BusyWorker DEF WorkedOnAt, PastCheck
  <2>4. [k \in Logs |-> log[k].contact]'
          = [[k \in Logs |-> log[k].contact] EXCEPT ![l] = c]
    BY <1>1, <1>6
  <2>5. (campaign.status = "RUNNING")' = (campaign.status = "RUNNING")
    BY <1>6
  <2>6. Promise!Write(l, c)
    BY <1>2, <1>3, <1>4, <2>2, <2>3, <2>4, <2>5 DEF Promise!Write
  <2> QED
    BY <2>1, <2>6 DEF Promise!OutboxNext
<1>7. CASE CreateLog(r)
  <2>1. UNCHANGED campaign
    BY <1>7 DEF CreateLog, rowVars
  <2>2. \/ UNCHANGED log
        \/ \E c \in req[r].todo, l \in Logs \ Created :
             log' = [log EXCEPT ![l] = [status |-> "PENDING", contact |-> c,
                                        wa |-> FALSE, linked |-> TRUE]]
    BY <1>7 DEF CreateLog
  <2> QED
    BY <1>5, <1>6, <2>1, <2>2
<1>8. CASE FailPendingLogs(r) \/ DeleteRow(r)
  BY <1>1, <1>5, <1>8 DEF FailPendingLogs, DeleteRow, LogRow
<1>9. CASE \/ NewRequest(r) \/ RequestFails(r) \/ CheckSession(r) \/ PickContacts(r)
           \/ EnqueueJob(r) \/ SaveStart(r) \/ SavePause(r) \/ SaveCancel(r) \/ SaveEdit(r)
  BY <1>5, <1>9 DEF NewRequest, BeginStart, BeginPause, BeginCancel, BeginEdit, BeginRemove,
     RequestFails, CheckSession, PickContacts, EnqueueJob, SaveStart, SavePause, SaveCancel,
     SaveEdit
<1> QED
  BY <1>7, <1>8, <1>9 DEF RequestStep

\* The worker admits and addresses its message, sends and records it, or gives it up.
LEMMA WorkerKeepsPromise ==
  ASSUME InductiveInv, WorkerStep
  PROVE  [Promise!OutboxNext]_(Promise!outboxVars)
<1> DEFINE l == worker.log
<1> USE DEF historyVars
<1>1. /\ TypeOK /\ Bookkeeping /\ SendsRecorded /\ worker \in Worker
      /\ log \in [Logs -> LogRow] /\ campaign \in Row
      /\ transmitted \in [Logs -> Nat] /\ lost \in [Logs -> Nat]
      /\ worker.pc # "idle" => l \in Logs /\ log[l] \in LogRow
  BY BusyWorker DEF InductiveInv, TypeOK
<1>2. UNCHANGED optedOut
  BY DEF WorkerStep, TakeJob, CheckCampaign, CheckContact,
     CheckIdempotency, AcquireToken, SendAnswered, SendUnanswered, SendRefused,
     RecordStatus, IncrementCounter, ReadProgress, SaveCompleted, EmitAndReturn,
     RecordFails, DatabaseFails
<1>3. \A k \in Logs : log'[k].contact = log[k].contact
  <2>1. CASE worker.pc = "idle"
    BY <2>1 DEF WorkerStep, TakeJob, CheckCampaign, CheckContact,
     CheckIdempotency, AcquireToken, SendAnswered, SendUnanswered, SendRefused,
     RecordStatus, IncrementCounter, ReadProgress, SaveCompleted, EmitAndReturn,
     RecordFails, DatabaseFails
  <2>2. CASE worker.pc # "idle"
    BY <1>1, <2>2, WorkerFrame DEF Frame
  <2> QED
    BY <2>1, <2>2
<1>4. ASSUME campaign'.status = campaign.status PROVE UNCHANGED Promise!peopleVars
  BY <1>2, <1>3, <1>4, PeopleKept
<1>5. ASSUME NEW pc \in WorkerPc, Step(pc)
      PROVE  worker'.pc = pc /\ worker'.log = l /\ worker'.outcome = worker.outcome
  BY <1>1, <1>5 DEF Step, Worker
<1>6. ASSUME worker'.pc \notin PastCheck, worker.pc \notin PastCheck, ~Window, ~Window',
             UNCHANGED << transmitted, lost >>, \A k \in Logs : log'[k].wa <=> log[k].wa,
             campaign'.status = campaign.status
      PROVE  UNCHANGED Promise!outboxVars
  <2>1. UNCHANGED << WorkedOnAt(PastCheck), WorkedOnAt(PastContact) >>
    BY <1>6 DEF WorkedOnAt, PastCheck, PastContact
  <2>2. UNCHANGED Promise!copyVars
    BY <1>6, CopiesKept
  <2> QED
    BY <1>4, <1>6, <2>1, <2>2 DEF Promise!outboxVars
<1>7. ASSUME worker.pc # "idle", AttemptOver, UNCHANGED << campaign, log, transmitted >>,
             lost' = IF Window THEN [lost EXCEPT ![l] = @ + 1] ELSE lost
      PROVE  [Promise!OutboxNext]_(Promise!outboxVars)
  <2>1. worker'.pc \notin PastCheck /\ ~Window'
    BY <1>1, <1>7, AttemptEnds DEF PastCheck, Window
  <2>2. Promise!GiveUp
    BY <1>1, <1>2, <1>7, <2>1, AttemptGivenUp
  <2> QED
    BY <2>2 DEF Promise!OutboxNext
<1>8. CASE TakeJob
  <2>1. /\ worker.pc = "idle" /\ worker'.pc = "check"
        /\ UNCHANGED << campaign, log, transmitted, lost >>
    BY <1>8 DEF TakeJob, IdleWorker, rowVars
  <2> QED
    BY <1>6, <2>1 DEF PastCheck, Window
<1>9. CASE CheckCampaign
  <2>1. worker.pc = "check" /\ UNCHANGED << campaign, log, transmitted, lost >>
    BY <1>9 DEF CheckCampaign, rowVars
  <2>2. CASE FinishJob
    BY <1>7, <2>1, <2>2 DEF AttemptOver, Window
  <2>3. CASE campaign.status = "RUNNING" /\ Step("contact")
    <3>1. worker'.pc = "contact" /\ worker'.log = l
      BY <1>5, <2>3 DEF WorkerPc
    <3>2. /\ WorkedOnAt(PastCheck)' = {l} /\ WorkedOnAt(PastCheck) = {}
          /\ WorkedOnAt(PastContact)' = WorkedOnAt(PastContact)
          /\ ~Window /\ ~Window'
      BY <2>1, <3>1 DEF WorkedOnAt, PastCheck, PastContact, Window
    <3>3. UNCHANGED Promise!copyVars
      BY <2>1, <3>2, CopiesKept
    <3>4. Promise!Admit(l)
      BY <1>4, <2>1, <2>3, <3>2, <3>3 DEF Promise!Admit, Promise!Free
    <3> QED
      BY <1>1, <2>1, <3>4 DEF Promise!OutboxNext
  <2> QED
    BY <1>9, <2>2, <2>3 DEF CheckCampaign
<1>10. CASE CheckContact
  <2>1. worker.pc = "contact" /\ UNCHANGED << campaign, log, transmitted, lost >>
    BY <1>10 DEF CheckContact, rowVars
  <2>2. CASE optedOut[log[l].contact]
    <3>1. worker'.pc = "record" /\ worker'.outcome = "FAILED"
      BY <1>1, <1>10, <2>2 DEF CheckContact, Worker
    <3>2. Promise!GiveUp
      BY <1>1, <1>2, <2>1, <3>1, AttemptGivenUp DEF PastCheck, Window
    <3> QED
      BY <3>2 DEF Promise!OutboxNext
  <2>3. CASE ~optedOut[log[l].contact]
    <3>1. worker'.pc = "idempotency" /\ worker'.log = l
      BY <1>1, <1>10, <2>3 DEF CheckContact, Worker
    <3>2. /\ WorkedOnAt(PastCheck) = {l} /\ WorkedOnAt(PastCheck)' = {l}
          /\ WorkedOnAt(PastContact)' = {l}
          /\ ~Window /\ ~Window'
      BY <2>1, <3>1 DEF WorkedOnAt, PastCheck, PastContact, Window
    <3>3. UNCHANGED Promise!copyVars
      BY <2>1, <3>2, CopiesKept
    <3>4. [k \in Logs |-> log[k].contact][l] = log[l].contact
      BY <1>1, <2>1
    <3>5. Promise!Address(l)
      BY <1>4, <2>1, <2>3, <3>2, <3>3, <3>4 DEF Promise!Address
    <3> QED
      BY <1>1, <2>1, <3>5 DEF Promise!OutboxNext
  <2> QED
    BY <2>2, <2>3
<1>11. ASSUME worker.pc \in {"idempotency", "token"}, worker'.pc \in {"token", "send"},
              worker'.log = l, UNCHANGED << campaign, log, transmitted, lost >>
       PROVE  UNCHANGED Promise!outboxVars
  <2>1. UNCHANGED << WorkedOnAt(PastCheck), WorkedOnAt(PastContact) >> /\ ~Window /\ ~Window'
    BY <1>11 DEF WorkedOnAt, PastCheck, PastContact, Window
  <2>2. UNCHANGED Promise!copyVars
    BY <1>11, <2>1, CopiesKept
  <2> QED
    BY <1>4, <1>11, <2>1, <2>2 DEF Promise!outboxVars
<1>12. CASE CheckIdempotency \/ AcquireToken
  <2>1. /\ worker.pc \in {"idempotency", "token"}
        /\ UNCHANGED << campaign, log, transmitted, lost >>
        /\ AttemptOver \/ Step("token") \/ Step("send")
    BY <1>12 DEF CheckIdempotency, AcquireToken, rowVars, AttemptOver
  <2>2. CASE AttemptOver
    BY <1>7, <2>1, <2>2 DEF Window
  <2>3. CASE Step("token") \/ Step("send")
    BY <1>5, <1>11, <2>1, <2>3 DEF WorkerPc
  <2> QED
    BY <2>1, <2>2, <2>3
<1>13. ASSUME worker.pc = "send", Transmit, UNCHANGED << campaign, log >>,
              worker'.pc \notin PastCheck,
              \/ UNCHANGED lost /\ Window' /\ worker'.log = l
              \/ lost' = [lost EXCEPT ![l] = @ + 1] /\ ~Window'
       PROVE  [Promise!OutboxNext]_(Promise!outboxVars)
  <2>1. /\ WorkedOnAt(PastContact) = {l}
        /\ WorkedOnAt(PastCheck)' = {} /\ WorkedOnAt(PastContact)' = {}
    BY <1>13 DEF WorkedOnAt, PastCheck, PastContact
  <2>2. l \in Logs /\ ~log[l].wa /\ ~Window /\ transmitted[l] = lost[l]
    BY <1>1, <1>13 DEF SendsRecorded, Window, One
  <2>3. /\ transmitted' = [transmitted EXCEPT ![l] = transmitted[l] + 1]
        /\ {k \in Logs : log[k].wa}' = {k \in Logs : log[k].wa}
        /\ l \notin {k \in Logs : log[k].wa}
    BY <1>13, <2>2 DEF Transmit
  <2>4. \/ (IF Window THEN {worker.log} ELSE {})' = {l} /\ UNCHANGED lost
        \/ /\ lost' = [lost EXCEPT ![l] = lost[l] + 1]
           /\ (IF Window THEN {worker.log} ELSE {})' = IF Window THEN {worker.log} ELSE {}
    BY <1>13, <2>2
  <2>5. Promise!Transmit(l)
    BY <1>4, <1>13, <2>1, <2>2, <2>3, <2>4 DEF Promise!Transmit
  <2> QED
    BY <2>2, <2>5 DEF Promise!OutboxNext
<1>14. CASE SendAnswered
  <2>1. worker'.pc = "record" /\ worker'.outcome = "SENT" /\ worker'.log = l
    BY <1>1, <1>14 DEF SendAnswered, Worker
  <2> QED
    BY <1>13, <1>14, <2>1 DEF SendAnswered, PastCheck, Window
<1>15. CASE SendUnanswered
  <2>1. worker'.pc \notin PastCheck /\ ~Window'
    BY <1>1, <1>15, AttemptEnds DEF SendUnanswered, AttemptOver, PastCheck, Window
  <2> QED
    BY <1>13, <1>15, <2>1 DEF SendUnanswered
<1>16. CASE SendRefused \/ EmitAndReturn \/ RecordFails \/ DatabaseFails
  <2>1. /\ worker.pc # "idle" /\ AttemptOver /\ UNCHANGED << campaign, log, transmitted >>
        /\ lost' = IF Window THEN [lost EXCEPT ![l] = @ + 1] ELSE lost
    BY <1>16 DEF SendRefused, EmitAndReturn, RecordFails, DatabaseFails, AttemptOver,
                 rowVars, Window
  <2> QED
    BY <1>7, <2>1
<1>17. CASE RecordStatus
  <2>1. /\ worker.pc = "record" /\ worker'.pc = "count" /\ worker'.log = l
        /\ worker'.outcome = worker.outcome
        /\ UNCHANGED << campaign, transmitted, lost >>
    BY <1>5, <1>17 DEF RecordStatus, WorkerPc, rowVars
  <2>2. /\ log'[l].wa <=> (log[l].wa \/ worker.outcome = "SENT")
        /\ \A k \in Logs \ {l} : log'[k] = log[k]
    BY <1>1, <2>1, <1>17 DEF RecordStatus, LogRow
  <2>3. CASE worker.outcome = "FAILED"
    BY <1>1, <1>6, <2>1, <2>2, <2>3 DEF PastCheck, Window
  <2>4. CASE worker.outcome = "SENT"
    <3>1. /\ (IF Window THEN {worker.log} ELSE {}) = {l}
          /\ (IF Window THEN {worker.log} ELSE {})' = {}
          /\ UNCHANGED << WorkedOnAt(PastCheck), WorkedOnAt(PastContact) >>
      BY <2>1, <2>4 DEF Window, WorkedOnAt, PastCheck, PastContact
    <3>2. {k \in Logs : log[k].wa}' = {k \in Logs : log[k].wa} \cup {l}
      BY <1>1, <2>1, <2>2, <2>4
    <3>3. Promise!Record
      BY <1>4, <2>1, <3>1, <3>2 DEF Promise!Record
    <3> QED
      BY <3>3 DEF Promise!OutboxNext
  <2> QED
    BY <1>1, <2>3, <2>4 DEF Worker
<1>18. CASE IncrementCounter
  <2>1. worker.pc = "count" /\ UNCHANGED << log, transmitted, lost >>
    BY <1>18 DEF IncrementCounter
  <2>2. campaign'.status = campaign.status
    BY <1>1, <1>18 DEF IncrementCounter, Row
  <2>3. worker'.pc \in {"progress", "emit"}
    BY <1>5, <1>18 DEF IncrementCounter, WorkerPc
  <2> QED
    BY <1>6, <2>1, <2>2, <2>3 DEF PastCheck, Window
<1>19. CASE ReadProgress
  <2>1. worker.pc = "progress" /\ UNCHANGED << campaign, log, transmitted, lost >>
    BY <1>19 DEF ReadProgress, rowVars
  <2>2. worker'.pc \in {"complete", "emit"}
    BY <1>1, <1>19 DEF ReadProgress, Worker
  <2> QED
    BY <1>6, <2>1, <2>2 DEF PastCheck, Window
<1>20. CASE SaveCompleted
  <2>1. /\ worker.pc = "complete" /\ worker'.pc = "emit"
        /\ UNCHANGED << log, transmitted, lost >>
    BY <1>5, <1>20 DEF SaveCompleted, WorkerPc
  <2>2. UNCHANGED << WorkedOnAt(PastCheck), WorkedOnAt(PastContact) >> /\ ~Window /\ ~Window'
    BY <2>1 DEF WorkedOnAt, PastCheck, PastContact, Window
  <2>3. UNCHANGED Promise!copyVars
    BY <2>1, <2>2, CopiesKept
  <2>4. [k \in Logs |-> log[k].contact]' = [k \in Logs |-> log[k].contact]
    BY <2>1
  <2>5. (campaign.status = "RUNNING")' \in BOOLEAN
    OBVIOUS
  <2>6. Promise!StartOrStop
    BY <1>2, <2>2, <2>3, <2>4, <2>5 DEF Promise!StartOrStop
  <2> QED
    BY <2>6 DEF Promise!OutboxNext
<1> QED
  BY <1>8, <1>9, <1>10, <1>12, <1>14, <1>15, <1>16, <1>17, <1>18, <1>19, <1>20 DEF WorkerStep

\* The clock of the queue changes nothing that was promised, an opt-out or opt-in is
\* one of the promise, and a crash gives up what was on its way.
LEMMA EnvironmentKeepsPromise ==
  ASSUME InductiveInv, EnvironmentStep
  PROVE  [Promise!OutboxNext]_(Promise!outboxVars)
<1> USE DEF historyVars
<1>1. TypeOK /\ Bookkeeping /\ optedOut \in [Contacts -> BOOLEAN]
  BY DEF InductiveInv, TypeOK
<1>2. ASSUME UNCHANGED << campaign, log, worker, transmitted, lost >>
      PROVE  /\ UNCHANGED Promise!copyVars
             /\ UNCHANGED << WorkedOnAt(PastCheck), WorkedOnAt(PastContact) >>
  BY <1>2, CopiesKept DEF Window, WorkedOnAt
<1>3. ASSUME NEW l \in Logs, BackoffElapses(l)
      PROVE  UNCHANGED Promise!outboxVars
  <2>1. UNCHANGED << campaign, log, worker, transmitted, lost, optedOut >>
    BY <1>3 DEF BackoffElapses, rowVars
  <2> QED
    BY <1>2, <2>1, PeopleKept DEF Promise!outboxVars
<1>4. ASSUME NEW c \in Contacts, OptOut(c) \/ OptIn(c)
      PROVE  Promise!OptOutOrIn(c)
  <2>1. /\ UNCHANGED << campaign, log, worker, transmitted, lost >>
        /\ optedOut' = [optedOut EXCEPT ![c] = ~optedOut[c]]
    BY <1>1, <1>4 DEF OptOut, OptIn, rowVars
  <2>2. /\ [k \in Logs |-> log[k].contact]' = [k \in Logs |-> log[k].contact]
        /\ (campaign.status = "RUNNING")' = (campaign.status = "RUNNING")
    BY <2>1
  <2> QED
    BY <1>2, <2>1, <2>2 DEF Promise!OptOutOrIn
<1>5. CASE Crash
  <2>1. /\ UNCHANGED << campaign, log, optedOut, transmitted >> /\ worker'.pc = "idle"
        /\ lost' = IF Window THEN [lost EXCEPT ![worker.log] = @ + 1] ELSE lost
    BY <1>1, <1>5, CrashFrame DEF Window
  <2> QED
    BY <1>1, <2>1, AttemptGivenUp DEF PastCheck, Window, Promise!OutboxNext
<1> QED
  BY <1>3, <1>4, <1>5 DEF EnvironmentStep, Promise!OutboxNext

\* Every step of the campaign is a step of its promise or none.
LEMMA StepKeepsPromise ==
  ASSUME InductiveInv, [Next]_vars
  PROVE  [Promise!OutboxNext]_(Promise!outboxVars)
<1>1. CASE UNCHANGED vars
  <2>1. UNCHANGED << campaign, log, worker, transmitted, lost, optedOut >>
    BY <1>1 DEF vars
  <2> QED
    BY <2>1, PeopleKept, CopiesKept DEF Promise!outboxVars, WorkedOnAt, Window
<1> QED
  BY <1>1, StepKinds, RequestKeepsPromise, WorkerKeepsPromise, EnvironmentKeepsPromise

\* A campaign keeps the promise of Outbox, for any number of contacts, messages, requests,
\* starts and crashes, with any faults: one message on its way at a time, each sent only
\* from a campaign and to a contact that were asked, and never once it is known to be sent.
THEOREM CampaignKeepsPromise == Spec => KeepsPromise
BY StartsAsPromised, StepKeepsPromise, Invariance, PTL
DEF Spec, KeepsPromise, Promise!OutboxSpec

(***************************************************************************)
(* The counter of sent messages: the copies of the row that handlers hold, *)
(* and write back whole, never bring it above the messages WhatsApp        *)
(* acknowledged.                                                           *)
(***************************************************************************)

\* The logs whose message was acknowledged.
Acked == {l \in Logs : log[l].wa}

\* A message that is recorded and not counted yet.
Pending == One(worker.pc = "count" /\ worker.outcome = "SENT")

\* The row, and every copy of it that may be written back, stays within n.  The worker
\* reads its copy when nothing is pending; a request may hold an older one.
Within(n) ==
  /\ campaign.sent + Pending <= n
  /\ worker.pc = "complete" => worker.row.sent <= n
  /\ \A r \in Requests : req[r].pc # "idle" => req[r].row.sent + Pending <= n

CountsInv == IsFiniteSet(Acked) /\ Within(Cardinality(Acked))

-----------------------------------------------------------------------------
(* The copies of the row. *)

\* Two rows with the same counters.
SameCounts(row, other) == row.sent = other.sent /\ row.failed = other.failed

\* Where the counts of a row come from when a request takes a step.
LEMMA RequestCopies ==
  ASSUME TypeOK, NEW r \in Requests,
         NewRequest(r) \/ RequestStep(r) \/ RequestFails(r)
  PROVE  /\ \/ SameCounts(campaign', campaign)
            \/ req[r].pc # "idle" /\ SameCounts(campaign', req[r].row)
            \/ SameCounts(campaign', NewRow)
         /\ \A s \in Requests :
              \/ req'[s].pc = "idle"
              \/ req[s].pc # "idle" /\ SameCounts(req'[s].row, req[s].row)
              \/ SameCounts(req'[s].row, campaign)
<1> USE DEF SameCounts
<1>1. /\ req \in [Requests -> Request] /\ campaign \in Row
      /\ req[r] \in Request /\ req[r].row \in Row
  BY DEF TypeOK, Request
<1>2. CASE NewRequest(r)
  <2>1. UNCHANGED campaign
    BY <1>2 DEF NewRequest, BeginStart, BeginPause, BeginCancel, BeginEdit,
                BeginRemove, rowVars
  <2>2. \E pc \in RequestPc : req' = [req EXCEPT ![r] = [req[r] EXCEPT !.pc = pc, !.row = campaign]]
    BY <1>2 DEF NewRequest, BeginStart, BeginPause, BeginCancel, BeginEdit,
                BeginRemove, Load, RequestPc
  <2>3. PICK pc \in RequestPc :
          req' = [req EXCEPT ![r] = [req[r] EXCEPT !.pc = pc, !.row = campaign]]
    BY <2>2
  <2>4. req'[r].row = campaign /\ \A s \in Requests \ {r} : req'[s] = req[s]
    BY <1>1, <2>3 DEF Request
  <2> QED
    BY <2>1, <2>4
<1>3. CASE \/ CheckSession(r) \/ CreateLog(r) \/ EnqueueJob(r)
           \/ FailPendingLogs(r) \/ RequestFails(r)
  <2>1. UNCHANGED campaign /\ req[r].pc # "idle"
    <3>1. CASE CheckSession(r) \/ EnqueueJob(r) \/ RequestFails(r)
      BY <3>1 DEF CheckSession, EnqueueJob, RequestFails, rowVars
    <3>2. CASE CreateLog(r)
      <4>1. UNCHANGED rowVars /\ req[r].pc = "loop"
        BY <3>2 DEF CreateLog
      <4> QED
        BY <4>1 DEF rowVars
    <3>3. CASE FailPendingLogs(r)
      BY <3>3 DEF FailPendingLogs, rowVars
    <3> QED
      BY <1>3, <3>1, <3>2, <3>3
  <2>2. CASE Respond(r)
    BY <1>1, <2>1, <2>2 DEF Respond, IdleRequest
  <2>3. CASE CreateLog(r) /\ ~Respond(r)
    <3>1. PICK c \in req[r].todo, l \in Logs \ Created :
            req' = [req EXCEPT ![r] = [@ EXCEPT
              !.pc = "enqueue", !.todo = req[r].todo \ {c}, !.log = l]]
      BY <2>3 DEF CreateLog
    <3>2. \A s \in Requests : req'[s].row = req[s].row /\ (s # r => req'[s] = req[s])
      BY <1>1, <3>1 DEF Request
    <3> QED
      BY <2>1, <3>2
  <2>4. ASSUME NEW pc \in RequestPc, Goto(r, pc)
        PROVE  \A s \in Requests : req'[s].row = req[s].row /\ (s # r => req'[s] = req[s])
    BY <1>1, <2>4 DEF Goto, Request
  <2>5. CASE CheckSession(r) \/ EnqueueJob(r) \/ FailPendingLogs(r)
    BY <2>1, <2>2, <2>4, <2>5 DEF CheckSession, EnqueueJob, FailPendingLogs, RequestPc
  <2> QED
    BY <1>3, <2>2, <2>3, <2>5 DEF RequestFails
<1>4. CASE PickContacts(r)
  <2>1. CASE Respond(r)
    BY <1>1, <1>4, <2>1 DEF PickContacts, Respond, IdleRequest, rowVars
  <2>2. CASE ~Respond(r)
    <3> DEFINE eligible == {c \in Contacts : ~optedOut[c]}
               after == [req[r] EXCEPT !.pc = "loop", !.todo = eligible,
                                       !.row.total = Cardinality(eligible)]
    <3>1. req[r].pc # "idle" /\ UNCHANGED campaign /\ req' = [req EXCEPT ![r] = after]
      BY <1>1, <1>4, <2>2 DEF PickContacts, rowVars
    <3>2. SameCounts(after.row, req[r].row)
      BY <1>1 DEF Request, Row
    <3>3. \A s \in Requests :
            SameCounts(req'[s].row, req[s].row) /\ (s # r => req'[s] = req[s])
      BY <1>1, <3>1, <3>2
    <3>4. \A s \in Requests :
            \/ req'[s].pc = "idle"
            \/ req[s].pc # "idle" /\ SameCounts(req'[s].row, req[s].row)
            \/ SameCounts(req'[s].row, campaign)
      <4> HIDE DEF after, eligible
      <4> QED
        BY <3>1, <3>3
    <3> QED
      BY <3>1, <3>4
  <2> QED
    BY <2>1, <2>2
<1>5. CASE SaveStart(r) \/ SavePause(r) \/ SaveCancel(r) \/ SaveEdit(r)
  BY <1>1, <1>5 DEF SaveStart, SavePause, SaveCancel, SaveEdit, Save, Respond,
                    IdleRequest, Row
<1>6. CASE DeleteRow(r)
  BY <1>1, <1>6 DEF DeleteRow, Respond, IdleRequest, NewRow
<1> QED
  BY <1>2, <1>3, <1>4, <1>5, <1>6 DEF RequestStep

\* A step of the worker but RecordStatus acknowledges nothing and keeps the counts.
LEMMA WorkerCounts ==
  ASSUME TypeOK, Bookkeeping, WorkerStep, ~RecordStatus, NEW n \in Nat, Within(n)
  PROVE  Within(n)' /\ UNCHANGED log
<1> USE DEF Within, Pending, One, rowVars, historyVars
<1>1. /\ worker \in Worker /\ campaign \in Row /\ campaign.sent \in Nat
      /\ worker.row \in Row /\ worker.row.sent \in Nat /\ req \in [Requests -> Request]
      /\ \A r \in Requests : req[r].row.sent \in Nat
  BY DEF TypeOK, Worker, Row, Request
<1>2. UNCHANGED req /\ UNCHANGED log
  <2>1. CASE CheckCampaign \/ CheckContact \/ CheckIdempotency
    BY <2>1 DEF CheckCampaign, CheckContact, CheckIdempotency
  <2>4. CASE TakeJob
    BY <2>4 DEF TakeJob
  <2>3. CASE AcquireToken \/ SendAnswered \/ SendUnanswered \/ SendRefused
    BY <2>3 DEF AcquireToken, SendAnswered, SendUnanswered, SendRefused
  <2>2. CASE \/ IncrementCounter \/ ReadProgress \/ SaveCompleted \/ EmitAndReturn
             \/ RecordFails \/ DatabaseFails
    BY <2>2 DEF IncrementCounter, ReadProgress, SaveCompleted, EmitAndReturn,
                RecordFails, DatabaseFails
  <2> QED
    BY <2>1, <2>2, <2>3, <2>4 DEF WorkerStep
<1>3. ASSUME UNCHANGED campaign, worker'.pc \notin {"count", "complete"}
      PROVE  Within(n)'
  BY <1>1, <1>2, <1>3
<1>4. ASSUME UNCHANGED campaign, AttemptOver, worker.pc # "idle"
      PROVE  Within(n)'
  BY <1>3, <1>4, AttemptEnds
<1>5. ASSUME NEW pc \in WorkerPc, Step(pc)
      PROVE  worker'.pc = pc /\ worker'.outcome = worker.outcome
  BY <1>1, <1>5 DEF Step, Worker
<1>6. CASE TakeJob
  BY <1>3, <1>6 DEF TakeJob, IdleWorker
<1>7. CASE CheckCampaign
  BY <1>3, <1>4, <1>5, <1>7 DEF CheckCampaign, AttemptOver, WorkerPc
<1>8. CASE CheckContact
  BY <1>1, <1>3, <1>8 DEF CheckContact, Worker
<1>9. CASE CheckIdempotency
  BY <1>3, <1>4, <1>5, <1>9 DEF CheckIdempotency, AttemptOver, WorkerPc
<1>10. CASE AcquireToken
  BY <1>3, <1>4, <1>5, <1>10 DEF AcquireToken, AttemptOver, WorkerPc
<1>11. CASE SendAnswered
  BY <1>1, <1>3, <1>11 DEF SendAnswered, Worker
<1>12. CASE SendUnanswered
  BY <1>4, <1>12 DEF SendUnanswered, AttemptOver
<1>13. CASE SendRefused \/ EmitAndReturn \/ RecordFails \/ DatabaseFails
  BY <1>4, <1>13 DEF SendRefused, EmitAndReturn, RecordFails, DatabaseFails, AttemptOver
<1>14. CASE IncrementCounter
  <2>1. worker'.pc \notin {"count", "complete"}
    BY <1>5, <1>14 DEF IncrementCounter, WorkerPc
  <2>2. Pending' = 0 /\ Pending \in {0, 1} /\ (worker.outcome = "SENT" => Pending = 1)
    BY <1>14, <2>1 DEF IncrementCounter
  <2>3. \/ campaign'.sent = campaign.sent
        \/ worker.outcome = "SENT" /\ campaign'.sent = campaign.sent + 1
    BY <1>1, <1>14 DEF IncrementCounter, Row
  <2>4. campaign'.sent <= n
    BY <1>1, <2>2, <2>3
  <2>5. \A r \in Requests : req[r].pc # "idle" => req[r].row.sent <= n
    BY <1>1, <2>2
  <2>6. campaign'.sent \in Nat
    BY <1>1, <2>3
  <2> QED
    BY <1>1, <1>2, <2>1, <2>2, <2>4, <2>5, <2>6
<1>15. CASE ReadProgress
  <2>1. /\ UNCHANGED campaign /\ worker'.pc # "count" /\ Pending = 0
        /\ worker'.pc = "complete" => worker'.row = campaign
    BY <1>1, <1>15 DEF ReadProgress, Worker
  <2> QED
    BY <1>1, <1>2, <2>1
<1>16. CASE SaveCompleted
  <2>1. campaign'.sent = worker.row.sent /\ worker.pc = "complete"
    BY <1>1, <1>16 DEF SaveCompleted, Save, Row
  <2>2. worker'.pc = "emit"
    BY <1>5, <1>16 DEF SaveCompleted, WorkerPc
  <2>3. campaign'.sent \in Nat /\ campaign'.sent <= n /\ Pending = 0 /\ Pending' = 0
    BY <1>1, <2>1, <2>2
  <2> QED
    BY <1>1, <1>2, <2>2, <2>3
<1>17. Within(n)'
  BY <1>6, <1>7, <1>8, <1>9, <1>10, <1>11, <1>12, <1>13, <1>14, <1>15, <1>16
  DEF WorkerStep
<1> QED
  BY <1>2, <1>17

\* RecordStatus of a sent message acknowledges one that was not.
LEMMA RecordAcknowledges ==
  ASSUME TypeOK, Bookkeeping, SendsRecorded, RecordStatus, CountsInv
  PROVE  CountsInv'
<1> DEFINE l == worker.log
<1>0. PICK n \in Nat : n = Cardinality(Acked)
  BY FS_CardinalityType DEF CountsInv
<1> USE DEF rowVars, historyVars
<1>1. /\ worker \in Worker /\ campaign.sent \in Nat /\ log \in [Logs -> LogRow]
      /\ l \in Logs /\ \A r \in Requests : req[r].row.sent \in Nat
  BY BusyWorker DEF TypeOK, Row, Request, RecordStatus
<1>2. IsFiniteSet(Acked) /\ Within(n)
  BY <1>0 DEF CountsInv
<1>3. /\ UNCHANGED << campaign, req >> /\ worker.pc = "record"
      /\ worker'.pc = "count" /\ worker'.outcome = worker.outcome
  BY <1>1 DEF RecordStatus, Step, Worker
<1>4. \A k \in Logs : log'[k].wa <=> (log[k].wa \/ (k = l /\ worker.outcome = "SENT"))
  BY <1>1 DEF RecordStatus, LogRow
<1>5. CASE worker.outcome = "SENT"
  <2>1. Acked' = Acked \cup {l} /\ l \notin Acked
    BY <1>1, <1>3, <1>4, <1>5 DEF Acked, SendsRecorded, Window
  <2>2. IsFiniteSet(Acked') /\ Cardinality(Acked') = n + 1
    BY <1>0, <1>2, <2>1, FS_AddElement
  <2>3. Within(n + 1)'
    BY <1>1, <1>2, <1>3 DEF Within, Pending, One
  <2> QED
    BY <2>2, <2>3 DEF CountsInv
<1>6. CASE worker.outcome # "SENT"
  <2>1. Acked' = Acked
    BY <1>4, <1>6 DEF Acked
  <2>2. Within(n)'
    BY <1>1, <1>2, <1>3, <1>6 DEF Within, Pending, One
  <2> QED
    BY <1>0, <1>2, <2>1, <2>2 DEF CountsInv
<1> QED
  BY <1>5, <1>6

-----------------------------------------------------------------------------
(* The counts are kept. *)

LEMMA InitCounts == Init => CountsInv
<1> SUFFICES ASSUME Init PROVE CountsInv
  OBVIOUS
<1>1. Acked = {}
  BY DEF Init, Acked, NoLogRow
<1>2. IsFiniteSet(Acked) /\ Cardinality(Acked) = 0
  BY <1>1, FS_EmptySet
<1>3. Within(0)
  BY DEF Init, Within, Pending, One, NewRow, IdleWorker, IdleRequest
<1> QED
  BY <1>2, <1>3 DEF CountsInv

LEMMA CountsStep ==
  ASSUME TypeOK, Bookkeeping, SendsRecorded, CountsInv, [Next]_vars
  PROVE  CountsInv'
<1>0. PICK n \in Nat : n = Cardinality(Acked)
  BY FS_CardinalityType DEF CountsInv
<1>1. n \in Nat /\ IsFiniteSet(Acked) /\ Within(n)
  BY <1>0 DEF CountsInv
<1>2. /\ campaign.sent \in Nat /\ worker \in Worker /\ worker.row.sent \in Nat
      /\ \A r \in Requests : req[r].row.sent \in Nat
  BY DEF TypeOK, Row, Request, Worker
<1>3. SUFFICES ASSUME ~RecordStatus PROVE Acked' = Acked /\ Within(n)'
  BY <1>0, <1>1, <1>3, RecordAcknowledges DEF CountsInv
<1>4. ASSUME NEW r \in Requests, NewRequest(r) \/ RequestStep(r) \/ RequestFails(r)
      PROVE  Acked' = Acked /\ Within(n)'
  <2>1. UNCHANGED worker /\ \A l \in Logs : log'[l].wa <=> log[l].wa
    BY <1>4, RequestFrame
  <2>2. Acked' = Acked
    BY <2>1 DEF Acked
  <2>3. Within(n)'
    <3>1. NewRow.sent = 0
      BY DEF NewRow
    <3> QED
      BY <1>1, <1>2, <1>4, <2>1, <3>1, RequestCopies DEF SameCounts, Within, Pending, One
  <2> QED
    BY <2>2, <2>3
<1>5. CASE WorkerStep
  BY <1>1, <1>3, <1>5, WorkerCounts DEF Acked
<1>6. CASE EnvironmentStep
  <2>1. CASE Crash
    <3>1. UNCHANGED << campaign, log >> /\ worker'.pc = "idle"
          /\ \A r \in Requests : req'[r].pc = "idle"
      BY <2>1, CrashFrame
    <3> QED
      BY <1>1, <1>2, <3>1 DEF Acked, Within, Pending, One
  <2>2. CASE ~Crash
    <3>1. UNCHANGED << campaign, log, worker, req >>
      BY <1>6, <2>2 DEF EnvironmentStep, BackoffElapses, OptOut, OptIn, rowVars
    <3> QED
      BY <1>1, <3>1 DEF Acked, Within, Pending
  <2> QED
    BY <2>1, <2>2
<1>7. CASE UNCHANGED vars
  BY <1>1, <1>7 DEF vars, Acked, Within, Pending
<1> QED
  BY <1>4, <1>5, <1>6, <1>7, StepKinds

\* However retries, duplicate jobs, crashes and handlers that write back stale copies of
\* the row interleave, sentCount stays within the messages WhatsApp acknowledged.
THEOREM SentCountIsSound == Spec => []SentCountSound
<1>1. Init => InductiveInv /\ CountsInv
  BY InitInductive, InitCounts
<1>2. InductiveInv /\ CountsInv /\ [Next]_vars => InductiveInv' /\ CountsInv'
  BY InductiveStep, CountsStep DEF InductiveInv
<1>3. InductiveInv /\ CountsInv => SentCountSound
  <2> SUFFICES ASSUME InductiveInv, CountsInv PROVE SentCountSound
    OBVIOUS
  <2>1. Cardinality(Acked) \in Nat /\ Pending \in {0, 1} /\ campaign.sent \in Nat
    BY FS_CardinalityType DEF CountsInv, Pending, One, InductiveInv, TypeOK, Row
  <2> QED
    BY <2>1 DEF CountsInv, Within, SentCountSound, Acked
<1> QED
  BY <1>1, <1>2, <1>3, PTL DEF Spec

(***************************************************************************)
(* A campaign started once and COMPLETED is done, if no crash and no       *)
(* database fault makes a log be counted twice.                            *)
(***************************************************************************)

\* What a request does to the status of a log: a new one is PENDING, a PENDING one may
\* become FAILED.
LEMMA RequestLogs ==
  ASSUME TypeOK, NEW r \in Requests,
         NewRequest(r) \/ RequestStep(r) \/ RequestFails(r), NEW l \in Logs
  PROVE  \/ log'[l].status = log[l].status
         \/ log[l].status = "PENDING" /\ log'[l].status = "FAILED"
         \/ log[l].status = "NONE" /\ log'[l].status = "PENDING" /\ CreateLog(r)
<1>1. log \in [Logs -> LogRow]
  BY DEF TypeOK
<1>2. CASE CreateLog(r)
  <2>1. CASE UNCHANGED log
    BY <2>1
  <2>2. CASE ~UNCHANGED log
    <3>1. PICK c \in req[r].todo, k \in Logs \ Created :
            log' = [log EXCEPT ![k] = [status |-> "PENDING", contact |-> c,
                                       wa |-> FALSE, linked |-> TRUE]]
      BY <1>2, <2>2 DEF CreateLog
    <3> QED
      BY <1>1, <1>2, <3>1 DEF Created
  <2> QED
    BY <2>1, <2>2
<1>3. CASE FailPendingLogs(r)
  BY <1>1, <1>3 DEF FailPendingLogs, LogRow
<1>4. CASE DeleteRow(r)
  BY <1>1, <1>4 DEF DeleteRow, LogRow
<1>5. CASE NewRequest(r)
  BY <1>5 DEF NewRequest, BeginStart, BeginPause, BeginCancel, BeginEdit, BeginRemove
<1>6. CASE \/ RequestFails(r) \/ CheckSession(r) \/ PickContacts(r) \/ EnqueueJob(r)
           \/ SaveStart(r) \/ SavePause(r) \/ SaveCancel(r) \/ SaveEdit(r)
  BY <1>6 DEF RequestFails, CheckSession, PickContacts, EnqueueJob, SaveStart, SavePause,
              SaveCancel, SaveEdit
<1> QED
  BY <1>2, <1>3, <1>4, <1>5, <1>6 DEF RequestStep

\* A step of the worker counts the settled log of an attempt that goes on, completes
\* the row with the copy it read, or leaves the row alone.
Tallies ==
  /\ UNCHANGED req
  /\ \A l \in Logs : \/ log'[l].status = log[l].status
                     \/ log'[l].status \in {"SENT", "FAILED"}
  /\ \/ UNCHANGED campaign
     \/ /\ worker.pc = "count"
        /\ campaign'.status = campaign.status /\ campaign'.total = campaign.total
        /\ Handled(campaign') = Handled(campaign) + 1
     \/ /\ worker.pc = "complete" /\ worker'.pc = "emit"
        /\ campaign'.status = "COMPLETED" /\ SameCounts(campaign', worker.row)
  /\ worker'.pc = "count" => log'[worker'.log].status \in {"SENT", "FAILED"}
  /\ worker'.pc = "complete" =>
       /\ worker.pc = "progress" /\ worker'.row = campaign /\ UNCHANGED campaign
       /\ campaign.status = "RUNNING" /\ Handled(campaign) >= campaign.total
  /\ worker.pc \in {"count", "progress", "complete", "emit"} =>
       \/ worker'.pc \in {"progress", "complete", "emit"} /\ worker'.log = worker.log
       \/ worker.pc # "count" /\ job'[worker.log].state = "completed"

\* Without database faults nothing is thrown once the log is recorded.
LEMMA WorkerTallies ==
  ASSUME TypeOK, Bookkeeping, WorkerStep, "db" \notin Faults
  PROVE  Tallies
<1> DEFINE After == {"count", "progress", "complete", "emit"}
<1> USE DEF rowVars, historyVars
<1>1. /\ worker \in Worker /\ campaign \in Row /\ log \in [Logs -> LogRow]
      /\ worker.row \in Row /\ job \in [Logs -> Job]
  BY DEF TypeOK, Worker
<1>2. ASSUME UNCHANGED << campaign, log, req >>, worker.pc \notin After,
             worker'.pc \notin {"count", "complete"}
      PROVE  Tallies
  BY <1>2 DEF Tallies
<1>3. ASSUME UNCHANGED << campaign, log, req >>, worker.pc \notin After, worker.pc # "idle",
             AttemptOver
      PROVE  Tallies
  BY <1>2, <1>3, AttemptEnds
<1>4. ASSUME NEW pc \in WorkerPc, Step(pc)
      PROVE  worker'.pc = pc /\ worker'.log = worker.log
  BY <1>1, <1>4 DEF Step, Worker
<1>5. CASE TakeJob
  BY <1>2, <1>5 DEF TakeJob, IdleWorker
<1>6. CASE CheckCampaign
  BY <1>2, <1>3, <1>4, <1>6 DEF CheckCampaign, AttemptOver, WorkerPc
<1>7. CASE CheckContact
  BY <1>1, <1>2, <1>7 DEF CheckContact, Worker
<1>8. CASE CheckIdempotency
  BY <1>2, <1>3, <1>4, <1>8 DEF CheckIdempotency, AttemptOver, WorkerPc
<1>9. CASE AcquireToken
  BY <1>2, <1>3, <1>4, <1>9 DEF AcquireToken, AttemptOver, WorkerPc
<1>10. CASE SendAnswered
  BY <1>1, <1>2, <1>10 DEF SendAnswered, Worker
<1>11. CASE SendUnanswered \/ SendRefused \/ RecordFails
  BY <1>3, <1>11 DEF SendUnanswered, SendRefused, RecordFails, AttemptOver
<1>12. CASE RecordStatus
  <2>1. /\ UNCHANGED << campaign, req >> /\ worker.pc = "record"
        /\ worker'.pc = "count" /\ worker'.log = worker.log
    BY <1>4, <1>12 DEF RecordStatus, WorkerPc
  <2>2. worker.log \in Logs /\ worker.outcome \in {"SENT", "FAILED"}
    BY <1>1, <2>1, BusyWorker DEF Worker
  <2>3. /\ \A k \in Logs \ {worker.log} : log'[k] = log[k]
        /\ log'[worker.log].status = worker.outcome
    BY <1>1, <1>12, <2>2 DEF RecordStatus, LogRow
  <2> QED
    BY <2>1, <2>2, <2>3 DEF Tallies
<1>13. CASE IncrementCounter
  <2>1. /\ UNCHANGED << log, req >> /\ worker.pc = "count"
        /\ worker'.pc \in {"progress", "emit"} /\ worker'.log = worker.log
    BY <1>4, <1>13 DEF IncrementCounter, WorkerPc
  <2>2. \/ UNCHANGED campaign
        \/ /\ campaign'.status = campaign.status /\ campaign'.total = campaign.total
           /\ Handled(campaign') = Handled(campaign) + 1
    BY <1>1, <1>13 DEF IncrementCounter, Row, Handled
  <2> QED
    BY <2>1, <2>2 DEF Tallies
<1>14. CASE ReadProgress
  <2>1. /\ UNCHANGED << campaign, log, req >> /\ worker.pc = "progress"
        /\ worker'.pc \in {"complete", "emit"} /\ worker'.log = worker.log
        /\ worker'.pc = "complete" =>
             /\ worker'.row = campaign /\ campaign.status = "RUNNING"
             /\ campaign.sent + campaign.failed >= campaign.total
    BY <1>1, <1>14 DEF ReadProgress, Worker
  <2> QED
    BY <2>1 DEF Tallies, Handled
<1>15. CASE SaveCompleted
  <2>1. /\ UNCHANGED << log, req >> /\ worker.pc = "complete"
        /\ worker'.pc = "emit" /\ worker'.log = worker.log
    BY <1>4, <1>15 DEF SaveCompleted, WorkerPc
  <2>2. campaign'.status = "COMPLETED" /\ SameCounts(campaign', worker.row)
    BY <1>1, <1>15 DEF SaveCompleted, Save, Row, SameCounts
  <2> QED
    BY <2>1, <2>2 DEF Tallies
<1>16. CASE EmitAndReturn
  <2>1. UNCHANGED << campaign, log, req >> /\ worker.pc = "emit" /\ worker.log \in Logs
    BY <1>16, BusyWorker DEF EmitAndReturn
  <2>2. worker'.pc = "idle" /\ job'[worker.log].state = "completed"
    BY <1>1, <1>16, <2>1 DEF EmitAndReturn, FinishJob, IdleWorker, Job
  <2> QED
    BY <2>1, <2>2 DEF Tallies
<1>17. ~DatabaseFails
  BY DEF DatabaseFails
<1> QED
  BY <1>5, <1>6, <1>7, <1>8, <1>9, <1>10, <1>11, <1>12, <1>13, <1>14, <1>15, <1>16,
     <1>17 DEF WorkerStep

\* No start, and no log of one: what such a step keeps.
LEMMA OneStartKept ==
  ASSUME OneStart, UNCHANGED starts,
         \A s \in Requests :
           /\ req'[s].pc \in {"session", "contacts", "loop", "enqueue"} => req'[s] = req[s]
           /\ req'[s].pc = "saveEdit" =>
                (req[s].pc = "saveEdit" /\ req'[s] = req[s]) \/ req'[s].row.status = "DRAFT",
         \A l \in Logs :
           /\ log[l].status = "NONE" <=> log'[l].status = "NONE"
           /\ log'[l].status = "PENDING" => log[l].status = "PENDING",
         campaign'.status \in {"RUNNING", "COMPLETED"} =>
           campaign'.status = campaign.status /\ campaign'.total = campaign.total,
         worker'.pc = "complete" => worker.pc = "complete"
  PROVE  OneStart'
<1>1. Created' = Created
  BY DEF Created
<1>2. ASSUME NEW s \in Requests, Starting(s)'
      PROVE  StartAlone(s)'
  <2>1. req'[s] = req[s] /\ Starting(s) /\ StartAlone(s)
    BY <1>2 DEF Starting, OneStart
  <2> QED
    BY <1>1, <2>1 DEF StartAlone, Starting
<1>3. ASSUME NEW s \in Requests, req'[s].pc = "saveEdit"
      PROVE  req'[s].row.status = "DRAFT"
  BY <1>3 DEF OneStart
<1>4. starts' = 0 => Created' = {} /\ campaign'.status \notin {"RUNNING", "COMPLETED"}
  BY <1>1 DEF OneStart
<1>5. campaign'.status = "RUNNING" => Cardinality(Created') <= campaign'.total
  BY <1>1 DEF OneStart
<1>6. campaign'.status = "COMPLETED" \/ worker'.pc = "complete" =>
        starts' = 1 /\ \A l \in Logs : log'[l].status # "PENDING"
  BY DEF OneStart
<1> QED
  BY <1>2, <1>3, <1>4, <1>5, <1>6 DEF OneStart

\* An idle worker takes a job.
LEMMA IdleWorkerTakes ==
  ASSUME WorkerStep, worker.pc = "idle"
  PROVE  TakeJob
BY DEF WorkerStep, CheckCampaign, CheckContact, CheckIdempotency, AcquireToken,
   SendAnswered, SendUnanswered, SendRefused, RecordStatus, IncrementCounter,
   ReadProgress, SaveCompleted, EmitAndReturn, RecordFails, DatabaseFails

\* Only CreateLog makes a log, and it makes one.
LEMMA CreatedStep ==
  ASSUME TypeOK, Bookkeeping, [Next]_vars, ~Crash, "db" \notin Faults
  PROVE  \/ Created' = Created
         \/ \E l \in Logs \ Created, r \in Requests :
              Created' = Created \cup {l} /\ CreateLog(r)
<1>1. CASE \E r \in Requests : CreateLog(r)
  <2>1. PICK r \in Requests : CreateLog(r)
    BY <1>1
  <2>2. CASE UNCHANGED log
    BY <2>2 DEF Created
  <2>3. CASE ~UNCHANGED log
    <3>1. PICK c \in req[r].todo, k \in Logs \ Created :
            log' = [log EXCEPT ![k] = [status |-> "PENDING", contact |-> c,
                                       wa |-> FALSE, linked |-> TRUE]]
      BY <2>1, <2>3 DEF CreateLog
    <3>2. \A l \in Logs : log'[l].status # "NONE" <=> (log[l].status # "NONE" \/ l = k)
      BY <3>1 DEF TypeOK
    <3> QED
      BY <2>1, <3>2 DEF Created
  <2> QED
    BY <2>2, <2>3
<1>2. ASSUME NEW r \in Requests, NewRequest(r) \/ RequestStep(r) \/ RequestFails(r),
             ~CreateLog(r)
      PROVE  Created' = Created
  BY <1>2, RequestLogs DEF Created
<1>3. CASE WorkerStep
  <2>1. \A l \in Logs : log'[l].status # "NONE" <=> log[l].status # "NONE"
    <3>1. CASE worker.pc = "idle"
      BY <1>3, <3>1, IdleWorkerTakes DEF TakeJob
    <3>2. CASE worker.pc # "idle"
      BY <1>3, <3>2, WorkerFrame, BusyWorker DEF Frame
    <3> QED
      BY <3>1, <3>2
  <2> QED
    BY <2>1 DEF Created
<1>4. CASE EnvironmentStep \/ UNCHANGED vars
  BY <1>4 DEF EnvironmentStep, BackoffElapses, OptOut, OptIn, vars, Created
<1> QED
  BY <1>1, <1>2, <1>3, <1>4, StepKinds

\* A log that may have been counted stays so, and the worker counts one that was not.
LEMMA CountedByWorker ==
  ASSUME TypeOK, Bookkeeping, CountsEarned, WorkerStep, "db" \notin Faults
  PROVE  /\ Counted \subseteq Counted'
         /\ worker.pc = "count" => worker.log \in Counted' \ Counted
<1>1. job \in [Logs -> Job] /\ worker \in Worker
  BY DEF TypeOK
<1>2. ASSUME NEW l \in Logs, Settled(l) PROVE log'[l].status \in {"SENT", "FAILED"}
  BY <1>2, WorkerTallies DEF Tallies, Settled
<1>3. ASSUME NEW l \in Logs, job[l].state = "completed"
      PROVE  job'[l].state = "completed"
  <2>1. CASE worker.pc = "idle"
    BY <1>1, <1>3, <2>1, IdleWorkerTakes DEF TakeJob, Job
  <2>2. CASE worker.pc # "idle"
    BY <1>3, <2>2, WorkerFrame, BusyWorker DEF Frame
  <2> QED
    BY <2>1, <2>2
<1>4. ASSUME worker.pc \in {"count", "progress", "complete", "emit"}
      PROVE  \/ /\ worker'.pc \in {"progress", "complete", "emit"}
                /\ worker'.log = worker.log
             \/ worker.pc # "count" /\ job'[worker.log].state = "completed"
  BY <1>4, WorkerTallies DEF Tallies
<1>5. Counted \subseteq Counted'
  BY <1>2, <1>3, <1>4 DEF Counted, Settled
<1>6. ASSUME worker.pc = "count" PROVE worker.log \in Counted' \ Counted
  <2>1. worker.log \in Logs /\ Settled(worker.log) /\ job[worker.log].state = "active"
    BY <1>6, BusyWorker DEF CountsEarned
  <2>2. log'[worker.log].status \in {"SENT", "FAILED"}
    BY <1>2, <2>1
  <2> QED
    BY <1>4, <1>6, <2>1, <2>2 DEF Counted, Settled
<1> QED
  BY <1>5, <1>6

\* No step takes a log off those that may have been counted.
LEMMA CountedGrows ==
  ASSUME TypeOK, Bookkeeping, CountsEarned, [Next]_vars, ~Crash, "db" \notin Faults
  PROVE  Counted \subseteq Counted'
<1>1. ASSUME NEW r \in Requests, NewRequest(r) \/ RequestStep(r) \/ RequestFails(r)
      PROVE  Counted \subseteq Counted'
  <2>1. UNCHANGED worker /\ \A l \in Logs : job[l].state = "completed" =>
                                              job'[l].state = "completed"
    BY <1>1, RequestFrame
  <2>2. \A l \in Logs : Settled(l) => log'[l].status \in {"SENT", "FAILED"}
    BY <1>1, RequestLogs DEF Settled
  <2> QED
    BY <2>1, <2>2 DEF Counted, Settled
<1>2. CASE EnvironmentStep
  <2>1. UNCHANGED << log, worker >>
    BY <1>2 DEF EnvironmentStep, BackoffElapses, OptOut, OptIn
  <2>2. \A l \in Logs : job[l].state = "completed" => job'[l].state = "completed"
    BY <1>2 DEF EnvironmentStep, BackoffElapses, OptOut, OptIn, TypeOK, Job
  <2> QED
    BY <2>1, <2>2 DEF Counted, Settled
<1>3. CASE UNCHANGED vars
  BY <1>3 DEF vars, Counted, Settled
<1> QED
  BY <1>1, <1>2, <1>3, CountedByWorker, StepKinds

\* The counters stay within the logs counted.
LEMMA CountsEarnedStep ==
  ASSUME TypeOK, Bookkeeping, CountsEarned, [Next]_vars, ~Crash, "db" \notin Faults
  PROVE  CountsEarned'
<1>1. IsFiniteSet(Created')
  BY CreatedStep, FS_AddElement DEF CountsEarned
<1>2. Counted \subseteq Counted' /\ Counted \subseteq Created /\ Counted' \subseteq Created'
  BY CountedGrows DEF Counted, Created, Settled
<1>3. /\ IsFiniteSet(Counted) /\ IsFiniteSet(Counted')
      /\ Cardinality(Counted) <= Cardinality(Counted')
      /\ \A l : l \in Counted' \ Counted => Cardinality(Counted) + 1 <= Cardinality(Counted')
  <2>1. IsFiniteSet(Counted) /\ IsFiniteSet(Counted')
    BY <1>1, <1>2, FS_Subset DEF CountsEarned
  <2>2. Cardinality(Counted) <= Cardinality(Counted')
    BY <1>2, <2>1, FS_Subset
  <2>3. ASSUME NEW l, l \in Counted' \ Counted
        PROVE  Cardinality(Counted) + 1 <= Cardinality(Counted')
    <3>1. Counted \cup {l} \subseteq Counted'
      BY <1>2, <2>3
    <3>2. /\ IsFiniteSet(Counted \cup {l})
          /\ Cardinality(Counted \cup {l}) = Cardinality(Counted) + 1
      BY <2>1, <2>3, FS_AddElement
    <3> QED
      BY <2>1, <3>1, <3>2, FS_Subset
  <2> QED
    BY <2>1, <2>2, <2>3
<1>4. PICK n \in Nat, m \in Nat : n = Cardinality(Counted) /\ m = Cardinality(Counted')
  BY <1>3, FS_CardinalityType
<1>5. /\ n <= m /\ Handled(campaign) <= n
      /\ worker.pc = "complete" => Handled(worker.row) <= n
      /\ \A r \in Requests : req[r].pc # "idle" => Handled(req[r].row) <= n
  BY <1>3, <1>4 DEF CountsEarned
<1>6. SUFFICES /\ worker'.pc = "count" => log'[worker'.log].status \in {"SENT", "FAILED"}
               /\ Handled(campaign') <= m
               /\ worker'.pc = "complete" => Handled(worker'.row) <= m
               /\ \A r \in Requests : req'[r].pc # "idle" => Handled(req'[r].row) <= m
  BY <1>1, <1>4 DEF CountsEarned, Settled, Handled
<1>7. /\ Handled(campaign) \in Nat /\ Handled(worker.row) \in Nat
      /\ \A r \in Requests : Handled(req[r].row) \in Nat
  BY DEF TypeOK, Row, Worker, Request, Handled
<1>8. \A row, other : SameCounts(row, other) => Handled(row) = Handled(other)
  BY DEF SameCounts, Handled
<1>9. worker.pc = "count" => log[worker.log].status \in {"SENT", "FAILED"}
  BY DEF CountsEarned, Settled
<1>10. ASSUME NEW r \in Requests, NewRequest(r) \/ RequestStep(r) \/ RequestFails(r)
       PROVE  /\ worker'.pc = "count" => log'[worker'.log].status \in {"SENT", "FAILED"}
              /\ Handled(campaign') <= m
              /\ worker'.pc = "complete" => Handled(worker'.row) <= m
              /\ \A s \in Requests : req'[s].pc # "idle" => Handled(req'[s].row) <= m
  <2>1. UNCHANGED worker /\ Handled(NewRow) = 0
    BY <1>10, RequestFrame DEF NewRow, Handled
  <2>2. worker'.pc = "count" => log'[worker'.log].status \in {"SENT", "FAILED"}
    BY <1>9, <1>10, <2>1, RequestLogs, BusyWorker
  <2>3. \/ Handled(campaign') = Handled(campaign)
        \/ req[r].pc # "idle" /\ Handled(campaign') = Handled(req[r].row)
        \/ Handled(campaign') = 0
    BY <1>8, <1>10, <2>1, RequestCopies
  <2>4. \A s \in Requests :
          \/ req'[s].pc = "idle"
          \/ req[s].pc # "idle" /\ Handled(req'[s].row) = Handled(req[s].row)
          \/ Handled(req'[s].row) = Handled(campaign)
    BY <1>8, <1>10, RequestCopies
  <2> HIDE DEF Handled
  <2>5. Handled(campaign') <= m
    BY <1>5, <1>7, <2>3
  <2>6. \A s \in Requests : req'[s].pc # "idle" => Handled(req'[s].row) <= m
    BY <1>5, <1>7, <2>4
  <2> QED
    BY <1>5, <1>7, <2>1, <2>2, <2>5, <2>6
<1>11. CASE WorkerStep
  <2>1. Tallies
    BY <1>11, WorkerTallies
  <2>2. worker.pc = "count" => n + 1 <= m
    BY <1>3, <1>4, <1>11, CountedByWorker
  <2>3. Handled(campaign') <= m
    BY <1>5, <1>7, <1>8, <2>1, <2>2 DEF Tallies
  <2>4. worker'.pc = "complete" => Handled(worker'.row) <= m
    BY <1>5, <1>7, <2>1 DEF Tallies
  <2>5. \A r \in Requests : req'[r].pc # "idle" => Handled(req'[r].row) <= m
    BY <1>5, <1>7, <2>1 DEF Tallies
  <2> QED
    BY <2>1, <2>3, <2>4, <2>5 DEF Tallies
<1>12. CASE EnvironmentStep \/ UNCHANGED vars
  <2>1. UNCHANGED << campaign, worker, log, req >>
    BY <1>12 DEF EnvironmentStep, BackoffElapses, OptOut, OptIn, vars, rowVars
  <2> QED
    BY <1>5, <1>7, <1>9, <2>1
<1> QED
  BY <1>10, <1>11, <1>12, StepKinds

\* A request that moves on inside the start, or starts, keeps OneStart.
LEMMA StartStep ==
  ASSUME TypeOK, Bookkeeping, CountsEarned, OneStart, NEW r \in Requests, starts' <= 1,
         \/ BeginStart(r) \/ CheckSession(r) \/ PickContacts(r) \/ CreateLog(r)
         \/ EnqueueJob(r) \/ SaveStart(r)
  PROVE  OneStart'
<1> USE DEF rowVars, historyVars, boundVars
<1>1. /\ req \in [Requests -> Request] /\ log \in [Logs -> LogRow]
      /\ campaign \in Row /\ req[r].row \in Row /\ worker \in Worker
      /\ req[r].todo \in SUBSET Contacts /\ req[r] \in Request /\ starts \in Nat
  BY DEF TypeOK, Request
<1>2. IsFiniteSet(Created)
  BY DEF CountsEarned
<1>3. ASSUME UNCHANGED << campaign, log, starts, worker >>, req' = [req EXCEPT ![r] = IdleRequest]
      PROVE  OneStart'
  BY <1>1, <1>3, OneStartKept DEF IdleRequest
<1>4. ASSUME UNCHANGED worker, starts' = 1, campaign'.status \notin {"RUNNING", "COMPLETED"},
             worker.pc # "complete", StartAlone(r)',
             \A s \in Requests \ {r} : req'[s] = req[s] /\ ~Starting(s),
             req'[r].pc # "saveEdit"
      PROVE  OneStart'
  <2>1. ASSUME NEW s \in Requests, Starting(s)' PROVE s = r
    BY <1>4, <2>1 DEF Starting
  <2>2. ASSUME NEW s \in Requests, req'[s].pc = "saveEdit"
        PROVE  req'[s].row.status = "DRAFT"
    BY <1>4, <2>2 DEF OneStart
  <2> QED
    BY <1>4, <2>1, <2>2 DEF OneStart
<1>5. CASE BeginStart(r)
  <2>1. /\ starts = 0 /\ starts' = 1 /\ UNCHANGED << campaign, log, worker >>
        /\ campaign.status \notin {"RUNNING", "COMPLETED"}
    BY <1>1, <1>5 DEF BeginStart, Load
  <2>2. Created = {} /\ Created' = {} /\ worker.pc # "complete"
    BY <2>1 DEF OneStart, Created
  <2>3. \A s \in Requests : ~Starting(s)
    BY <2>1 DEF OneStart, StartAlone
  <2>4. /\ req'[r].pc = "session" /\ \A s \in Requests \ {r} : req'[s] = req[s]
    BY <1>1, <1>5 DEF BeginStart, Load
  <2>5. StartAlone(r)'
    BY <2>1, <2>2, <2>3, <2>4 DEF StartAlone, Starting
  <2> QED
    BY <1>4, <2>1, <2>2, <2>3, <2>4, <2>5
<1>6. ASSUME Starting(r), UNCHANGED << campaign, starts, worker >>,
             NEW q \in Request, req' = [req EXCEPT ![r] = q],
             q.pc \in {"contacts", "loop", "enqueue"},
             q.pc = "contacts" => Created' = {},
             q.pc \in {"loop", "enqueue"} =>
               /\ IsFiniteSet(q.todo)
               /\ Cardinality(Created') + Cardinality(q.todo) = q.row.total
      PROVE  OneStart'
  <2>1. StartAlone(r)
    BY <1>6 DEF OneStart
  <2>2. \A s \in Requests \ {r} : req'[s] = req[s] /\ ~Starting(s)
    BY <1>1, <1>6, <2>1 DEF StartAlone
  <2>3. req'[r] = q
    BY <1>1, <1>6
  <2>4. StartAlone(r)'
    BY <1>6, <2>1, <2>2, <2>3 DEF StartAlone, Starting
  <2> QED
    BY <1>4, <1>6, <2>1, <2>2, <2>3, <2>4 DEF StartAlone
<1>7. CASE CheckSession(r)
  <2>1. CASE Respond(r)
    BY <1>3, <1>7, <2>1 DEF CheckSession, Respond
  <2>2. CASE Goto(r, "contacts")
    <3> DEFINE after == [req[r] EXCEPT !.pc = "contacts"]
    <3>0. after \in Request /\ after.pc = "contacts" /\ req' = [req EXCEPT ![r] = after]
      BY <1>1, <2>2 DEF Goto, Request, RequestPc
    <3> HIDE DEF after
    <3>1. PICK q \in Request : req' = [req EXCEPT ![r] = q] /\ q.pc = "contacts"
      BY <3>0
    <3>2. UNCHANGED << campaign, starts, worker, log >> /\ req[r].pc = "session"
      BY <1>7 DEF CheckSession
    <3>3. Starting(r) /\ Created' = {}
      BY <3>2 DEF Starting, OneStart, StartAlone, Created
    <3> QED
      BY <1>6, <3>1, <3>2, <3>3
  <2> QED
    BY <1>7, <2>1, <2>2 DEF CheckSession
<1>8. CASE PickContacts(r)
  <2>1. CASE Respond(r)
    BY <1>3, <1>8, <2>1 DEF PickContacts, Respond
  <2>2. CASE ~Respond(r)
    <3>1. PICK S \in SUBSET Contacts :
            req' = [req EXCEPT ![r] = [@ EXCEPT
              !.pc = "loop", !.todo = S, !.row.total = Cardinality(S)]]
      BY <1>8, <2>2 DEF PickContacts
    <3>2. IsFiniteSet(S) /\ Cardinality(S) \in Nat
      BY ContactsAssumption, FS_Subset, FS_CardinalityType
    <3>3. [req[r].row EXCEPT !.total = Cardinality(S)] \in Row
      BY <1>1, <3>2 DEF Row
    <3> DEFINE after == [req[r] EXCEPT !.pc = "loop", !.todo = S,
                                       !.row.total = Cardinality(S)]
    <3>8. /\ after \in Request /\ after.pc = "loop" /\ after.todo = S
          /\ after.row.total = Cardinality(S) /\ req' = [req EXCEPT ![r] = after]
      BY <1>1, <3>1, <3>2 DEF Request, RequestPc, Row
    <3> HIDE DEF after
    <3>4. PICK q \in Request : /\ req' = [req EXCEPT ![r] = q] /\ q.pc = "loop"
                               /\ q.todo = S /\ q.row.total = Cardinality(S)
      BY <3>8
    <3>5. UNCHANGED << campaign, starts, worker, log >> /\ req[r].pc = "contacts"
      BY <1>8 DEF PickContacts
    <3>6. Starting(r) /\ Created' = {}
      BY <3>5 DEF Starting, OneStart, StartAlone, Created
    <3>7. Cardinality(Created') + Cardinality(q.todo) = q.row.total
      BY <3>2, <3>4, <3>6, FS_EmptySet
    <3> QED
      BY <1>6, <3>2, <3>4, <3>5, <3>6, <3>7
  <2> QED
    BY <2>1, <2>2
<1>9. CASE CreateLog(r)
  <2>1. CASE Respond(r) /\ UNCHANGED log
    BY <1>3, <1>9, <2>1 DEF CreateLog, Respond
  <2>2. CASE ~(Respond(r) /\ UNCHANGED log)
    <3>1. PICK c \in req[r].todo, k \in Logs \ Created :
            /\ log' = [log EXCEPT ![k] = [status |-> "PENDING", contact |-> c,
                                          wa |-> FALSE, linked |-> TRUE]]
            /\ req' = [req EXCEPT ![r] = [@ EXCEPT
                 !.pc = "enqueue", !.todo = req[r].todo \ {c}, !.log = k]]
      BY <1>9, <2>2 DEF CreateLog
    <3>2. Created' = Created \cup {k}
      BY <1>1, <3>1 DEF Created
    <3> DEFINE after == [req[r] EXCEPT !.pc = "enqueue", !.todo = req[r].todo \ {c},
                                       !.log = k]
    <3>8. /\ after \in Request /\ after.pc = "enqueue" /\ after.row = req[r].row
          /\ after.todo = req[r].todo \ {c} /\ req' = [req EXCEPT ![r] = after]
      BY <1>1, <3>1 DEF Request, RequestPc
    <3> HIDE DEF after
    <3>3. PICK q \in Request : /\ req' = [req EXCEPT ![r] = q] /\ q.pc = "enqueue"
                               /\ q.todo = req[r].todo \ {c} /\ q.row = req[r].row
      BY <3>8
    <3>4. UNCHANGED << campaign, starts, worker >> /\ req[r].pc = "loop"
      BY <1>9 DEF CreateLog
    <3>5. /\ Starting(r) /\ IsFiniteSet(req[r].todo)
          /\ Cardinality(Created) + Cardinality(req[r].todo) = req[r].row.total
      BY <3>4 DEF Starting, OneStart, StartAlone
    <3>6. /\ Cardinality(Created') = Cardinality(Created) + 1
          /\ IsFiniteSet(q.todo) /\ Cardinality(q.todo) = Cardinality(req[r].todo) - 1
      <4>1. Cardinality(Created') = Cardinality(Created) + 1
        BY <1>2, <3>1, <3>2, FS_AddElement
      <4>2. /\ IsFiniteSet(req[r].todo \ {c})
            /\ Cardinality(req[r].todo \ {c}) = Cardinality(req[r].todo) - 1
        BY <3>1, <3>5, FS_RemoveElement
      <4> QED
        BY <3>3, <4>1, <4>2
    <3>7. Cardinality(Created) \in Nat /\ Cardinality(req[r].todo) \in Nat
      BY <1>2, <3>5, FS_CardinalityType
    <3>9. Cardinality(Created') + Cardinality(q.todo) = q.row.total
      BY <3>3, <3>5, <3>6, <3>7
    <3> QED
      BY <1>6, <3>3, <3>4, <3>5, <3>6, <3>9
  <2> QED
    BY <2>1, <2>2
<1>10. CASE EnqueueJob(r)
  <2> DEFINE after == [req[r] EXCEPT !.pc = "loop"]
  <2>4. /\ after \in Request /\ after.pc = "loop" /\ after.row = req[r].row
        /\ after.todo = req[r].todo /\ req' = [req EXCEPT ![r] = after]
    BY <1>1, <1>10 DEF EnqueueJob, Goto, Request, RequestPc
  <2> HIDE DEF after
  <2>1. PICK q \in Request : /\ req' = [req EXCEPT ![r] = q] /\ q.pc = "loop"
                             /\ q.todo = req[r].todo /\ q.row = req[r].row
    BY <2>4
  <2>2. UNCHANGED << campaign, starts, worker, log >> /\ req[r].pc = "enqueue"
    BY <1>10 DEF EnqueueJob
  <2>3. /\ Starting(r) /\ Created' = Created /\ IsFiniteSet(req[r].todo)
        /\ Cardinality(Created) + Cardinality(req[r].todo) = req[r].row.total
    BY <2>2 DEF Starting, OneStart, StartAlone, Created
  <2> QED
    BY <1>6, <2>1, <2>2, <2>3
<1>11. CASE SaveStart(r)
  <2>1. /\ UNCHANGED << starts, worker, log >> /\ req[r].pc = "loop" /\ req[r].todo = {}
        /\ campaign'.status = "RUNNING" /\ campaign'.total = req[r].row.total
        /\ req' = [req EXCEPT ![r] = IdleRequest]
    BY <1>1, <1>11 DEF SaveStart, Save, Respond, Row
  <2>2. StartAlone(r) /\ Created' = Created
    BY <2>1 DEF OneStart, Starting, Created
  <2>3. Cardinality(Created') = campaign'.total
    BY <1>2, <2>1, <2>2, FS_EmptySet, FS_CardinalityType DEF StartAlone
  <2>4. Cardinality(Created') \in Nat
    BY <1>2, <2>2, FS_CardinalityType
  <2>5. \A s \in Requests : /\ ~Starting(s)'
                            /\ req'[s].pc = "saveEdit" => req'[s] = req[s]
    BY <1>1, <2>1, <2>2 DEF StartAlone, Starting, IdleRequest
  <2>6. starts' = 1 /\ worker'.pc # "complete"
    BY <2>1, <2>2 DEF StartAlone
  <2> QED
    BY <2>1, <2>3, <2>4, <2>5, <2>6 DEF OneStart
<1> QED
  BY <1>5, <1>7, <1>8, <1>9, <1>10, <1>11

\* The other requests keep OneStart: they store no RUNNING and no COMPLETED row.
LEMMA OtherRequestStep ==
  ASSUME TypeOK, Bookkeeping, OneStart, NEW r \in Requests,
         NewRequest(r) \/ RequestStep(r) \/ RequestFails(r),
         ~BeginStart(r), ~CheckSession(r), ~PickContacts(r), ~CreateLog(r),
         ~EnqueueJob(r), ~SaveStart(r)
  PROVE  OneStart'
<1> USE DEF rowVars, historyVars, boundVars
<1>1. /\ req \in [Requests -> Request] /\ req[r] \in Request /\ campaign \in Row
      /\ req[r].row \in Row
  BY DEF TypeOK, Request
<1>2. UNCHANGED << starts, worker >>
  BY DEF NewRequest, BeginPause, BeginCancel, BeginEdit, BeginRemove, RequestStep,
         SavePause, FailPendingLogs, SaveCancel, SaveEdit, DeleteRow, RequestFails
<1>3. \A l \in Logs :
        /\ log[l].status = "NONE" <=> log'[l].status = "NONE"
        /\ log'[l].status = "PENDING" => log[l].status = "PENDING"
  BY RequestLogs
<1>4. CASE BeginPause(r) \/ BeginCancel(r) \/ BeginEdit(r) \/ BeginRemove(r)
  <2>1. /\ UNCHANGED campaign /\ \A s \in Requests \ {r} : req'[s] = req[s]
        /\ req'[r].pc \in {"savePause", "failLogs", "saveEdit", "delete"}
        /\ req'[r].pc = "saveEdit" => req'[r].row.status = "DRAFT"
    BY <1>1, <1>4, ZenonT(40) DEF BeginPause, BeginCancel, BeginEdit, BeginRemove, Load, Request
  <2> QED
    BY <1>2, <1>3, <2>1, OneStartKept
<1>5. CASE FailPendingLogs(r) \/ RequestFails(r)
  <2>1. /\ UNCHANGED campaign /\ \A s \in Requests \ {r} : req'[s] = req[s]
        /\ req'[r].pc \in {"saveCancel", "idle"}
    BY <1>1, <1>5 DEF FailPendingLogs, RequestFails, Goto, Respond, IdleRequest, Request
  <2> QED
    BY <1>2, <1>3, <2>1, OneStartKept
<1>6. CASE SavePause(r) \/ SaveCancel(r) \/ SaveEdit(r) \/ DeleteRow(r)
  <2>1. req[r].pc = "saveEdit" => req[r].row.status = "DRAFT"
    BY DEF OneStart
  <2>2. campaign'.status \in {"PAUSED", "FAILED", "DRAFT", "DELETED"}
    BY <1>1, <1>6, <2>1 DEF SavePause, SaveCancel, SaveEdit, DeleteRow, Save, Row, NewRow
  <2>3. (\A s \in Requests \ {r} : req'[s] = req[s]) /\ req'[r].pc = "idle"
    BY <1>1, <1>6 DEF SavePause, SaveCancel, SaveEdit, DeleteRow, Respond, IdleRequest
  <2> QED
    BY <1>2, <1>3, <2>2, <2>3, OneStartKept
<1> QED
  BY <1>4, <1>5, <1>6 DEF NewRequest, RequestStep

\* The worker completes the row only when every log of the one start is settled.
LEMMA WorkerOneStart ==
  ASSUME TypeOK, Bookkeeping, CountsEarned, OneStart, starts <= 1, WorkerStep,
         "db" \notin Faults
  PROVE  OneStart'
<1> USE DEF rowVars, historyVars, boundVars
<1>1. Tallies /\ UNCHANGED req
  BY WorkerTallies DEF Tallies
<1>2. UNCHANGED starts
  BY DEF WorkerStep, TakeJob, CheckCampaign, CheckContact, CheckIdempotency,
     AcquireToken, SendAnswered, SendUnanswered, SendRefused, RecordStatus,
     IncrementCounter, ReadProgress, SaveCompleted, EmitAndReturn, RecordFails,
     DatabaseFails
<1>3. \A l \in Logs :
        /\ log[l].status = "NONE" <=> log'[l].status = "NONE"
        /\ log'[l].status = "PENDING" => log[l].status = "PENDING"
  <2>1. CASE worker.pc = "idle"
    BY <2>1, IdleWorkerTakes DEF TakeJob
  <2>2. CASE worker.pc # "idle"
    BY <1>1, <2>2, WorkerFrame, BusyWorker DEF Frame, Tallies
  <2> QED
    BY <2>1, <2>2
<1>4. Created' = Created
  BY <1>3 DEF Created
<1>5. CASE worker'.pc = "complete"
  <2>1. /\ worker.pc = "progress" /\ UNCHANGED campaign /\ campaign.status = "RUNNING"
        /\ Handled(campaign) >= campaign.total
    BY <1>1, <1>5 DEF Tallies
  <2>2. Cardinality(Created) <= campaign.total /\ IsFiniteSet(Created)
    BY <2>1 DEF OneStart, CountsEarned
  <2>3. Handled(campaign) <= Cardinality(Counted) /\ Counted \subseteq Created
    BY DEF CountsEarned, Counted, Created, Settled
  <2>4. /\ IsFiniteSet(Counted) /\ Cardinality(Counted) \in Nat
        /\ Cardinality(Created) \in Nat
    BY <2>2, <2>3, FS_Subset, FS_CardinalityType
  <2>5. Handled(campaign) \in Nat /\ campaign.total \in Nat
    BY DEF TypeOK, Row, Handled
  <2>6. Cardinality(Created) <= Cardinality(Counted)
    BY <2>1, <2>2, <2>3, <2>4, <2>5
  <2>7. Counted = Created
    BY <2>2, <2>3, <2>4, <2>6, FS_Subset
  <2>8. \A l \in Logs : log[l].status # "PENDING"
    BY <2>7 DEF Created, Counted, Settled
  <2>9. starts = 1 /\ \A s \in Requests : ~Starting(s)
    BY <2>1 DEF OneStart, StartAlone, TypeOK
  <2> QED
    BY <1>1, <1>2, <1>3, <1>4, <2>1, <2>8, <2>9 DEF OneStart, Starting
<1>6. CASE worker'.pc # "complete" /\ worker.pc = "complete" /\ campaign' # campaign
  <2>1. campaign'.status = "COMPLETED"
    BY <1>1, <1>6 DEF Tallies
  <2>2. starts = 1 /\ \A l \in Logs : log[l].status # "PENDING"
    BY <1>6 DEF OneStart
  <2>3. \A s \in Requests : ~Starting(s)
    BY <1>6 DEF OneStart, StartAlone
  <2> QED
    BY <1>1, <1>2, <1>3, <1>4, <1>6, <2>1, <2>2, <2>3 DEF OneStart, Starting
<1>7. CASE worker'.pc # "complete" /\ ~(worker.pc = "complete" /\ campaign' # campaign)
  <2>1. campaign'.status = campaign.status /\ campaign'.total = campaign.total
    BY <1>1, <1>7 DEF Tallies
  <2>2. \A s \in Requests : req'[s].pc = "saveEdit" => req[s].row.status = "DRAFT"
    BY <1>1 DEF OneStart
  <2> QED
    BY <1>1, <1>2, <1>3, <1>7, <2>1, <2>2, OneStartKept
<1> QED
  BY <1>5, <1>6, <1>7

\* Completion is sound in every step without a crash.
LEMMA CompletionStep ==
  ASSUME TypeOK, Bookkeeping, CompletionInv, [Next]_vars, ~Crash, "db" \notin Faults
  PROVE  CompletionInv'
<1>1. CountsEarned /\ CountsEarned' /\ starts \in Nat
  BY CountsEarnedStep DEF CompletionInv, TypeOK
<1>2. SUFFICES ASSUME starts' <= 1 PROVE OneStart'
  BY <1>1 DEF CompletionInv
<1>3. ASSUME NEW r \in Requests, NewRequest(r) \/ RequestStep(r) \/ RequestFails(r)
      PROVE  OneStart'
  <2>1. starts' = starts \/ (BeginStart(r) /\ starts' = starts + 1)
    BY <1>3 DEF NewRequest, BeginStart, BeginPause, BeginCancel, BeginEdit, BeginRemove,
       RequestStep, CheckSession, PickContacts, CreateLog, EnqueueJob, SaveStart,
       SavePause, FailPendingLogs, SaveCancel, SaveEdit, DeleteRow, RequestFails, boundVars
  <2>2. OneStart
    BY <1>1, <1>2, <2>1 DEF CompletionInv
  <2> QED
    BY <1>1, <1>2, <1>3, <2>2, StartStep, OtherRequestStep
<1>4. CASE WorkerStep
  <2>1. UNCHANGED starts
    BY <1>4 DEF WorkerStep, TakeJob, CheckCampaign, CheckContact, CheckIdempotency,
       AcquireToken, SendAnswered, SendUnanswered, SendRefused, RecordStatus,
       IncrementCounter, ReadProgress, SaveCompleted, EmitAndReturn, RecordFails,
       DatabaseFails, boundVars
  <2> QED
    BY <1>1, <1>2, <1>4, <2>1, WorkerOneStart DEF CompletionInv
<1>5. CASE EnvironmentStep \/ UNCHANGED vars
  <2>1. UNCHANGED << campaign, worker, log, req, starts >>
    BY <1>5 DEF EnvironmentStep, BackoffElapses, OptOut, OptIn, vars, rowVars, boundVars
  <2>2. OneStart /\ \A s \in Requests : req[s].pc = "saveEdit" => req[s].row.status = "DRAFT"
    BY <1>1, <1>2, <2>1 DEF CompletionInv, OneStart
  <2> QED
    BY <2>1, <2>2, OneStartKept
<1> QED
  BY <1>3, <1>4, <1>5, StepKinds

\* A campaign that was started once and is COMPLETED has settled every log, whatever
\* pauses, cancels, edits, removals, opt-outs, retries, refusals, lost answers and
\* exhausted caps come between: as long as no crash and no database fault makes the
\* worker count a log a second time.
THEOREM CompletionIsDone ==
  ASSUME MaxCrashes = 0, "db" \notin Faults
  PROVE  Spec => []CompletedIsDone
<1>1. Init => InductiveInv /\ CompletionInv
  <2> SUFFICES ASSUME Init PROVE CompletionInv
    BY InitInductive
  <2>1. Created = {} /\ Counted = {}
    BY DEF Init, Created, Counted, Settled, NoLogRow
  <2>2. IsFiniteSet(Created) /\ Cardinality(Created) = 0 /\ Cardinality(Counted) = 0
    BY <2>1, FS_EmptySet
  <2>3. CountsEarned
    BY <2>2 DEF Init, CountsEarned, Handled, NewRow, IdleWorker, IdleRequest
  <2>4. OneStart
    BY <2>1 DEF Init, OneStart, Starting, NewRow, IdleWorker, IdleRequest
  <2> QED
    BY <2>3, <2>4 DEF CompletionInv
<1>2. InductiveInv /\ CompletionInv /\ [Next]_vars => InductiveInv' /\ CompletionInv'
  <2>1. ASSUME InductiveInv PROVE ~Crash
    BY <2>1 DEF Crash, InductiveInv, TypeOK
  <2> QED
    BY <2>1, InductiveStep, CompletionStep DEF InductiveInv
<1>3. CompletionInv => CompletedIsDone
  BY DEF CompletionInv, OneStart, CompletedIsDone
<1> QED
  BY <1>1, <1>2, <1>3, PTL DEF Spec

(***************************************************************************)
(* No job is abandoned: the safety half of InFlightSettles.                *)
(***************************************************************************)

PastRecord == {"count", "progress", "complete", "emit"}

\* BullMQ is through with the job of l: it hands it out no more.
Ended(l) == job[l].state \in {"completed", "failed"}

\* BullMQ stalls a job only for a crash; an acknowledged log is settled, and so is the
\* worker's once it is recorded; a catch block has but the status FAILED to record.
JobsKept ==
  /\ \A l \in Logs : job[l].stalls <= crashes
  /\ \A l \in Logs : log[l].wa => log[l].status # "PENDING"
  /\ worker.pc \in PastRecord => log[worker.log].status # "PENDING"
  /\ worker.catching => worker.outcome = "FAILED" /\ worker.pc \in PastSend

\* A job ends only with its log settled, or because the campaign is not RUNNING.
EndedInOrder ==
  \A l \in Logs : ~Ended(l) /\ Ended(l)' =>
    log[l].status # "PENDING" \/ campaign.status # "RUNNING"

\* An exception before the log is recorded: the catch block records it, or the job
\* has attempts left and is delayed.
LEMMA ThrowKeepsJob ==
  ASSUME TypeOK, Bookkeeping, JobsKept, NEW cap \in BOOLEAN, Throw(cap),
         \/ worker.pc \in {"token", "send"}
         \/ worker.pc = "record" /\ worker.outcome = "SENT"
  PROVE  /\ worker'.pc \in {"idle", "record"}
         /\ worker'.catching => worker'.outcome = "FAILED" /\ worker'.pc = "record"
         /\ \A k \in Logs : /\ job'[k].stalls = job[k].stalls
                            /\ Ended(k)' => Ended(k)
<1> DEFINE l == worker.log
<1>1. /\ job \in [Logs -> Job] /\ worker \in Worker /\ l \in Logs
      /\ job[l].attempts \in Nat /\ MaxAttempts \in Nat
  BY BusyWorker, AttemptsAssumption DEF TypeOK
<1>2. ~worker.catching
  BY DEF JobsKept, PastSend
<1>3. CASE IsLastAttempt \/ cap
  <2>1. /\ worker' = [worker EXCEPT !.pc = "record", !.outcome = "FAILED",
                                    !.catching = TRUE]
        /\ job' = job
    BY <1>2, <1>3 DEF Throw
  <2> QED
    BY <1>1, <2>1 DEF Worker, Ended
<1>4. CASE ~(IsLastAttempt \/ cap)
  <2>1. RejectJob
    BY <1>2, <1>4 DEF Throw
  <2>2. job[l].attempts + 1 < MaxAttempts
    BY <1>1, <1>4 DEF IsLastAttempt
  <2>3. /\ \A k \in Logs \ {l} : job'[k] = job[k]
        /\ job'[l].state = "delayed" /\ job'[l].stalls = job[l].stalls
    BY <1>1, <2>1, <2>2 DEF RejectJob, Job
  <2>4. worker'.pc = "idle" /\ ~worker'.catching
    BY <2>1 DEF RejectJob, IdleWorker
  <2> QED
    BY <2>3, <2>4 DEF Ended
<1> QED
  BY <1>3, <1>4

\* A step of the worker ends a job in order, if the database does not fail.
LEMMA WorkerKeepsJobs ==
  ASSUME TypeOK, Bookkeeping, JobsKept, WorkerStep, "db" \notin Faults
  PROVE  JobsKept' /\ EndedInOrder
<1> DEFINE l == worker.log
           Quiet == /\ UNCHANGED << crashes, log >>
                    /\ \A k \in Logs : job'[k].stalls = job[k].stalls
<1> USE DEF rowVars, historyVars, boundVars
<1>1. /\ job \in [Logs -> Job] /\ worker \in Worker /\ log \in [Logs -> LogRow]
  BY DEF TypeOK
<1>2. worker.pc # "idle" => l \in Logs /\ log[l].status # "NONE"
  BY BusyWorker
<1>3. ASSUME NEW pc \in WorkerPc, Step(pc)
      PROVE  /\ worker'.pc = pc /\ worker'.log = l
             /\ worker'.outcome = worker.outcome /\ worker'.catching = worker.catching
  BY <1>1, <1>3 DEF Step, Worker
<1>4. ASSUME FinishJob
      PROVE  /\ worker'.pc = "idle" /\ ~worker'.catching
             /\ \A k \in Logs : job'[k].stalls = job[k].stalls
             /\ \A k \in Logs \ {l} : Ended(k)' => Ended(k)
  BY <1>1, <1>4 DEF FinishJob, IdleWorker, Ended, Job
<1>5. ASSUME Quiet, UNCHANGED job, worker'.log = l,
             worker'.pc \in PastRecord => worker.pc \in PastRecord,
             worker'.catching => worker.catching /\ worker'.outcome = worker.outcome
                                 /\ worker'.pc \in PastSend
      PROVE  JobsKept' /\ EndedInOrder
  BY <1>5 DEF JobsKept, EndedInOrder, Ended
<1>6. ASSUME Quiet, FinishJob,
             l \in Logs => log[l].status # "PENDING" \/ campaign.status # "RUNNING"
      PROVE  JobsKept' /\ EndedInOrder
  BY <1>4, <1>6 DEF JobsKept, EndedInOrder, PastRecord
<1>7. ASSUME UNCHANGED << crashes, log >>, NEW cap \in BOOLEAN, Throw(cap),
             \/ worker.pc \in {"token", "send"}
             \/ worker.pc = "record" /\ worker.outcome = "SENT"
      PROVE  JobsKept' /\ EndedInOrder
  BY <1>7, ThrowKeepsJob DEF JobsKept, EndedInOrder, PastRecord, PastSend
<1>8. CASE TakeJob
  <2>1. /\ Quiet /\ worker'.pc = "check" /\ ~worker'.catching
        /\ \A k \in Logs : Ended(k)' => Ended(k)
    BY <1>1, <1>8 DEF TakeJob, IdleWorker, Ended, Job
  <2> QED
    BY <2>1 DEF JobsKept, EndedInOrder, PastRecord
<1>9. CASE CheckCampaign
  <2>1. CASE FinishJob /\ campaign.status # "RUNNING"
    BY <1>4, <1>6, <1>9, <2>1 DEF CheckCampaign
  <2>2. CASE Step("contact") /\ UNCHANGED job
    BY <1>3, <1>5, <1>9, <2>2 DEF CheckCampaign, WorkerPc, PastRecord, JobsKept, PastSend
  <2> QED
    BY <1>9, <2>1, <2>2 DEF CheckCampaign
<1>10. CASE CheckContact
  <2>1. /\ Quiet /\ UNCHANGED job /\ worker'.log = l /\ worker.pc = "contact"
        /\ worker'.pc \in {"record", "idempotency"} /\ worker'.catching = worker.catching
    BY <1>1, <1>10 DEF CheckContact, Worker
  <2> QED
    BY <1>5, <2>1 DEF JobsKept, PastRecord, PastSend
<1>11. CASE CheckIdempotency
  <2>1. CASE log[l].wa /\ FinishJob
    BY <1>4, <1>6, <1>11, <2>1 DEF CheckIdempotency, JobsKept
  <2>2. CASE Step("token") /\ UNCHANGED job
    BY <1>3, <1>5, <1>11, <2>2 DEF CheckIdempotency, WorkerPc, PastRecord, JobsKept, PastSend
  <2> QED
    BY <1>11, <2>1, <2>2 DEF CheckIdempotency
<1>12. CASE AcquireToken
  <2>1. CASE Throw(TRUE)
    BY <1>7, <1>12, <2>1 DEF AcquireToken
  <2>2. CASE Step("send") /\ UNCHANGED job
    BY <1>3, <1>5, <1>12, <2>2 DEF AcquireToken, WorkerPc, PastRecord, JobsKept, PastSend
  <2> QED
    BY <1>12, <2>1, <2>2 DEF AcquireToken
<1>13. CASE SendAnswered
  <2>1. /\ Quiet /\ UNCHANGED job /\ worker'.log = l /\ worker.pc = "send"
        /\ worker'.pc = "record" /\ worker'.catching = worker.catching
    BY <1>1, <1>13 DEF SendAnswered, Worker
  <2> QED
    BY <1>5, <2>1 DEF JobsKept, PastRecord, PastSend
<1>14. CASE SendUnanswered \/ SendRefused \/ RecordFails
  BY <1>7, <1>14 DEF SendUnanswered, SendRefused, RecordFails
<1>15. CASE RecordStatus
  <2>1. /\ UNCHANGED << crashes, job >> /\ worker.pc = "record" /\ worker'.pc = "count"
        /\ worker'.log = l /\ worker'.outcome = worker.outcome
        /\ worker'.catching = worker.catching
    BY <1>3, <1>15 DEF RecordStatus, WorkerPc
  <2>2. worker.outcome \in {"SENT", "FAILED"} /\ l \in Logs
    BY <1>1, <1>2, <2>1 DEF Worker
  <2>3. \A k \in Logs : log'[k] = log[k] \/ log'[k].status # "PENDING"
    BY <1>1, <1>15, <2>2 DEF RecordStatus, LogRow
  <2>4. log'[l].status # "PENDING"
    BY <1>1, <1>15, <2>2 DEF RecordStatus, LogRow
  <2> QED
    BY <2>1, <2>3, <2>4 DEF JobsKept, EndedInOrder, Ended, PastSend
<1>16. CASE IncrementCounter
  <2>1. /\ Quiet /\ UNCHANGED job /\ worker.pc \in PastRecord /\ worker'.log = l
        /\ worker'.pc \in PastSend
        /\ worker'.outcome = worker.outcome /\ worker'.catching = worker.catching
    BY <1>3, <1>16 DEF IncrementCounter, WorkerPc, PastRecord, PastSend
  <2> QED
    BY <1>5, <2>1
<1>17. CASE ReadProgress
  <2>1. /\ Quiet /\ UNCHANGED job /\ worker.pc \in PastRecord /\ worker'.log = l
        /\ worker'.pc \in PastSend
        /\ worker'.outcome = worker.outcome /\ worker'.catching = worker.catching
    BY <1>1, <1>17 DEF ReadProgress, Worker, PastRecord, PastSend
  <2> QED
    BY <1>5, <2>1
<1>18. CASE SaveCompleted
  <2>1. /\ Quiet /\ UNCHANGED job /\ worker.pc \in PastRecord /\ worker'.log = l
        /\ worker'.pc \in PastSend
        /\ worker'.outcome = worker.outcome /\ worker'.catching = worker.catching
    BY <1>3, <1>18 DEF SaveCompleted, WorkerPc, PastRecord, PastSend
  <2> QED
    BY <1>5, <2>1
<1>19. CASE EmitAndReturn
  BY <1>4, <1>6, <1>19 DEF EmitAndReturn, JobsKept, PastRecord
<1>20. ~DatabaseFails
  BY DEF DatabaseFails
<1> QED
  BY <1>8, <1>9, <1>10, <1>11, <1>12, <1>13, <1>14, <1>15, <1>16, <1>17, <1>18, <1>19,
     <1>20 DEF WorkerStep

\* Requests end no job and unsettle no log; a crash stalls the worker's job, which
\* BullMQ queues again.
LEMMA OthersKeepJobs ==
  ASSUME TypeOK, Bookkeeping, JobsKept, MaxCrashes <= MaxStalls,
         \/ \E r \in Requests : NewRequest(r) \/ RequestStep(r) \/ RequestFails(r)
         \/ EnvironmentStep
         \/ UNCHANGED vars
  PROVE  JobsKept' /\ EndedInOrder
<1> USE DEF rowVars, historyVars, boundVars
<1>1. /\ job \in [Logs -> Job] /\ log \in [Logs -> LogRow] /\ worker \in Worker
      /\ crashes \in Nat /\ MaxCrashes \in Nat /\ MaxStalls \in Nat
      /\ \A k \in Logs : job[k].stalls \in Nat
  BY AttemptsAssumption, BoundsAssumption DEF TypeOK, Job
<1>2. ASSUME NEW r \in Requests, NewRequest(r) \/ RequestStep(r) \/ RequestFails(r)
      PROVE  JobsKept' /\ EndedInOrder
  <2>1. UNCHANGED crashes
    BY <1>2 DEF NewRequest, BeginStart, BeginPause, BeginCancel, BeginEdit, BeginRemove,
       RequestStep, CheckSession, PickContacts, CreateLog, EnqueueJob, SaveStart,
       SavePause, FailPendingLogs, SaveCancel, SaveEdit, DeleteRow, RequestFails
  <2>2. UNCHANGED worker
    BY <1>2, RequestFrame
  <2>3. \A k \in Logs : job'[k].stalls = job[k].stalls /\ (Ended(k)' => Ended(k))
    BY <1>2, RequestFrame DEF Ended
  <2>4. ASSUME NEW k \in Logs, log[k].wa \/ log[k].status \notin {"NONE", "PENDING"}
        PROVE  log[k].wa => log'[k].status # "PENDING"
    BY <1>2, <2>4, RequestLogs, RequestFrame DEF JobsKept
  <2>5. \A k \in Logs : log'[k].wa => log'[k].status # "PENDING"
    BY <1>2, <2>4, RequestLogs, RequestFrame DEF JobsKept
  <2>6. worker.pc \in PastRecord => log'[worker.log].status # "PENDING"
    BY <1>2, RequestLogs, BusyWorker DEF JobsKept, PastRecord
  <2> QED
    BY <2>1, <2>2, <2>3, <2>5, <2>6 DEF JobsKept, EndedInOrder
<1>3. CASE Crash
  <2>1. /\ crashes' = crashes + 1 /\ crashes < MaxCrashes /\ UNCHANGED log
        /\ worker'.pc = "idle" /\ ~worker'.catching
    BY <1>3, CrashFrame DEF Crash, IdleWorker
  <2>2. \A k \in Logs : job'[k].stalls <= crashes + 1 /\ (Ended(k)' => Ended(k))
    <3>1. CASE worker.pc = "idle"
      BY <1>1, <1>3, <3>1, CrashFrame DEF JobsKept, Ended
    <3>2. CASE worker.pc # "idle"
      <4>1. worker.log \in Logs /\ job[worker.log].stalls < MaxStalls
        BY <1>1, <2>1, <3>2, BusyWorker DEF JobsKept
      <4>2. /\ job'[worker.log].stalls = job[worker.log].stalls + 1
            /\ job'[worker.log].state = "waiting"
            /\ \A k \in Logs \ {worker.log} : job'[k] = job[k]
        BY <1>3, <3>2, <4>1, CrashFrame
      <4>3. job'[worker.log].stalls <= crashes + 1
        BY <1>1, <4>1, <4>2 DEF JobsKept
      <4>4. ASSUME NEW k \in Logs \ {worker.log}
            PROVE  job'[k].stalls <= crashes + 1
        BY <1>1, <4>2, <4>4 DEF JobsKept
      <4> QED
        BY <4>2, <4>3, <4>4 DEF Ended
    <3> QED
      BY <3>1, <3>2
  <2> QED
    BY <2>1, <2>2 DEF JobsKept, EndedInOrder, PastRecord
<1>4. CASE \E k \in Logs : BackoffElapses(k)
  <2>1. /\ UNCHANGED << crashes, log, worker >>
        /\ \A k \in Logs : job'[k].stalls = job[k].stalls /\ (Ended(k)' => Ended(k))
    BY <1>1, <1>4 DEF BackoffElapses, Ended, Job
  <2> QED
    BY <2>1 DEF JobsKept, EndedInOrder
<1>5. CASE (\E c \in Contacts : OptOut(c) \/ OptIn(c)) \/ UNCHANGED vars
  <2>1. UNCHANGED << crashes, log, worker, job >>
    BY <1>5 DEF OptOut, OptIn, vars
  <2> QED
    BY <2>1 DEF JobsKept, EndedInOrder, Ended
<1> QED
  BY <1>2, <1>3, <1>4, <1>5 DEF EnvironmentStep

\* No job is abandoned: BullMQ drops the job of a PENDING log only when the campaign is
\* not RUNNING, whatever attempts fail, answers are lost, caps are hit and crashes stall
\* it: as long as the database does not fail in the catch block as well, and BullMQ
\* tolerates as many stalls as there are crashes.  It is what InFlightSettles stands on.
THEOREM NoJobIsAbandoned ==
  ASSUME MaxCrashes <= MaxStalls, "db" \notin Faults
  PROVE  Spec => [][EndedInOrder]_vars
<1>1. Init => InductiveInv /\ JobsKept
  BY InitInductive DEF Init, JobsKept, NoLogRow, IdleWorker, PastRecord
<1>2. InductiveInv /\ JobsKept /\ [Next]_vars => InductiveInv' /\ JobsKept' /\ EndedInOrder
  <2> SUFFICES ASSUME InductiveInv, JobsKept, [Next]_vars
               PROVE  InductiveInv' /\ JobsKept' /\ EndedInOrder
    OBVIOUS
  <2>1. TypeOK /\ Bookkeeping /\ InductiveInv'
    BY InductiveStep DEF InductiveInv
  <2> QED
    BY <2>1, WorkerKeepsJobs, OthersKeepJobs, StepKinds
<1>3. [Next]_vars /\ EndedInOrder => [EndedInOrder]_vars
  OBVIOUS
<1> QED
  BY <1>1, <1>2, <1>3, PTL DEF Spec
=============================================================================
