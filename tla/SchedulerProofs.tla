-------------------------- MODULE SchedulerProofs --------------------------
(***************************************************************************)
(* What Scheduler promises for every value of its constants.  A step of    *)
(* the scheduler is a step of Campaigns, writes a status other than        *)
(* RUNNING, or abandons the launcher's start; all three keep the inductive *)
(* invariant of Campaigns, so that its safety properties carry over.       *)
(***************************************************************************)
EXTENDS Scheduler, CampaignsProofs

\* The launcher's start is abandoned: an access of start() threw.
AbandonStart ==
  /\ Respond(Launcher)
  /\ UNCHANGED << rowVars, optedOut, log, job, worker, boundVars, historyVars >>

\* What a step of the scheduler does to the variables of Campaigns.
LEMMA SchedulerStepKinds ==
  ASSUME [SchedulerNext]_schedulerVars
  PROVE  \/ [Next]_vars
         \/ \E status \in {"SCHEDULED", "DRAFT", "FAILED"} : UpdateStatus(status)
         \/ AbandonStart
<1> USE LauncherAssumption
<1>1. ASSUME NEW r \in Users,
             \/ UserStep(r) \/ ScheduleStep(r) \/ ScheduleFails(r)
             \/ RequestSchedule(r) \/ RequestUnschedule(r)
      PROVE  \/ [Next]_vars
             \/ \E status \in {"SCHEDULED", "DRAFT", "FAILED"} : UpdateStatus(status)
  <2>1. r \in Requests
    BY DEF Users
  <2>2. CASE UserStep(r)
    BY <2>1, <2>2 DEF UserStep, Next
  <2>3. CASE ScheduleStep(r)
    BY <2>3 DEF ScheduleStep, GetLaunchJob, RemoveLaunchJob, AddLaunchJob, MarkSchedule
  <2>4. CASE ScheduleFails(r) \/ RequestSchedule(r) \/ RequestUnschedule(r)
    BY <2>4 DEF ScheduleFails, RequestSchedule, RequestUnschedule, BeginSchedule
  <2> QED
    BY <1>1, <2>2, <2>3, <2>4
<1>2. CASE TakeLaunch \/ ReadLaunch \/ CallStart \/ FailLaunch \/ LaunchTime
  BY <1>2 DEF TakeLaunch, ReadLaunch, CallStart, FailLaunch, LaunchTime, Next, NewRequest
<1>3. CASE LaunchStep
  <2>1. CASE \/ CheckSession(Launcher) \/ PickContacts(Launcher)
             \/ CreateLog(Launcher) \/ EnqueueJob(Launcher) \/ SaveStart(Launcher)
    BY <2>1 DEF Next, RequestStep
  <2> QED
    BY <1>3, <2>1 DEF LaunchStep, AbandonStart
<1>4. CASE BackgroundStep \/ SchedulerCrash
  BY <1>4 DEF BackgroundStep, SchedulerCrash, Next
<1>5. CASE UNCHANGED schedulerVars
  BY <1>5 DEF schedulerVars
<1> QED
  BY <1>1, <1>2, <1>3, <1>4, <1>5 DEF SchedulerNext, LauncherStep

\* Whatever row the scheduler's updates hit, the books of Campaigns stay in order.
LEMMA UpdateStatusInductive ==
  ASSUME InductiveInv, NEW status \in {"SCHEDULED", "DRAFT", "FAILED"},
         UpdateStatus(status)
  PROVE  InductiveInv'
<1> USE DEF InductiveInv, historyVars, boundVars
<1>1. /\ UNCHANGED << late, optedOut, log, job, worker, req, starts, crashes,
                      transmitted, lost, afterOptOut >>
      /\ campaign' = IF campaign.status = "DELETED" THEN campaign
                     ELSE [campaign EXCEPT !.status = status]
  BY DEF UpdateStatus
<1>2. campaign \in Row /\ campaign' \in Row /\ campaign'.status # "RUNNING"
  BY <1>1 DEF TypeOK, Row, CampaignStatus
<1>3. TypeOK'
  BY <1>1, <1>2 DEF TypeOK
<1>4. Bookkeeping' /\ CopiesCounted' /\ SendsRecorded' /\ OptOutInv'
  BY <1>1 DEF Bookkeeping, WorkerBusy, JobsWellFormed, EnqueuesFresh, Created,
     CopiesCounted, SendsRecorded, Window, OptOutInv, One
<1>5. LateInv'
  BY <1>1, <1>2 DEF LateInv, One, TypeOK
<1> QED
  BY <1>3, <1>4, <1>5

LEMMA AbandonInductive ==
  ASSUME InductiveInv, AbandonStart
  PROVE  InductiveInv'
<1> USE DEF InductiveInv, historyVars, boundVars, rowVars
<1>1. /\ UNCHANGED << campaign, late, optedOut, log, job, worker, starts, crashes,
                      transmitted, lost, afterOptOut >>
      /\ req' = [req EXCEPT ![Launcher] = IdleRequest]
  BY DEF AbandonStart, Respond
<1>2. IdleRequest \in Request /\ IdleRequest.pc = "idle"
  BY DEF IdleRequest, Request, RequestPc, NewRow, Row, CampaignStatus
<1>3. TypeOK'
  BY <1>1, <1>2 DEF TypeOK
<1>4. EnqueuesFresh'
  BY <1>1, <1>2 DEF Bookkeeping, EnqueuesFresh, Created, TypeOK
<1>5. /\ WorkerBusy' /\ JobsWellFormed' /\ CopiesCounted' /\ SendsRecorded'
      /\ LateInv' /\ OptOutInv'
  BY <1>1 DEF Bookkeeping, WorkerBusy, JobsWellFormed,
     CopiesCounted, SendsRecorded, Window, LateInv, OptOutInv, One
<1> QED
  BY <1>3, <1>4, <1>5 DEF Bookkeeping

(***************************************************************************)
(* The scheduler's own variables.                                          *)
(***************************************************************************)

\* What the run of the scheduler checks, and all that its proof needs.
SchedulerInv == InductiveInv /\ SchedulerTypeOK /\ SchedulerBookkeeping

LEMMA InitSchedulerInv == SchedulerInit => SchedulerInv
<1> SUFFICES ASSUME SchedulerInit PROVE SchedulerInv
  OBVIOUS
<1>1. InductiveInv
  BY InitInductive DEF SchedulerInit
<1>2. IdleSchedule \in ScheduleRequest /\ NoLaunch \in LaunchJob
  BY DEF IdleSchedule, ScheduleRequest, SchedulePc, LaunchJob
<1>3. SchedulerTypeOK
  <2>1. TypeOK
    BY <1>1 DEF InductiveInv
  <2>2. schedule \in [Requests -> ScheduleRequest] /\ schedules \in 0..MaxSchedules
    BY <1>2, SchedulesAssumption DEF SchedulerInit
  <2> QED
    BY <1>2, <2>1, <2>2 DEF SchedulerInit, SchedulerTypeOK, LauncherPc
<1>4. /\ NoLaunch.state = "none" /\ NoLaunch.stalls = 0 /\ IdleRequest.pc = "idle"
      /\ IdleSchedule.pc = "idle"
  BY DEF NoLaunch, IdleRequest, IdleSchedule
<1>5. SchedulerBookkeeping
  BY <1>4, LauncherAssumption, AttemptsAssumption DEF SchedulerInit, SchedulerBookkeeping, Init
<1> QED
  BY <1>1, <1>3, <1>5 DEF SchedulerInv

\* A launch job that waits or has been taken has a time and few stalls.
LEMMA LaunchTypes ==
  ASSUME launch \in LaunchJob, launch.state # "none"
  PROVE  /\ launch.time \in Times /\ launch.stalls \in 0..(MaxStalls + 1)
         /\ \A state \in {"waiting", "active", "failed"} :
              LET after == [launch EXCEPT !.state = state] IN
              after \in LaunchJob /\ after.state = state /\ after.stalls = launch.stalls
BY DEF LaunchJob, NoLaunch

\* The launcher at work has an active job.
LEMMA BusyLauncher ==
  ASSUME SchedulerInv, launcher # "idle"
  PROVE  launch \in LaunchJob /\ launch.state = "active"
BY DEF SchedulerInv, SchedulerTypeOK, SchedulerBookkeeping

\* A crash leaves a launch job that is not active.
LEMMA CrashedLaunch ==
  ASSUME SchedulerInv, SchedulerCrash
  PROVE  /\ launch' \in LaunchJob /\ launch'.state # "active"
         /\ launch'.state # "failed" => launch'.stalls <= MaxStalls
<1>1. launch \in LaunchJob
  BY DEF SchedulerInv, SchedulerTypeOK
<1>2. CASE launch.state # "active"
  BY <1>1, <1>2 DEF SchedulerCrash, SchedulerInv, SchedulerBookkeeping
<1>3. CASE launch.state = "active"
  <2>1. launch.stalls \in 0..MaxStalls /\ launch.stalls + 1 \in 0..(MaxStalls + 1)
    BY <1>1, <1>3, AttemptsAssumption
    DEF LaunchJob, NoLaunch, SchedulerInv, SchedulerBookkeeping
  <2>2. launch.time \in Times
    BY <1>1, <1>3 DEF LaunchJob, NoLaunch
  <2> QED
    BY <1>3, <2>1, <2>2, AttemptsAssumption DEF SchedulerCrash, LaunchJob
<1> QED
  BY <1>2, <1>3

\* The scheduler's own variables keep their types.
LEMMA SchedulerTypes ==
  ASSUME SchedulerInv, [SchedulerNext]_schedulerVars, TypeOK'
  PROVE  SchedulerTypeOK'
<1> USE DEF SchedulerTypeOK, SchedulerInv, launchVars
<1>1. /\ NoLaunch \in LaunchJob /\ IdleSchedule \in ScheduleRequest
      /\ \A r \in Requests : /\ schedule[r] \in ScheduleRequest
                             /\ schedule[r].time \in Times \cup {Null}
                             /\ \A pc \in SchedulePc :
                                  [schedule[r] EXCEPT !.pc = pc] \in ScheduleRequest
  BY DEF NoLaunch, LaunchJob, IdleSchedule, ScheduleRequest, SchedulePc
<1>2. ASSUME NEW r \in Users, NEW pc \in SchedulePc, NEW time \in Times \cup {Null},
             BeginSchedule(r, pc, time)
      PROVE  SchedulerTypeOK'
  <2>1. [pc |-> pc, time |-> time] \in ScheduleRequest /\ r \in Requests
    BY DEF ScheduleRequest, Users
  <2> QED
    BY <1>2, <2>1, SchedulesAssumption DEF BeginSchedule
<1>3. ASSUME NEW r \in Users,
             \/ UserStep(r) \/ ScheduleStep(r) \/ ScheduleFails(r)
             \/ RequestSchedule(r) \/ RequestUnschedule(r)
      PROVE  SchedulerTypeOK'
  <2>1. r \in Requests
    BY DEF Users
  <2>2. CASE RequestSchedule(r) \/ RequestUnschedule(r)
    BY <1>2, <2>2 DEF RequestSchedule, RequestUnschedule, SchedulePc
  <2>3. CASE UserStep(r) \/ ScheduleFails(r)
    BY <1>1, <2>1, <2>3 DEF UserStep, ScheduleFails
  <2>4. CASE GetLaunchJob(r)
    BY <1>1, <2>1, <2>4 DEF GetLaunchJob, ScheduleGoto, AfterRemoval, SchedulePc
  <2>5. CASE RemoveLaunchJob(r)
    BY <1>1, <2>1, <2>5 DEF RemoveLaunchJob, ScheduleGoto, AfterRemoval, SchedulePc
  <2>6. CASE MarkSchedule(r)
    BY <1>1, <2>1, <2>6 DEF MarkSchedule
  <2>7. CASE AddLaunchJob(r)
    <3> DEFINE added == [state |-> "delayed", time |-> schedule[r].time, stalls |-> 0]
    <3>1. schedule[r].time \in Times
      BY <1>1, <2>1, <2>7 DEF AddLaunchJob, SchedulerBookkeeping
    <3>3. added \in LaunchJob
      BY <3>1, AttemptsAssumption DEF LaunchJob
    <3>4. launch' \in LaunchJob
      BY <2>7, <3>3 DEF AddLaunchJob
    <3>5. schedule' \in [Requests -> ScheduleRequest]
      BY <1>1, <2>1, <2>7 DEF AddLaunchJob, ScheduleGoto, SchedulePc
    <3> QED
      BY <2>7, <3>4, <3>5 DEF AddLaunchJob
  <2> QED
    BY <1>3, <2>2, <2>3, <2>4, <2>5, <2>6, <2>7 DEF ScheduleStep
<1>4. CASE LaunchTime \/ TakeLaunch
  BY <1>4, LaunchTypes DEF LaunchTime, TakeLaunch, LauncherPc
<1>5. CASE ReadLaunch \/ FailLaunch
  BY <1>1, <1>5, LaunchTypes, BusyLauncher
  DEF ReadLaunch, FailLaunch, FinishLaunch, RejectLaunch, LauncherPc
<1>6. CASE CallStart
  BY <1>6 DEF CallStart, LauncherPc
<1>7. CASE LaunchStep
  BY <1>1, <1>7 DEF LaunchStep, FinishLaunch, LauncherPc
<1>8. CASE BackgroundStep
  BY <1>8 DEF BackgroundStep
<1>9. CASE SchedulerCrash
  <2>1. launch' \in LaunchJob
    BY <1>9, CrashedLaunch DEF SchedulerCrash
  <2>2. schedule' \in [Requests -> ScheduleRequest]
    BY <1>1, <1>9 DEF SchedulerCrash
  <2> QED
    BY <1>9, <2>1, <2>2 DEF SchedulerCrash, LauncherPc
<1>10. CASE UNCHANGED schedulerVars
  BY <1>10 DEF schedulerVars
<1> QED
  BY <1>3, <1>4, <1>5, <1>6, <1>7, <1>8, <1>9, <1>10 DEF SchedulerNext, LauncherStep

\* The launcher and its job stay in step, and no request forgets what it is for.
LEMMA BookkeepingStep ==
  ASSUME SchedulerInv, [SchedulerNext]_schedulerVars
  PROVE  SchedulerBookkeeping'
<1> USE LauncherAssumption DEF SchedulerBookkeeping, SchedulerInv, launchVars
<1>1. /\ req \in [Requests -> Request] /\ schedule \in [Requests -> ScheduleRequest]
      /\ launch \in LaunchJob
      /\ NoLaunch.state = "none" /\ NoLaunch.stalls <= MaxStalls /\ IdleSchedule.pc = "idle" /\ IdleRequest.pc = "idle"
  BY AttemptsAssumption DEF SchedulerTypeOK, TypeOK, NoLaunch, IdleSchedule, IdleRequest
<1>2. ASSUME NEW r \in Users, UserStep(r) PROVE SchedulerBookkeeping'
  <2>1. req'[Launcher] = req[Launcher]
    BY <1>1, <1>2 DEF Users, UserStep, NewRequest, RequestStep, RequestFails, Load,
       Goto, Respond, BeginStart, BeginPause, BeginCancel, BeginEdit, BeginRemove,
       CheckSession, PickContacts, CreateLog, EnqueueJob, SaveStart, SavePause,
       FailPendingLogs, SaveCancel, SaveEdit, DeleteRow
  <2> QED
    BY <1>2, <2>1 DEF UserStep
<1>3. ASSUME NEW r \in Users,
             \/ ScheduleStep(r) \/ ScheduleFails(r)
             \/ RequestSchedule(r) \/ RequestUnschedule(r)
      PROVE  SchedulerBookkeeping'
  <2>1. r \in Requests /\ schedule[r] \in ScheduleRequest
    BY <1>1 DEF Users
  <2>2. CASE RequestSchedule(r) \/ RequestUnschedule(r)
    BY <1>1, <2>1, <2>2, TimesAssumption
    DEF RequestSchedule, RequestUnschedule, BeginSchedule, vars
  <2>3. CASE ScheduleFails(r)
    BY <1>1, <2>1, <2>3 DEF ScheduleFails, vars
  <2>4. CASE GetLaunchJob(r)
    BY <1>1, <2>1, <2>4 DEF GetLaunchJob, ScheduleGoto, AfterRemoval, ScheduleRequest, vars
  <2>5. CASE RemoveLaunchJob(r)
    BY <1>1, <2>1, <2>5 DEF RemoveLaunchJob, ScheduleGoto, AfterRemoval, ScheduleRequest, vars
  <2>6. CASE MarkSchedule(r)
    BY <1>1, <2>1, <2>6 DEF MarkSchedule, UpdateStatus
  <2>7. CASE AddLaunchJob(r)
    <3>1. /\ launch'.state = "active" <=> launch.state = "active"
          /\ launch'.state # "failed" => launch'.stalls <= MaxStalls
      BY <2>7, AttemptsAssumption DEF AddLaunchJob
    <3> QED
      BY <1>1, <2>1, <2>7, <3>1 DEF AddLaunchJob, ScheduleGoto, ScheduleRequest, vars
  <2> QED
    BY <1>3, <2>2, <2>3, <2>4, <2>5, <2>6, <2>7 DEF ScheduleStep
<1>4. CASE LaunchTime \/ TakeLaunch
  <2>1. UNCHANGED << req, schedule >> /\ launch.state # "none" /\ launch.state # "failed"
    BY <1>1, <1>4 DEF LaunchTime, TakeLaunch, vars
  <2>2. \/ /\ launch.state = "delayed" /\ UNCHANGED launcher
           /\ launch' = [launch EXCEPT !.state = "waiting"]
        \/ /\ launch.state = "waiting" /\ launcher' = "read"
           /\ launch' = [launch EXCEPT !.state = "active"]
    BY <1>4 DEF LaunchTime, TakeLaunch
  <2>3. launch'.stalls = launch.stalls
    BY <1>1, <2>1, <2>2, LaunchTypes
  <2>4. launch'.state = "active" <=> launcher' # "idle"
    BY <1>1, <2>1, <2>2, LaunchTypes
  <2>5. req[Launcher].pc # "idle" => launcher' = "starting"
    BY <1>4 DEF LaunchTime, TakeLaunch
  <2> QED
    BY <2>1, <2>3, <2>4, <2>5
<1>5. CASE ReadLaunch \/ FailLaunch
  <2>1. UNCHANGED << req, schedule >> /\ launcher \in {"read", "fail"}
    BY <1>5 DEF ReadLaunch, FailLaunch, UpdateStatus, vars
  <2>2. \/ launcher' = "start" /\ UNCHANGED launch
        \/ launcher' = "idle" /\ launch' = NoLaunch
        \/ launcher' = "idle" /\ launch' = [launch EXCEPT !.state = "failed"]
    BY <1>5 DEF ReadLaunch, FailLaunch, FinishLaunch, RejectLaunch
  <2>3. launch.state = "active"
    BY <2>1, BusyLauncher
  <2>4. /\ launch'.state = "active" <=> launcher' # "idle"
        /\ launch'.state # "failed" => launch'.stalls <= MaxStalls
    BY <1>1, <2>2, <2>3, LaunchTypes
  <2>5. req[Launcher].pc = "idle"
    BY <2>1
  <2> QED
    BY <2>1, <2>4, <2>5
<1>6. CASE CallStart
  BY <1>6 DEF CallStart, vars
<1>7. CASE LaunchStep
  BY <1>1, <1>7 DEF LaunchStep, FinishLaunch, SaveStart, Respond
<1>8. CASE BackgroundStep
  BY <1>8 DEF BackgroundStep, WorkerStep, TakeJob, CheckCampaign, CheckContact,
     CheckIdempotency, AcquireToken, SendAnswered, SendUnanswered, SendRefused,
     RecordStatus, IncrementCounter, ReadProgress, SaveCompleted, EmitAndReturn,
     RecordFails, DatabaseFails, BackoffElapses, OptOut, OptIn
<1>9. CASE SchedulerCrash
  BY <1>1, <1>9, CrashedLaunch DEF SchedulerCrash, Crash
<1>10. CASE UNCHANGED schedulerVars
  BY <1>10 DEF schedulerVars, vars
<1> QED
  BY <1>2, <1>3, <1>4, <1>5, <1>6, <1>7, <1>8, <1>9, <1>10 DEF SchedulerNext, LauncherStep

(***************************************************************************)
(* The theorems.                                                           *)
(***************************************************************************)

\* The books of campaigns and of the scheduler, in every reachable state.
THEOREM SchedulerInvariance == SchedulerSpec => []SchedulerInv
<1>1. ASSUME SchedulerInv, [SchedulerNext]_schedulerVars PROVE SchedulerInv'
  <2>1. InductiveInv'
    BY <1>1, SchedulerStepKinds, InductiveStep, UpdateStatusInductive, AbandonInductive
    DEF SchedulerInv
  <2>2. SchedulerTypeOK'
    BY <1>1, <2>1, SchedulerTypes DEF InductiveInv
  <2> QED
    BY <1>1, <2>1, <2>2, BookkeepingStep DEF SchedulerInv
<1> QED
  BY <1>1, InitSchedulerInv, PTL DEF SchedulerSpec

\* Every variable of campaigns and of the scheduler keeps its type.
THEOREM SchedulerTypeInvariance == SchedulerSpec => []SchedulerTypeOK
  BY SchedulerInvariance, PTL DEF SchedulerInv

\* The launch worker and its job stay in step.
THEOREM SchedulerBooksKept == SchedulerSpec => []SchedulerBookkeeping
  BY SchedulerInvariance, PTL DEF SchedulerInv

\* Scheduling changes nothing in what a stopped campaign and an opted-out
\* contact may still send, whoever starts, reschedules and unschedules it.
THEOREM ScheduledSafely == SchedulerSpec => [](AtMostOneLate /\ AtMostOneAfterOptOut)
<1>1. SchedulerInv => AtMostOneLate /\ AtMostOneAfterOptOut
  BY DEF SchedulerInv, InductiveInv, TypeOK, LateInv, OptOutInv, One,
         AtMostOneLate, AtMostOneAfterOptOut
<1> QED
  BY <1>1, SchedulerInvariance, PTL

(***************************************************************************)
(* The promise of the campaign.                                            *)
(***************************************************************************)

\* A step of the scheduler is one of the promise or none, whoever starts, reschedules
\* and unschedules the campaign: its updates of the row only start or stop it.
LEMMA SchedulerStepKeepsPromise ==
  ASSUME SchedulerInv, [SchedulerNext]_schedulerVars
  PROVE  [Promise!OutboxNext]_(Promise!outboxVars)
<1>1. ASSUME UNCHANGED << optedOut, log, worker, transmitted, lost >>
      PROVE  /\ UNCHANGED Promise!copyVars
             /\ UNCHANGED << WorkedOnAt(PastCheck), WorkedOnAt(PastContact) >>
             /\ [l \in Logs |-> log[l].contact]' = [l \in Logs |-> log[l].contact]
  BY <1>1, CopiesKept DEF WorkedOnAt, Window
<1>2. ASSUME NEW status \in {"SCHEDULED", "DRAFT", "FAILED"}, UpdateStatus(status)
      PROVE  Promise!StartOrStop
  <2>1. UNCHANGED << optedOut, log, worker, transmitted, lost >>
    BY <1>2 DEF UpdateStatus, historyVars
  <2>2. (campaign.status = "RUNNING")' \in BOOLEAN
    OBVIOUS
  <2> QED
    BY <1>1, <2>1, <2>2 DEF Promise!StartOrStop
<1>3. CASE AbandonStart
  <2>1. UNCHANGED << campaign, optedOut, log, worker, transmitted, lost >>
    BY <1>3 DEF AbandonStart, rowVars, historyVars
  <2> QED
    BY <1>1, <2>1, PeopleKept DEF Promise!outboxVars
<1> QED
  BY <1>2, <1>3, SchedulerStepKinds, StepKeepsPromise DEF SchedulerInv, Promise!OutboxNext

\* A scheduled campaign keeps the promise of any other.
THEOREM ScheduledKeepsPromise == SchedulerSpec => KeepsPromise
<1>1. SchedulerInit => Promise!OutboxInit
  BY StartsAsPromised DEF SchedulerInit
<1> QED
  BY <1>1, SchedulerStepKeepsPromise, SchedulerInvariance, PTL
  DEF SchedulerSpec, KeepsPromise, Promise!OutboxSpec

(***************************************************************************)
(* Users that make one request at a time.                                  *)
(***************************************************************************)

\* What a user's request of Campaigns does to the row: an edit takes a copy of a
\* draft and writes it back; every other save writes a status of its own.
LEMMA UserMoves ==
  ASSUME SchedulerInv, NEW r \in Users, UserStep(r)
  PROVE  /\ \A s \in Users : s # r => req'[s] = req[s]
         /\ \/ /\ campaign.status = "DRAFT" /\ campaign' = campaign
               /\ req'[r].pc = "saveEdit" /\ req'[r].row = campaign
            \/ /\ req[r].pc = "saveEdit" /\ campaign' = req[r].row
               /\ req'[r].pc # "saveEdit"
            \/ /\ req'[r].pc # "saveEdit"
               /\ \/ campaign' = campaign
                  \/ campaign'.status \notin {"DRAFT", "SCHEDULED"}
<1>1. /\ req \in [Requests -> Request] /\ campaign \in Row /\ r \in Requests
      /\ \A s \in Users : s \in Requests
      /\ req[r] \in Request /\ req[r].row \in Row
  BY DEF SchedulerInv, SchedulerTypeOK, TypeOK, Users, Request
<1>2. IdleRequest.pc = "idle"
  BY DEF IdleRequest
<1>3. CASE BeginEdit(r)
  BY <1>1, <1>3 DEF BeginEdit, Load, Request, rowVars
<1>4. CASE SaveEdit(r)
  BY <1>1, <1>2, <1>4 DEF SaveEdit, Save, Respond
<1>5. CASE BeginStart(r) \/ BeginPause(r) \/ BeginCancel(r) \/ BeginRemove(r)
  <2>1. UNCHANGED campaign
    BY <1>5 DEF BeginStart, BeginPause, BeginCancel, BeginRemove, rowVars
  <2>2. \E pc \in {"session", "savePause", "failLogs", "delete"} :
          req' = [req EXCEPT ![r] = [req[r] EXCEPT !.pc = pc, !.row = campaign]]
    BY <1>5 DEF BeginStart, BeginPause, BeginCancel, BeginRemove, Load
  <2>3. PICK pc \in {"session", "savePause", "failLogs", "delete"} :
          req' = [req EXCEPT ![r] = [req[r] EXCEPT !.pc = pc, !.row = campaign]]
    BY <2>2
  <2>4. req'[r].pc # "saveEdit" /\ \A s \in Users : s # r => req'[s] = req[s]
    BY <1>1, <2>3 DEF Request
  <2> QED
    BY <2>1, <2>4
<1>6. CASE \/ CheckSession(r) \/ PickContacts(r) \/ CreateLog(r) \/ EnqueueJob(r)
           \/ FailPendingLogs(r) \/ RequestFails(r)
  <2>1. campaign' = campaign
    BY <1>6 DEF CheckSession, PickContacts, CreateLog, EnqueueJob, FailPendingLogs,
       RequestFails, rowVars
  <2>2. CASE CheckSession(r) \/ EnqueueJob(r) \/ FailPendingLogs(r) \/ RequestFails(r)
    BY <1>1, <1>2, <2>1, <2>2 DEF CheckSession, EnqueueJob, FailPendingLogs, RequestFails,
       Goto, Respond, Request
  <2>3. CASE PickContacts(r)
    <3> DEFINE q == [req[r] EXCEPT !.pc = "loop", !.todo = {c \in Contacts : ~optedOut[c]},
                                   !.row.total = Cardinality({c \in Contacts : ~optedOut[c]})]
    <3>1. q.pc = "loop"
      BY <1>1 DEF Request
    <3>2. req' = [req EXCEPT ![r] = q] \/ req' = [req EXCEPT ![r] = IdleRequest]
      BY <2>3 DEF PickContacts, Respond
    <3> HIDE DEF q
    <3> QED
      BY <1>1, <1>2, <2>1, <3>1, <3>2
  <2>4. CASE CreateLog(r)
    <3>1. CASE Respond(r)
      BY <1>1, <1>2, <2>1, <3>1 DEF Respond
    <3>2. CASE \E c \in req[r].todo, l \in Logs \ Created :
                 req' = [req EXCEPT ![r] = [@ EXCEPT
                   !.pc = "enqueue", !.todo = req[r].todo \ {c}, !.log = l]]
      <4>1. PICK c \in req[r].todo, l \in Logs \ Created :
              req' = [req EXCEPT ![r] = [req[r] EXCEPT
                !.pc = "enqueue", !.todo = req[r].todo \ {c}, !.log = l]]
        BY <3>2
      <4> QED
        BY <1>1, <2>1, <4>1 DEF Request
    <3> QED
      BY <2>4, <3>1, <3>2 DEF CreateLog
  <2> QED
    BY <1>6, <2>2, <2>3, <2>4
<1>7. CASE SaveStart(r) \/ SavePause(r) \/ SaveCancel(r)
  BY <1>1, <1>2, <1>7 DEF SaveStart, SavePause, SaveCancel, Save, Respond, Row
<1>8. CASE DeleteRow(r)
  BY <1>1, <1>2, <1>8 DEF DeleteRow, Respond, NewRow
<1> QED
  BY <1>3, <1>4, <1>5, <1>6, <1>7, <1>8 DEF UserStep, NewRequest, RequestStep

\* The launcher, the campaign's worker and the contacts leave the users' requests
\* alone and neither schedule a campaign nor make it a draft.
LEMMA OtherMoves ==
  ASSUME SchedulerInv, LauncherStep \/ LaunchTime \/ BackgroundStep
  PROVE  /\ \A s \in Users : req'[s] = req[s]
         /\ UNCHANGED << schedule, scheduledAt >>
         /\ \/ campaign'.status = campaign.status
            \/ campaign'.status \notin {"DRAFT", "SCHEDULED"}
<1> USE LauncherAssumption DEF launchVars, rowVars, vars
<1>1. /\ req \in [Requests -> Request] /\ campaign \in Row /\ worker.row \in Row
      /\ \A s \in Users : s \in Requests /\ s # Launcher
      /\ req[Launcher] \in Request /\ req[Launcher].row \in Row
  BY DEF SchedulerInv, SchedulerTypeOK, TypeOK, Users, Request, Worker
<1>2. CASE TakeLaunch \/ ReadLaunch \/ LaunchTime
  BY <1>2 DEF TakeLaunch, ReadLaunch, LaunchTime
<1>3. CASE CallStart
  BY <1>1, <1>3 DEF CallStart, BeginStart, Load
<1>4. CASE LaunchStep
  <2>1. CASE \/ CheckSession(Launcher) \/ PickContacts(Launcher)
             \/ CreateLog(Launcher) \/ EnqueueJob(Launcher)
    BY <1>1, <1>4, <2>1 DEF LaunchStep, CheckSession, PickContacts, CreateLog, EnqueueJob,
       Goto, Respond
  <2>2. CASE SaveStart(Launcher)
    BY <1>1, <1>4, <2>2 DEF LaunchStep, SaveStart, Save, Respond, Row
  <2> QED
    BY <1>1, <1>4, <2>1, <2>2 DEF LaunchStep, Respond
<1>5. CASE FailLaunch
  BY <1>1, <1>5 DEF FailLaunch, UpdateStatus, Row
<1>6. CASE BackgroundStep
  <2>1. CASE IncrementCounter
    BY <1>1, <1>6, <2>1 DEF BackgroundStep, IncrementCounter, Row
  <2>2. CASE SaveCompleted
    BY <1>1, <1>6, <2>2 DEF BackgroundStep, SaveCompleted, Save, Row
  <2>3. CASE \/ TakeJob \/ CheckCampaign \/ CheckContact \/ CheckIdempotency \/ AcquireToken
             \/ SendAnswered \/ SendUnanswered \/ SendRefused \/ RecordStatus
             \/ ReadProgress \/ EmitAndReturn \/ RecordFails \/ DatabaseFails
             \/ (\E l \in Logs : BackoffElapses(l))
             \/ (\E c \in Contacts : OptOut(c) \/ OptIn(c))
    BY <1>6, <2>3 DEF BackgroundStep, TakeJob, CheckCampaign, CheckContact,
       CheckIdempotency, AcquireToken, SendAnswered, SendUnanswered, SendRefused, RecordStatus,
       ReadProgress, EmitAndReturn, RecordFails, DatabaseFails, BackoffElapses, OptOut, OptIn
  <2> QED
    BY <1>6, <2>1, <2>2, <2>3 DEF BackgroundStep, WorkerStep
<1> QED
  BY <1>2, <1>3, <1>4, <1>5, <1>6 DEF LauncherStep

\* No request, no job: the invariant begins to hold.
LEMMA InitPunctual == SchedulerInit => PunctualInv
<1> SUFFICES ASSUME SchedulerInit PROVE PunctualInv
  OBVIOUS
<1>1. /\ \A r \in Users : req[r].pc = "idle" /\ schedule[r].pc = "idle"
      /\ launch.state = "none" /\ launcher = "idle"
  BY DEF SchedulerInit, Init, IdleRequest, IdleSchedule, NoLaunch, Users
<1> QED
  <2>1. OneThingAtATime /\ FoundScheduled
    BY <1>1 DEF OneThingAtATime, FoundScheduled
  <2>2. RowAndJobAgree
    BY <1>1 DEF RowAndJobAgree, JobPending
  <2> QED
    BY <2>1, <2>2 DEF PunctualInv

\* A user's request of Campaigns keeps it.
LEMMA PunctualUser ==
  ASSUME SchedulerInv, PunctualInv, \A r, s \in Users : r = s,
         NEW r \in Users, UserStep(r)
  PROVE  PunctualInv'
<1> USE DEF PunctualInv, JobPending
<1>1. /\ schedule[r].pc = "idle" /\ campaign \in Row
      /\ UNCHANGED << scheduledAt, launch, launcher, schedule, schedules, cut >>
  BY DEF UserStep, launchVars, SchedulerInv, SchedulerTypeOK, TypeOK
<1>2. \/ /\ campaign.status = "DRAFT" /\ campaign' = campaign
         /\ req'[r].pc = "saveEdit" /\ req'[r].row = campaign
      \/ /\ req[r].pc = "saveEdit" /\ campaign' = req[r].row
         /\ req'[r].pc # "saveEdit"
      \/ /\ req'[r].pc # "saveEdit"
         /\ \/ campaign' = campaign
            \/ campaign'.status \notin {"DRAFT", "SCHEDULED"}
  BY UserMoves
<1>3. \A s \in Users : s = r
  OBVIOUS
<1>4. OneThingAtATime'
  BY <1>1, <1>2, <1>3 DEF OneThingAtATime
<1>5. FoundScheduled'
  BY <1>1, <1>2, <1>3 DEF FoundScheduled, OneThingAtATime
<1>6. RowAndJobAgree'
  <2>1. SUFFICES ASSUME ~cut
                 PROVE  /\ campaign'.status = "SCHEDULED" /\ JobPending => launch.time = scheduledAt
                        /\ campaign'.status = "DRAFT" \/ req'[r].pc = "saveEdit" => launch.state = "none"
    BY <1>1, <1>3 DEF RowAndJobAgree
  <2>2. /\ campaign.status = "SCHEDULED" /\ JobPending => launch.time = scheduledAt
        /\ campaign.status = "DRAFT" \/ req[r].pc = "saveEdit" => launch.state = "none"
    BY <1>1, <2>1 DEF RowAndJobAgree
  <2> QED
    BY <1>2, <2>2 DEF OneThingAtATime
<1> QED
  BY <1>4, <1>5, <1>6

\* So do the steps of scheduling and unscheduling.
LEMMA PunctualSchedule ==
  ASSUME SchedulerInv, PunctualInv, \A r, s \in Users : r = s,
         NEW r \in Users,
         \/ ScheduleStep(r) \/ ScheduleFails(r)
         \/ RequestSchedule(r) \/ RequestUnschedule(r)
  PROVE  PunctualInv'
<1> USE TimesAssumption DEF vars
<1>1. /\ schedule \in [Requests -> ScheduleRequest] /\ r \in Requests /\ campaign \in Row
      /\ schedule[r] \in ScheduleRequest
  BY DEF SchedulerInv, SchedulerTypeOK, TypeOK, Users
<1>2. /\ NoLaunch.state = "none" /\ IdleSchedule.pc = "idle"
      /\ launch.state = "active" <=> launcher # "idle"
      /\ schedule[r].pc \in {"add", "mark"} => schedule[r].time # Null
      /\ schedule[r].pc = "unmark" => schedule[r].time = Null
  BY <1>1 DEF NoLaunch, IdleSchedule, SchedulerInv, SchedulerBookkeeping
<1> USE DEF PunctualInv, OneThingAtATime, FoundScheduled, RowAndJobAgree, JobPending
<1>3. CASE ScheduleFails(r)
  BY <1>1, <1>2, <1>3 DEF ScheduleFails
<1>4. CASE RequestSchedule(r) \/ RequestUnschedule(r)
  <2>1. ASSUME NEW pc, NEW time, BeginSchedule(r, pc, time),
               \/ pc = "add" /\ campaign.status = "DRAFT"
               \/ pc = "get" /\ campaign.status = "SCHEDULED"
        PROVE  PunctualInv'
    <3>1. /\ req[r].pc = "idle" /\ schedule[r].pc = "idle" /\ schedule'[r].pc = pc
          /\ UNCHANGED << vars, scheduledAt, launch, launcher, cut >>
      BY <1>1, <2>1 DEF BeginSchedule
    <3> QED
      BY <2>1, <3>1
  <2> QED
    BY <1>4, <2>1 DEF RequestSchedule, RequestUnschedule
<1>5. CASE GetLaunchJob(r)
  <2>1. /\ UNCHANGED << vars, scheduledAt, launch, launcher, cut >>
        /\ schedule[r].pc = "get" /\ schedule'[r].time = schedule[r].time
        /\ \/ schedule'[r].pc = "remove"
           \/ schedule'[r].pc \in {"add", "unmark"} /\ launch.state = "none"
    BY <1>1, <1>5 DEF GetLaunchJob, ScheduleGoto, AfterRemoval, ScheduleRequest
  <2> QED
    BY <2>1
<1>6. CASE RemoveLaunchJob(r)
  <2>1. /\ UNCHANGED << vars, scheduledAt, launcher, cut >>
        /\ schedule[r].pc = "remove"
        /\ \/ schedule'[r].pc = "idle" /\ launch' = launch
           \/ schedule'[r].pc \in {"add", "unmark"} /\ launch'.state = "none"
    BY <1>1, <1>2, <1>6 DEF RemoveLaunchJob, ScheduleGoto, AfterRemoval, ScheduleRequest
  <2> QED
    BY <2>1
<1>7. CASE AddLaunchJob(r)
  <2>1. /\ UNCHANGED << vars, scheduledAt, launcher, cut >>
        /\ schedule[r].pc = "add"
        /\ schedule'[r].pc = "mark" /\ schedule'[r].time = schedule[r].time
        /\ launch.state = "none" => launch'.time = schedule[r].time
    <3>1. schedule' = [schedule EXCEPT ![r] = [schedule[r] EXCEPT !.pc = "mark"]]
      BY <1>7 DEF AddLaunchJob, ScheduleGoto
    <3>2. schedule'[r] = [schedule[r] EXCEPT !.pc = "mark"]
      BY <1>1, <3>1
    <3> QED
      BY <1>1, <1>7, <3>2 DEF AddLaunchJob, ScheduleRequest
  <2> QED
    BY <2>1
<1>8. CASE MarkSchedule(r)
  <2>1. /\ UNCHANGED << req, launch, launcher, cut >> /\ scheduledAt' = schedule[r].time
        /\ \A s \in Users : schedule'[s].pc = "idle"
    BY <1>1, <1>2, <1>8 DEF MarkSchedule, UpdateStatus, Users
  <2>2. req[r].pc = "idle"
    BY <1>8 DEF MarkSchedule
  <2>3. CASE schedule[r].pc = "mark" /\ UpdateStatus("SCHEDULED")
    <3>1. campaign'.status = "DELETED" \/ campaign'.status = "SCHEDULED"
      BY <1>1, <2>3 DEF UpdateStatus, Row
    <3> QED
      BY <2>1, <2>2, <2>3, <3>1
  <2>4. CASE schedule[r].pc = "unmark" /\ UpdateStatus("DRAFT")
    <3>1. campaign'.status = "DELETED" \/ campaign'.status = "DRAFT"
      BY <1>1, <2>4 DEF UpdateStatus, Row
    <3> QED
      BY <1>2, <2>1, <2>2, <2>4, <3>1
  <2> QED
    BY <1>8, <2>3, <2>4 DEF MarkSchedule
<1> QED
  BY <1>3, <1>4, <1>5, <1>6, <1>7, <1>8 DEF ScheduleStep

\* And the steps of the launcher, the worker and the contacts.
LEMMA PunctualOther ==
  ASSUME SchedulerInv, PunctualInv, LauncherStep \/ LaunchTime \/ BackgroundStep
  PROVE  PunctualInv'
<1>1. /\ launch \in LaunchJob
      /\ launch.state = "active" <=> launcher # "idle"
  BY DEF SchedulerInv, SchedulerTypeOK, SchedulerBookkeeping
<1>2. /\ launch'.state \in {"delayed", "waiting"} =>
           launch.state \in {"delayed", "waiting"} /\ launch'.time = launch.time
      /\ launch.state = "none" => launch'.state = "none"
      /\ cut => cut'
      /\ launcher' = "start" => launcher = "start" \/ campaign.status = "SCHEDULED"
  <2>1. CASE LaunchTime \/ TakeLaunch
    BY <1>1, <2>1 DEF LaunchTime, TakeLaunch, LaunchJob, NoLaunch
  <2>2. CASE ReadLaunch \/ FailLaunch
    BY <1>1, <2>2 DEF ReadLaunch, FailLaunch, FinishLaunch, RejectLaunch, LaunchJob, NoLaunch
  <2>3. CASE CallStart \/ LaunchStep
    BY <1>1, <2>3 DEF CallStart, LaunchStep, FinishLaunch, NoLaunch
  <2>4. CASE BackgroundStep
    BY <2>4 DEF BackgroundStep, launchVars
  <2> QED
    BY <2>1, <2>2, <2>3, <2>4 DEF LauncherStep
<1> USE DEF PunctualInv, JobPending
<1>3. OneThingAtATime'
  BY <1>2, OtherMoves DEF OneThingAtATime
<1>4. FoundScheduled'
  BY <1>2, OtherMoves DEF OneThingAtATime, FoundScheduled
<1>5. RowAndJobAgree'
  BY <1>2, OtherMoves DEF RowAndJobAgree
<1> QED
  BY <1>3, <1>4, <1>5

\* The invariant of one user at a time is inductive.
LEMMA PunctualStep ==
  ASSUME SchedulerInv, PunctualInv, \A r, s \in Users : r = s, [SchedulerNext]_schedulerVars
  PROVE  PunctualInv'
<1>1. CASE SchedulerCrash
  <2>1. /\ \A s \in Users : req'[s].pc = "idle" /\ schedule'[s].pc = "idle"
        /\ launcher' = "idle" /\ cut'
    BY <1>1 DEF SchedulerCrash, Crash, IdleRequest, IdleSchedule, Users
  <2> QED
    BY <2>1 DEF PunctualInv, OneThingAtATime, FoundScheduled, RowAndJobAgree
<1>2. CASE UNCHANGED schedulerVars
  BY <1>2 DEF schedulerVars, vars, launchVars, PunctualInv, OneThingAtATime, FoundScheduled,
     RowAndJobAgree, JobPending
<1> QED
  BY <1>1, <1>2, PunctualUser, PunctualSchedule, PunctualOther DEF SchedulerNext

\* With one user at a time and nothing cut short, the launch job of a SCHEDULED
\* campaign is due when the row says: scheduleCampaign writes the row only after
\* it has added the job, and adds it only where there is none, so that BullMQ
\* never ignores the add.
THEOREM LaunchesArePunctual ==
  ASSUME NEW u, Users = {u}
  PROVE  SchedulerSpec => []LaunchesOnTime
<1>1. PunctualInv => LaunchesOnTime
  <2> SUFFICES ASSUME PunctualInv, ~cut, campaign.status = "SCHEDULED",
                      launch.state \in {"delayed", "waiting"},
                      \A r \in Users : schedule[r].pc = "idle"
               PROVE  launch.time = scheduledAt
    BY DEF LaunchesOnTime
  <2> QED
    BY DEF PunctualInv, RowAndJobAgree, JobPending
<1>2. SchedulerInv /\ PunctualInv /\ [SchedulerNext]_schedulerVars => PunctualInv'
  <2>1. \A r, s \in Users : r = s
    OBVIOUS
  <2> QED
    BY <2>1, PunctualStep
<1> QED
  BY <1>1, <1>2, InitPunctual, SchedulerInvariance, PTL DEF SchedulerSpec

\* With one user at a time the launcher starts no draft, whatever fails: between
\* what it read and its start only an unschedule or an edit could make a draft, and
\* BullMQ does not remove the job it has locked.
THEOREM DraftsAreNotLaunched ==
  ASSUME \A r, s \in Users : r = s
  PROVE  SchedulerSpec => DraftsNotLaunched
<1>1. PunctualInv /\ [SchedulerNext]_schedulerVars =>
        [launcher = "start" /\ launcher' = "starting" => campaign.status # "DRAFT"]_schedulerVars
  BY DEF PunctualInv, FoundScheduled
<1>2. SchedulerInv /\ PunctualInv /\ [SchedulerNext]_schedulerVars => PunctualInv'
  BY PunctualStep
<1> QED
  BY <1>1, <1>2, InitPunctual, SchedulerInvariance, PTL DEF SchedulerSpec, DraftsNotLaunched
=============================================================================
