----------------------------- MODULE Scheduler -----------------------------
(***************************************************************************)
(* Scheduled campaigns: the endpoints schedule and unschedule              *)
(* (SchedulerService), the BullMQ queue 'campaign-launch' and its worker   *)
(* (CampaignLaunchProcessor), composed with the Campaigns they start.      *)
(*                                                                         *)
(* A campaign has one launch job at most: its jobId is made of the         *)
(* campaign's id, and BullMQ ignores an add whose jobId exists.  The       *)
(* launch worker calls CampaignsService.start like any request; it is the  *)
(* element Launcher of Requests.                                           *)
(***************************************************************************)
EXTENDS Campaigns

CONSTANTS
  Launcher,      \* the request through which the launch worker starts
  Times,         \* values of scheduledAt
  MaxSchedules,  \* bound: schedule and unschedule requests admitted
  LaunchFaults   \* whether a database or Redis access of the scheduler may fail

ASSUME LauncherAssumption == Launcher \in Requests
ASSUME TimesAssumption == Null \notin Times
ASSUME SchedulesAssumption == MaxSchedules \in Nat
ASSUME LaunchFaultsAssumption == LaunchFaults \in BOOLEAN

VARIABLES
  scheduledAt,  \* the row's column, as the last update of the scheduler left it:
                \*   no save of Campaigns leaves a row SCHEDULED
  launch,       \* the BullMQ job launch-<campaignId>
  launcher,     \* program counter of CampaignLaunchProcessor.process
  schedule,     \* the schedule and unschedule requests in flight
  schedules,    \* those admitted so far
  cut           \* history: a failure or a crash cut a scheduling or a launch short

launchVars    == << scheduledAt, launch, launcher, schedule, schedules, cut >>
schedulerVars == << vars, launchVars >>

Users == Requests \ {Launcher}

NoLaunch == [state |-> "none", time |-> Null, stalls |-> 0]

LaunchJob ==
  {NoLaunch} \cup [state : {"delayed", "waiting", "active", "failed"},
                  time : Times, stalls : 0..(MaxStalls + 1)]

\* The next await of process(); "starting": inside start(); "fail": in the catch.
LauncherPc == {"idle", "read", "start", "starting", "fail"}

\* "get" and "remove": getJob and job.remove; then a reschedule goes on at
\* "add" and "mark", an unschedule at "unmark".  time is Null in an unschedule.
SchedulePc == {"idle", "get", "remove", "add", "mark", "unmark"}

ScheduleRequest == [pc : SchedulePc, time : Times \cup {Null}]

IdleSchedule == [pc |-> "idle", time |-> Null]

SchedulerInit ==
  /\ Init
  /\ scheduledAt = Null
  /\ launch = NoLaunch
  /\ launcher = "idle"
  /\ schedule = [r \in Requests |-> IdleSchedule]
  /\ schedules = 0
  /\ cut = FALSE

-----------------------------------------------------------------------------
(* POST :id/schedule and :id/unschedule. *)

BeginSchedule(r, pc, time) ==
  /\ req[r].pc = "idle" /\ schedule[r].pc = "idle"
  /\ schedules < MaxSchedules
  /\ schedules' = schedules + 1
  /\ schedule' = [schedule EXCEPT ![r] = [pc |-> pc, time |-> time]]
  /\ UNCHANGED << vars, scheduledAt, launch, launcher, cut >>

\* Mutant: rescheduling does not remove the old job.
RequestScheduleKeepsJob(r) ==
  \E time \in Times :
    campaign.status \in {"DRAFT", "SCHEDULED"} /\ BeginSchedule(r, "add", time)

\* scheduleCampaign: a DRAFT is scheduled, a SCHEDULED campaign rescheduled.
RequestSchedule(r) ==
  \E time \in Times :
    \/ campaign.status = "DRAFT" /\ BeginSchedule(r, "add", time)
    \/ campaign.status = "SCHEDULED" /\ BeginSchedule(r, "get", time)

\* cancelSchedule.
RequestUnschedule(r) ==
  campaign.status = "SCHEDULED" /\ BeginSchedule(r, "get", Null)

ScheduleGoto(r, pc) == schedule' = [schedule EXCEPT ![r].pc = pc]

AfterRemoval(r) == IF schedule[r].time = Null THEN "unmark" ELSE "add"

GetLaunchJob(r) ==
  /\ schedule[r].pc = "get"
  /\ ScheduleGoto(r, IF launch.state = "none" THEN AfterRemoval(r) ELSE "remove")
  /\ UNCHANGED << vars, scheduledAt, launch, launcher, schedules, cut >>

\* Mutant: the job is removed although its worker has locked it.
RemoveLaunchJobUnlocked(r) ==
  /\ schedule[r].pc = "remove"
  /\ launch' = NoLaunch
  /\ ScheduleGoto(r, AfterRemoval(r))
  /\ UNCHANGED << vars, scheduledAt, launcher, schedules, cut >>

\* job.remove() throws on a job its worker has locked: 500.
RemoveLaunchJob(r) ==
  /\ schedule[r].pc = "remove"
  /\ \/ /\ launch.state = "active"
        /\ schedule' = [schedule EXCEPT ![r] = IdleSchedule]
        /\ UNCHANGED launch
     \/ /\ launch.state # "active"
        /\ launch' = NoLaunch
        /\ ScheduleGoto(r, AfterRemoval(r))
  /\ UNCHANGED << vars, scheduledAt, launcher, schedules, cut >>

AddLaunchJob(r) ==
  /\ schedule[r].pc = "add"
  /\ launch' = IF launch.state = "none"
                 THEN [state |-> "delayed", time |-> schedule[r].time, stalls |-> 0]
                 ELSE launch
  /\ ScheduleGoto(r, "mark")
  /\ UNCHANGED << vars, scheduledAt, launcher, schedules, cut >>

\* campaignRepository.update writes status (and scheduledAt) of whatever row
\* is there.
UpdateStatus(status) ==
  /\ campaign' = IF campaign.status = "DELETED" THEN campaign
                 ELSE [campaign EXCEPT !.status = status]
  /\ UNCHANGED << late, optedOut, log, job, worker, req, boundVars, historyVars >>

MarkSchedule(r) ==
  /\ \/ schedule[r].pc = "mark" /\ UpdateStatus("SCHEDULED")
     \/ schedule[r].pc = "unmark" /\ UpdateStatus("DRAFT")
  /\ scheduledAt' = schedule[r].time
  /\ schedule' = [schedule EXCEPT ![r] = IdleSchedule]
  /\ UNCHANGED << launch, launcher, schedules, cut >>

\* A database or Redis access throws; or, at "add", the time asked for has come
\* meanwhile and scheduleCampaign throws after a reschedule removed the old job.
ScheduleFails(r) ==
  /\ schedule[r].pc # "idle"
  /\ LaunchFaults \/ schedule[r].pc = "add"
  /\ schedule' = [schedule EXCEPT ![r] = IdleSchedule]
  /\ cut' = TRUE
  /\ UNCHANGED << vars, scheduledAt, launch, launcher, schedules >>

-----------------------------------------------------------------------------
(* CampaignLaunchProcessor.process. *)

\* The delay of the launch job is over.
LaunchTime ==
  /\ launch.state = "delayed"
  /\ launch' = [launch EXCEPT !.state = "waiting"]
  /\ UNCHANGED << vars, scheduledAt, launcher, schedule, schedules, cut >>

TakeLaunch ==
  /\ launch.state = "waiting" /\ launcher = "idle"
  /\ launch' = [launch EXCEPT !.state = "active"]
  /\ launcher' = "read"
  /\ UNCHANGED << vars, scheduledAt, schedule, schedules, cut >>

\* process() returns: removeOnComplete deletes the job.
FinishLaunch == launch' = NoLaunch /\ launcher' = "idle"

\* process() rejects: one attempt only, and removeOnFail keeps the job.
RejectLaunch ==
  launch' = [launch EXCEPT !.state = "failed"] /\ launcher' = "idle" /\ cut' = TRUE

\* A campaign that is gone or no longer SCHEDULED is skipped.
ReadLaunch ==
  /\ launcher = "read"
  /\ \/ /\ campaign.status = "SCHEDULED"
        /\ launcher' = "start"
        /\ UNCHANGED << launch, cut >>
     \/ campaign.status # "SCHEDULED" /\ FinishLaunch /\ UNCHANGED cut
     \/ LaunchFaults /\ RejectLaunch
  /\ UNCHANGED << vars, scheduledAt, schedule, schedules >>

\* start() reads the row again and makes up its own mind about the status.
\* Past the bound on starts it finds the session disconnected.
CallStart ==
  /\ launcher = "start"
  /\ \/ BeginStart(Launcher) /\ launcher' = "starting"
     \/ /\ \/ campaign.status \notin {"DRAFT", "PAUSED", "SCHEDULED"}
           \/ LaunchFaults
           \/ starts = MaxStarts
        /\ launcher' = "fail"
        /\ UNCHANGED vars
  /\ UNCHANGED << scheduledAt, launch, schedule, schedules, cut >>

\* The steps of start(); whatever it throws ends in the catch block.
LaunchStep ==
  /\ launcher = "starting"
  /\ \/ /\ \/ CheckSession(Launcher) \/ PickContacts(Launcher)
           \/ CreateLog(Launcher) \/ EnqueueJob(Launcher)
        /\ launcher' = IF req'[Launcher].pc = "idle" THEN "fail" ELSE "starting"
        /\ UNCHANGED launch
     \/ SaveStart(Launcher) /\ FinishLaunch
     \/ /\ LaunchFaults
        /\ Respond(Launcher)
        /\ launcher' = "fail"
        /\ UNCHANGED << launch, rowVars, optedOut, log, job, worker, boundVars,
                        historyVars >>
  /\ UNCHANGED << scheduledAt, schedule, schedules, cut >>

\* Mutant: the catch block only logs.
FailLaunchLogs ==
  /\ launcher = "fail"
  /\ FinishLaunch
  /\ UNCHANGED << vars, scheduledAt, schedule, schedules, cut >>

\* The catch block fails the campaign, whatever its status is by now.
FailLaunch ==
  /\ launcher = "fail"
  /\ \/ UpdateStatus("FAILED") /\ FinishLaunch /\ UNCHANGED cut
     \/ LaunchFaults /\ RejectLaunch /\ UNCHANGED vars
  /\ UNCHANGED << scheduledAt, schedule, schedules >>

-----------------------------------------------------------------------------

\* A crash loses the requests in flight; the active launch job is run again, MaxStalls times.
SchedulerCrash ==
  /\ Crash
  /\ schedule' = [r \in Requests |-> IdleSchedule]
  /\ launcher' = "idle"
  /\ cut' = TRUE
  /\ launch' = IF launch.state # "active" THEN launch
               ELSE [state |-> IF launch.stalls < MaxStalls THEN "waiting" ELSE "failed",
                     time |-> launch.time, stalls |-> launch.stalls + 1]
  /\ UNCHANGED << scheduledAt, schedules >>

\* A user's request of Campaigns; one request slot serves one request at a time.
UserStep(r) ==
  /\ schedule[r].pc = "idle"
  /\ NewRequest(r) \/ RequestStep(r) \/ RequestFails(r)
  /\ UNCHANGED launchVars

ScheduleStep(r) ==
  GetLaunchJob(r) \/ RemoveLaunchJob(r) \/ AddLaunchJob(r) \/ MarkSchedule(r)

LauncherStep ==
  TakeLaunch \/ ReadLaunch \/ CallStart \/ LaunchStep \/ FailLaunch

BackgroundStep ==
  /\ \/ WorkerStep
     \/ \E l \in Logs : BackoffElapses(l)
     \/ \E c \in Contacts : OptOut(c) \/ OptIn(c)
  /\ UNCHANGED launchVars

SchedulerNext ==
  \/ \E r \in Users :
       \/ UserStep(r) \/ ScheduleStep(r) \/ ScheduleFails(r)
       \/ RequestSchedule(r) \/ RequestUnschedule(r)
  \/ LauncherStep \/ LaunchTime
  \/ BackgroundStep
  \/ SchedulerCrash

SchedulerSpec == SchedulerInit /\ [][SchedulerNext]_schedulerVars

\* Handlers and workers run, and the launch job's delay ends; users, faults
\* and crashes owe nothing.
SchedulerFairness ==
  /\ WF_schedulerVars(WorkerStep /\ UNCHANGED launchVars)
  /\ WF_schedulerVars(LauncherStep)
  /\ WF_schedulerVars(LaunchTime)
  /\ \A r \in Users :
       /\ WF_schedulerVars(ScheduleStep(r))
       /\ WF_schedulerVars(RequestStep(r) /\ UNCHANGED launchVars)

SchedulerFairSpec == SchedulerSpec /\ SchedulerFairness
-----------------------------------------------------------------------------
(* Properties. *)

\* Every variable of the scheduler keeps its type.
SchedulerTypeOK ==
  /\ TypeOK
  /\ scheduledAt \in Times \cup {Null}
  /\ launch \in LaunchJob
  /\ launcher \in LauncherPc
  /\ schedule \in [Requests -> ScheduleRequest]
  /\ schedules \in 0..MaxSchedules
  /\ cut \in BOOLEAN

\* The launch worker is busy exactly while the job is active, its start() is in
\* flight only while it waits for it; a job that can still run has stalls left;
\* and an unschedule never adds a job.
SchedulerBookkeeping ==
  /\ launch.state = "active" <=> launcher # "idle"
  /\ launch.state # "failed" => launch.stalls <= MaxStalls
  /\ req[Launcher].pc # "idle" => launcher = "starting"
  /\ \A r \in Requests :
       /\ schedule[r].pc \in {"add", "mark"} => schedule[r].time # Null
       /\ schedule[r].pc = "unmark" => schedule[r].time = Null

\* One user at a time and nothing cut short: when no schedule request is in
\* flight, the launch job of a SCHEDULED campaign is due when the row says.
LaunchesOnTime ==
  /\ ~cut
  /\ campaign.status = "SCHEDULED"
  /\ launch.state \in {"delayed", "waiting"}
  /\ \A r \in Users : schedule[r].pc = "idle"
  => launch.time = scheduledAt

\* Unless a failure or a crash cuts in, a SCHEDULED campaign whose launch job is
\* pending is launched, failed or unscheduled, however users race with the timer.
ScheduledLeaves ==
  campaign.status = "SCHEDULED" /\ launch.state \in {"delayed", "waiting"}
    ~> campaign.status # "SCHEDULED" \/ cut

\* One user at a time: BullMQ's lock on the active job keeps unscheduling and
\* launching apart, so that the launcher never starts a campaign that went back
\* to DRAFT after the launcher found it SCHEDULED.
DraftsNotLaunched ==
  [][launcher = "start" /\ launcher' = "starting"
       => campaign.status # "DRAFT"]_schedulerVars

\* "Scheduled campaigns survive server restarts and fire at the exact target
\* time": with the backend crashing at most MaxCrashes times, a SCHEDULED
\* campaign is launched, failed or unscheduled in the end.
ScheduledSurvives == campaign.status = "SCHEDULED" ~> campaign.status # "SCHEDULED"
-----------------------------------------------------------------------------
(* The inductive invariants behind LaunchesOnTime and DraftsNotLaunched, of *)
(* a user that makes one request at a time.                                 *)

JobPending == launch.state \in {"delayed", "waiting"}

\* A user is editing or scheduling, and edits what was a draft and has not been
\* scheduled since; a job that is removed to unschedule is not added again.
OneThingAtATime == \A r \in Users :
  /\ schedule[r].pc # "idle" => req[r].pc = "idle"
  /\ req[r].pc = "saveEdit" => req[r].row.status = "DRAFT" /\ campaign.status # "SCHEDULED"
  /\ schedule[r].pc = "unmark" => launch.state = "none"

\* What the launcher found SCHEDULED does not become a draft before it starts.
FoundScheduled ==
  launcher = "start" =>
    /\ campaign.status # "DRAFT"
    /\ \A r \in Users : req[r].pc # "saveEdit"

\* A draft has no launch job, an addition finds none, and the job added is due when
\* the row will say, and when it says once the request is done.
RowAndJobAgree == ~cut => \A r \in Users :
  /\ schedule[r].pc = "add" => launch.state = "none"
  /\ schedule[r].pc = "mark" /\ JobPending => launch.time = schedule[r].time
  /\ schedule[r].pc \in {"idle", "get", "remove"} =>
       /\ campaign.status = "SCHEDULED" /\ JobPending => launch.time = scheduledAt
       /\ campaign.status = "DRAFT" \/ req[r].pc = "saveEdit" => launch.state = "none"

PunctualInv == OneThingAtATime /\ FoundScheduled /\ RowAndJobAgree
=============================================================================
