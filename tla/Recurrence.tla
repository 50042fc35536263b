----------------------------- MODULE Recurrence -----------------------------
(***************************************************************************)
(* RecurringCampaignService: once a minute a cron looks at the COMPLETED   *)
(* campaigns that have a recurrence, clones each for the date its rule     *)
(* gives next, and has SchedulerService schedule the clone.                *)
(*                                                                         *)
(* Time is a date and a half of it.  Launching and sending a campaign are  *)
(* the business of Scheduler and Campaigns: here it completes.             *)
(***************************************************************************)
EXTENDS Dates, FiniteSets

CONSTANTS
  Rules,         \* recurrences: [type, daysOfWeek, dayOfMonth]
  Origins,       \* dates on which the first campaign is scheduled
  MaxCampaigns,  \* bound: rows of campaigns
  MaxMoments,    \* bound: halves of a day that pass
  MaxDuration    \* bound: halves of a day a campaign takes, launch and sending

Recurrence == [type : {"daily", "weekly", "monthly"}, daysOfWeek : SUBSET (0..6),
               dayOfMonth : 1..28]

ASSUME RulesAssumption == Rules \subseteq Recurrence
ASSUME OriginsAssumption == \A d \in Origins : IsDay(d)
ASSUME RecurrenceBounds == MaxCampaigns \in Nat /\ MaxMoments \in Nat /\ MaxDuration \in Nat

VARIABLES
  day, half,    \* now
  moments,
  rule,          \* recurrence, which the clones inherit
  endDate,       \* its end, NoDate when it has none
  series,        \* the campaign and its clones, in the order they were made
  pending        \* clones that the cron has saved and not yet scheduled

recurrenceVars == << day, half, moments, rule, endDate, series, pending >>

NoDate == [y |-> 0, m |-> 0, d |-> 0, w |-> 0]
Moment(d, h) == [date |-> d, half |-> h]
Now == Moment(day, half)
MomentKey(t) == 2 * DateKey(t.date) + t.half
Passed(t) == MomentKey(t) <= MomentKey(Now)

\* A row: its status, when it is scheduled or was completed, its original, and
\* the campaign ids in use.
NoRecurring == [status |-> "none", at |-> Moment(NoDate, 0), of |-> 0]
Ids == 1..MaxCampaigns
Statuses == {"none", "DRAFT", "SCHEDULED", "COMPLETED"}
Occurrence == [status : Statuses, at : [date : DateRecord \cup {NoDate}, half : {0, 1}],
               of : {0} \cup Ids]

RecurrenceInit ==
  /\ half \in {0, 1} /\ day \in Origins
  /\ moments = 0
  /\ rule \in Rules
  /\ endDate \in {NoDate} \cup {AddDays(day, n) : n \in {1, 8}}
  /\ series = [i \in Ids |-> IF i = 1 THEN [status |-> "SCHEDULED", at |-> Now, of |-> 0]
                                      ELSE NoRecurring]
  /\ pending = {}

PassHalfADay ==
  /\ moments < MaxMoments /\ moments' = moments + 1
  /\ \A i \in Ids : series[i].status = "SCHEDULED" =>
       MomentKey(Now) - MomentKey(series[i].at) < MaxDuration
  /\ half' = 1 - half
  /\ day' = IF half = 1 THEN NextDay(day) ELSE day
  /\ UNCHANGED << rule, endDate, series, pending >>

\* Launched on time, and all its messages processed.
CompleteOccurrence(i) ==
  /\ series[i].status = "SCHEDULED" /\ Passed(series[i].at)
  /\ series' = [series EXCEPT ![i] = [status |-> "COMPLETED", at |-> Now, of |-> series[i].of]]
  /\ UNCHANGED << day, half, moments, rule, endDate, pending >>

-----------------------------------------------------------------------------

\* The weekdays the weekly rule has within the seven days after a date.
WeekMatches(base, days) == {i \in 1..7 : (base.w + i) % 7 \in days}

\* Mutant: weekdays are numbered from 1, as the send window does.
CalculateNextDateFromOne(base) ==
  CASE rule.type = "daily" -> {AddDays(base, 1)}
    [] rule.type = "weekly" ->
         LET found == {i \in 1..7 : ((base.w + i) % 7) + 1 \in rule.daysOfWeek} IN
         {AddDays(base, i) : i \in {j \in found : \A k \in found : j <= k}}
    [] rule.type = "monthly" -> {SetDay(AddMonth(base), rule.dayOfMonth)}

\* calculateNextDate: the date, or none when the rule has no weekday of the week.
CalculateNextDate(base) ==
  CASE rule.type = "daily" -> {AddDays(base, 1)}
    [] rule.type = "weekly" ->
         LET found == WeekMatches(base, rule.daysOfWeek) IN
         {AddDays(base, i) : i \in {j \in found : \A k \in found : j <= k}}
    [] rule.type = "monthly" -> {SetDay(AddMonth(base), rule.dayOfMonth)}

NextOccurrences(i) == {Moment(d, series[i].at.half) : d \in CalculateNextDate(series[i].at.date)}

\* Midnight of the end date has passed.
EndPassed == endDate # NoDate /\ DateKey(endDate) * 2 < MomentKey(Now)

\* scheduleNextOccurrence up to the save of the clone.  The update of the original
\* leaves its recurrence, as TypeORM skips a column set to undefined.
CloneCampaign(i) ==
  /\ series[i].status = "COMPLETED" /\ ~EndPassed
  /\ \E n \in Ids, next \in NextOccurrences(i) :
       /\ ~Passed(next)
       /\ series[n].status = "none" /\ \A k \in 1..(n - 1) : series[k].status # "none"
       /\ series' = [series EXCEPT ![n] = [status |-> "DRAFT", at |-> next, of |-> i]]
       /\ pending' = pending \cup {n}
  /\ UNCHANGED << day, half, moments, rule, endDate >>

\* scheduleCampaign, which refuses a moment that has come meanwhile.
ScheduleClone(n) ==
  /\ n \in pending /\ pending' = pending \ {n}
  /\ series' = IF Passed(series[n].at) THEN series
               ELSE [series EXCEPT ![n] =
                       [status |-> "SCHEDULED", at |-> series[n].at, of |-> series[n].of]]
  /\ UNCHANGED << day, half, moments, rule, endDate >>

\* It throws, which the loop logs, or the process stops: the clone stays a draft.
ScheduleCloneFails(n) ==
  /\ n \in pending /\ pending' = pending \ {n}
  /\ UNCHANGED << day, half, moments, rule, endDate, series >>

RecurrenceNext ==
  \/ PassHalfADay
  \/ \E i \in Ids : CompleteOccurrence(i) \/ CloneCampaign(i) \/ ScheduleClone(i) \/ ScheduleCloneFails(i)

RecurrenceSpec == RecurrenceInit /\ [][RecurrenceNext]_recurrenceVars
-----------------------------------------------------------------------------
(* Properties. *)

Clones == {n \in Ids : series[n].of # 0}

\* Every variable keeps its type, and dates are days of the calendar.
RecurrenceTypeOK ==
  /\ IsDay(day) /\ half \in {0, 1} /\ moments \in 0..MaxMoments
  /\ rule \in Rules
  /\ endDate = NoDate \/ IsDay(endDate)
  /\ series \in [Ids -> Occurrence]
  /\ \A i \in Ids : series[i].status # "none" => IsDay(series[i].at.date)
  /\ pending \subseteq Ids

\* The dates a rule allows after a date: the next day, the next of its weekdays, its
\* day of the next month or, when that month is too short for the date's day, of the
\* month after it.
Follows(base, next) ==
  CASE rule.type = "daily" -> next = NextDay(base)
    [] rule.type = "weekly" ->
         /\ next.w \in rule.daysOfWeek
         /\ \E i \in 1..7 : /\ next = AddDays(base, i)
                            /\ \A j \in 1..(i - 1) : AddDays(base, j).w \notin rule.daysOfWeek
    [] rule.type = "monthly" ->
         LET months == (next.y * 12 + next.m) - (base.y * 12 + base.m)
             length == MonthLength(IF base.m = 12 THEN base.y + 1 ELSE base.y, (base.m % 12) + 1)
         IN /\ next.d = rule.dayOfMonth
            /\ months = IF base.d <= length THEN 1 ELSE 2

\* "repeats every day at the same time / on selected daysOfWeek / on a specific
\* dayOfMonth": a scheduled occurrence is the first its rule allows after the one
\* it follows completed, at that time of day, however late the cron saw it.  The
\* end date stops the series: at most an occurrence scheduled before it is past it.
OccurrencesFollowRule == \A n \in Clones :
  series[n].status \in {"DRAFT", "SCHEDULED"} =>
    /\ Follows(series[series[n].of].at.date, series[n].at.date)
    /\ series[n].at.half = series[series[n].of].at.half
    /\ endDate # NoDate => MomentKey(series[series[n].of].at) <= 2 * DateKey(endDate)

\* "Remove recurrence from the old campaign so it doesn't re-trigger": a completed
\* campaign is cloned once.
ClonedOnce == \A m, n \in Clones : series[m].of = series[n].of => m = n
-----------------------------------------------------------------------------
(* The inductive invariant behind OccurrencesFollowRule: the moment at which *)
(* a campaign completed, on which its clone's depends, stands.               *)

CompletedByNow == \A i \in Ids :
  series[i].status = "COMPLETED" => MomentKey(series[i].at) <= MomentKey(Now)

ClonesStand == \A n \in Ids :
  /\ series[n].status = "none" => series[n].of = 0
  /\ n \in pending => series[n].status = "DRAFT"
  /\ series[n].of # 0 => series[series[n].of].status = "COMPLETED"

RecurrenceInvariant == RecurrenceTypeOK /\ CompletedByNow /\ ClonesStand /\ OccurrencesFollowRule
=============================================================================
