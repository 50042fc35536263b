----------------------------- MODULE Analytics ------------------------------
(***************************************************************************)
(* The read model of a campaign: StatsUpdaterService counts the events     *)
(* that CampaignsService emits, and backfillStats counts the logs.         *)
(*                                                                         *)
(* Events are emitted within the process and their listeners are not       *)
(* awaited: each is a process of its own, beside the worker and the        *)
(* requests.  A row of the logs is a contact and the start that made it.   *)
(***************************************************************************)
EXTENDS Integers, FiniteSets

CONSTANTS
  Recipients,    \* the contacts of the group
  MaxStarts,     \* bound: times the campaign is started
  MaxBackfills   \* bound: backfills requested

ASSUME AnalyticsBounds == MaxStarts \in Nat /\ MaxBackfills \in Nat /\ IsFiniteSet(Recipients)

Logs == Recipients \X (1..MaxStarts)

VARIABLES
  state,      \* status of the campaign
  starts,     \* times it was started
  log,        \* status of each row of message_logs
  counters,   \* sentCount and failedCount of the campaign
  stats,      \* its row of campaign_stats
  starter,    \* the listener of campaign.started
  update,     \* updateMessageStatus, and then the listener, for each log
  backfill,   \* the request, with the aggregate it has read
  backfills,
  cancelled,  \* history: logs that cancel failed, which nothing counts
  miscounted  \* history: a listener found no row, or a backfill overlapped one

analyticsVars == << state, starts, log, counters, stats, starter, update, backfill,
                    backfills, cancelled, miscounted >>

NoCounts == [sent |-> 0, failed |-> 0]
Counts  == [sent : Nat, failed : Nat]
NoStats == [sent |-> -1, failed |-> -1]
CampaignStats == Counts \cup {NoStats}

AnalyticsInit ==
  /\ state = "DRAFT" /\ starts = 0
  /\ log = [l \in Logs |-> "none"]
  /\ counters = NoCounts
  /\ stats = NoStats
  /\ starter = "idle"
  /\ update = [l \in Logs |-> "idle"]
  /\ backfill = [pc |-> "idle", row |-> NoCounts]
  /\ backfills = 0
  /\ cancelled = {}
  /\ miscounted = FALSE

With(s) == {l \in Logs : log[l] = s}
Plus(c, s) == IF s = "SENT" THEN [sent |-> c.sent + 1, failed |-> c.failed]
              ELSE [sent |-> c.sent, failed |-> c.failed + 1]
InFlight == \E l \in Logs : update[l] # "idle"

-----------------------------------------------------------------------------
(* CampaignsService. *)

\* start: the logs, RUNNING, and the event.  The logs of a start can be read by a
\* backfill before the event comes.  A start comes after the listener of the last.
SaveLogs ==
  /\ state \in {"DRAFT", "PAUSED"} /\ starts < MaxStarts /\ starter = "idle"
  /\ starts' = starts + 1
  /\ log' = [l \in Logs |-> IF l[2] = starts + 1 THEN "PENDING" ELSE log[l]]
  /\ starter' = "starting"
  /\ UNCHANGED << state, counters, stats, update, backfill, backfills, cancelled, miscounted >>

Start ==
  /\ starter = "starting"
  /\ starter' = "find" /\ state' = "RUNNING"
  /\ UNCHANGED << starts, log, counters, stats, update, backfill, backfills, cancelled, miscounted >>

Pause ==
  /\ state = "RUNNING" /\ state' = "PAUSED"
  /\ UNCHANGED << starts, log, counters, stats, starter, update, backfill, backfills, cancelled, miscounted >>

\* cancel fails the pending logs in one UPDATE, without events or counters.
Cancel ==
  /\ state \in {"RUNNING", "PAUSED"} /\ starter # "starting"
  /\ state' = "FAILED"
  /\ log' = [l \in Logs |-> IF log[l] = "PENDING" THEN "FAILED" ELSE log[l]]
  /\ cancelled' = With("PENDING")
  /\ UNCHANGED << starts, counters, stats, starter, update, backfill, backfills, miscounted >>

\* updateMessageStatus, called once for a message by the worker: the log,
SetStatus(l) ==
  /\ state = "RUNNING" /\ log[l] = "PENDING" /\ update[l] = "idle"
  /\ \E s \in {"SENT", "FAILED"} : log' = [log EXCEPT ![l] = s]
  /\ update' = [update EXCEPT ![l] = "count"]
  /\ miscounted' = (miscounted \/ backfill.pc # "idle")
  /\ UNCHANGED << state, starts, counters, stats, starter, backfill, backfills, cancelled >>

\* the counter of the campaign, which completes with its last message, and the event;
CountMessage(l) ==
  /\ update[l] = "count"
  /\ counters' = Plus(counters, log[l])
  /\ state' = IF state = "RUNNING" /\ counters'.sent + counters'.failed >= Cardinality(Recipients)
                THEN "COMPLETED" ELSE state
  /\ update' = [update EXCEPT ![l] = "increment"]
  /\ UNCHANGED << starts, log, stats, starter, backfill, backfills, cancelled, miscounted >>

\* incrementCampaignStat, an UPDATE that a missing row makes none.  The write of
\* daily_stats that follows throws before it is made, and is logged.
IncrementStat(l) ==
  /\ update[l] = "increment"
  /\ stats' = IF stats = NoStats THEN stats ELSE Plus(stats, log[l])
  /\ miscounted' = (miscounted \/ stats = NoStats \/ backfill.pc # "idle")
  /\ update' = [update EXCEPT ![l] = "idle"]
  /\ UNCHANGED << state, starts, log, counters, starter, backfill, backfills, cancelled >>

-----------------------------------------------------------------------------
(* ensureCampaignStats, and backfillStats. *)

FindStats ==
  /\ starter = "find"
  /\ starter' = "save"
  /\ UNCHANGED << state, starts, log, counters, stats, update, backfill, backfills, cancelled, miscounted >>

\* Mutant: the row of a campaign that starts is written with zeros.
EnsureStatsAfresh ==
  /\ starter = "save"
  /\ starter' = "idle" /\ stats' = NoCounts
  /\ UNCHANGED << state, starts, log, counters, update, backfill, backfills, cancelled, miscounted >>

\* The update of the row found, and the save of one not found, which TypeORM makes
\* an insert or, when it has come meanwhile, an update: neither writes the counts.
EnsureStats ==
  /\ starter = "save"
  /\ starter' = "idle"
  /\ stats' = IF stats = NoStats THEN NoCounts ELSE stats
  /\ UNCHANGED << state, starts, log, counters, update, backfill, backfills, cancelled, miscounted >>

\* The aggregate over the logs: no row of them, no row of it.
Aggregate ==
  /\ backfill.pc = "idle" /\ backfills < MaxBackfills
  /\ backfills' = backfills + 1
  /\ backfill' = [pc |-> IF \A l \in Logs : log[l] = "none" THEN "idle" ELSE "upsert",
                  row |-> [sent |-> Cardinality(With("SENT")), failed |-> Cardinality(With("FAILED"))]]
  /\ miscounted' = (miscounted \/ InFlight)
  /\ UNCHANGED << state, starts, log, counters, stats, starter, update, cancelled >>

\* The upsert; the query for daily_stats, which names a column that message_logs
\* has not, then fails the request.
UpsertStats ==
  /\ backfill.pc = "upsert"
  /\ stats' = backfill.row
  /\ backfill' = [pc |-> "idle", row |-> backfill.row]
  /\ UNCHANGED << state, starts, log, counters, starter, update, backfills, cancelled, miscounted >>

MessageStep(l) == SetStatus(l) \/ CountMessage(l) \/ IncrementStat(l)

AnalyticsNext ==
  \/ SaveLogs \/ Start \/ Pause \/ Cancel
  \/ \E l \in Logs : MessageStep(l)
  \/ FindStats \/ EnsureStats \/ Aggregate \/ UpsertStats

AnalyticsSpec == AnalyticsInit /\ [][AnalyticsNext]_analyticsVars
-----------------------------------------------------------------------------
(* Properties. *)

\* Every variable keeps its type.
AnalyticsTypeOK ==
  /\ state \in {"DRAFT", "RUNNING", "PAUSED", "COMPLETED", "FAILED"}
  /\ starts \in 0..MaxStarts /\ backfills \in 0..MaxBackfills
  /\ log \in [Logs -> {"none", "PENDING", "SENT", "FAILED"}]
  /\ counters \in Counts /\ stats \in CampaignStats
  /\ starter \in {"idle", "starting", "find", "save"}
  /\ update \in [Logs -> {"idle", "count", "increment"}]
  /\ backfill \in [pc : {"idle", "upsert"}, row : Counts]
  /\ cancelled \subseteq Logs /\ miscounted \in BOOLEAN

\* getCampaignStats.
Shown == IF stats = NoStats THEN counters ELSE stats

\* Once the updates have come through, the campaign shows as many messages sent and
\* failed as its logs have, through starts, restarts and backfills: only those that
\* cancel failed, which a backfill counts and the events do not, may be missing.
StatsExact ==
  ~InFlight /\ backfill.pc = "idle" /\ ~miscounted =>
    /\ Shown.sent = Cardinality(With("SENT"))
    /\ Shown.failed \in {Cardinality(With("FAILED")), Cardinality(With("FAILED") \ cancelled)}
-----------------------------------------------------------------------------
(* What every reachable state satisfies: whose messages each count has.        *)

\* Logs are there from their start on; one whose update is on its way is settled.
LogsFit ==
  \A l \in Logs :
    /\ l[2] > starts => log[l] = "none"
    /\ update[l] # "idle" => log[l] \in {"SENT", "FAILED"}

\* What cancel failed stays so, and no update knows of it; it is the end.
CancelledRest ==
  /\ \A l \in cancelled : log[l] = "FAILED" /\ update[l] = "idle"
  /\ cancelled # {} => state = "FAILED"
  /\ starter = "starting" => state \in {"DRAFT", "PAUSED"}

\* The counters have the logs whose update has counted them.
CountedAs(s) == {l \in Logs : log[l] = s /\ update[l] # "count"}
CountersTrue ==
  /\ counters.sent = Cardinality(CountedAs("SENT"))
  /\ counters.failed = Cardinality(CountedAs("FAILED") \ cancelled)

\* The row of the statistics, and the one a backfill is about to write, have those
\* whose update has come through; what cancel failed, all of it or none.
AddedAs(s) == {l \in Logs : log[l] = s /\ update[l] = "idle"}
Tallies(c) ==
  /\ c.sent = Cardinality(AddedAs("SENT"))
  /\ c.failed \in {Cardinality(AddedAs("FAILED")), Cardinality(AddedAs("FAILED") \ cancelled)}
StatsTrue ==
  ~miscounted =>
    /\ stats # NoStats => Tallies(stats)
    /\ stats = NoStats => Tallies(NoCounts)
    /\ backfill.pc = "upsert" => ~InFlight /\ Tallies(backfill.row)

AnalyticsInvariant ==
  AnalyticsTypeOK /\ LogsFit /\ CancelledRest /\ CountersTrue /\ StatsTrue
=============================================================================
