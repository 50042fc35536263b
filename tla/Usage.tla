------------------------------- MODULE Usage --------------------------------
(***************************************************************************)
(* Usage and quotas of one user: the counters of BillingService, a row     *)
(* that every event handler reads, changes in memory and writes; and the   *)
(* AI quota of CostLimiterService, a count in memory that AiService checks *)
(* before it calls a provider and records after.                           *)
(***************************************************************************)
EXTENDS Integers, FiniteSets

CONSTANTS
  Meters,        \* event handlers and usage reads that may be in flight
  Generators,    \* AI generations that may be in flight
  AiLimit,       \* generations a day of the user's plan
  MaxDays,       \* bound: midnights
  MaxMetered,    \* bound: events and usage reads
  MaxGenerations \* bound: generations asked for

ASSUME GeneratorsAssumption == IsFiniteSet(Generators)

ASSUME UsageBounds ==
  /\ AiLimit \in Nat \ {0} /\ MaxDays \in Nat /\ MaxMetered \in Nat
  /\ MaxGenerations \in Nat

VARIABLES
  date,       \* the day, and the month it is in
  usage,      \* the row of plan_usages
  meter,      \* the handlers in flight, with the row each read
  quota,      \* quotas of CostLimiterService, of today
  generator,  \* generateCopy calls in flight
  metered, generations,
  counted,    \* history: what the counters would be if no handler overlapped
  overlapped  \* history: a handler wrote a row that had changed, or grown old, since it read it

usageVars == << date, usage, meter, quota, generator, metered, generations, counted, overlapped >>

Counters == {"contactCount", "campaignsThisMonth", "messagesToday"}
Date     == [day : 0..MaxDays, month : 0..MaxDays]
PlanUsage == [exists : BOOLEAN, count : [Counters -> Nat], daily : 0..MaxDays,
              monthly : 0..MaxDays]
Zero     == [c \in Counters |-> 0]
NewUsage == [exists |-> TRUE, count |-> Zero, daily |-> date.day, monthly |-> date.month]

\* What a handler does to its counter: sessionsCount goes as contactCount, and
\* aiGenerationsToday as messagesToday.
MeterOps == {"contact.created", "contact.deleted", "campaign.created", "message.sent", "read"}
CounterOf == [op \in MeterOps |->
  CASE op = "campaign.created" -> "campaignsThisMonth" [] op = "message.sent" -> "messagesToday"
    [] OTHER -> "contactCount"]
Added(op, n) == CASE op = "contact.deleted" -> IF n = 0 THEN 0 ELSE n - 1
                  [] op = "read" -> n
                  [] OTHER -> n + 1

Unread    == [exists |-> FALSE, count |-> Zero, daily |-> 0, monthly |-> 0]
IdleMeter == [pc |-> "idle", op |-> "read", copy |-> Unread]
MeterRow  == [pc : {"idle", "find", "create", "reset", "update"}, op : MeterOps, copy : PlanUsage]

\* The handler goes on to pc with the row it holds.
Holding(h, pc, row) == [pc |-> pc, op |-> meter[h].op, copy |-> row]

UsageInit ==
  /\ date = [day |-> 0, month |-> 0]
  /\ usage = Unread
  /\ meter = [h \in Meters |-> IdleMeter]
  /\ quota = 0
  /\ generator = [g \in Generators |-> "idle"]
  /\ metered = 0 /\ generations = 0
  /\ counted = Zero
  /\ overlapped = FALSE

-----------------------------------------------------------------------------
(* BillingService. *)

\* An event, or GET billing/usage.
Meter(h) ==
  /\ meter[h].pc = "idle" /\ metered < MaxMetered /\ metered' = metered + 1
  /\ \E op \in MeterOps : meter' = [meter EXCEPT
                             ![h] = [pc |-> "find", op |-> op, copy |-> Unread]]
  /\ UNCHANGED << date, usage, quota, generator, generations, counted, overlapped >>

FindUsage(h) ==
  /\ meter[h].pc = "find"
  /\ meter' = [meter EXCEPT
       ![h] = Holding(h, IF usage.exists THEN "reset" ELSE "create", usage)]
  /\ UNCHANGED << date, usage, quota, generator, metered, generations, counted, overlapped >>

\* Of two that create the row one fails: its insert breaks the key, or its save
\* found the row, and the dates it did not load are no dates.
CreateUsage(h) ==
  /\ meter[h].pc = "create"
  /\ IF usage.exists
       THEN /\ meter' = [meter EXCEPT ![h] = IdleMeter]
            /\ overlapped' = TRUE
            /\ UNCHANGED usage
       ELSE /\ usage' = NewUsage
            /\ meter' = [meter EXCEPT ![h] = Holding(h, "reset", NewUsage)]
            /\ UNCHANGED overlapped
  /\ UNCHANGED << date, quota, generator, metered, generations, counted >>

\* resetCountersIfNeeded.
Reset(row) ==
  [exists |-> row.exists, daily |-> date.day, monthly |-> date.month,
   count |-> [c \in Counters |->
     IF \/ c = "messagesToday" /\ row.daily # date.day
        \/ c = "campaignsThisMonth" /\ row.monthly # date.month
       THEN 0 ELSE row.count[c]]]

Overlap(h) == overlapped' = (overlapped \/ usage # meter[h].copy)

\* Mutant: the daily reset writes the counters and not its date.
ResetUsageUndated(h) ==
  /\ meter[h].pc = "reset"
  /\ LET row == [Reset(meter[h].copy) EXCEPT !.daily = meter[h].copy.daily]
         saves == meter[h].copy # Reset(meter[h].copy) IN
     /\ meter' = [meter EXCEPT ![h] = Holding(h, "update", row)]
     /\ IF saves THEN usage' = row /\ Overlap(h) ELSE UNCHANGED << usage, overlapped >>
  /\ UNCHANGED << date, quota, generator, metered, generations, counted >>

\* A save of the copy, its other counters included.
ResetUsage(h) ==
  /\ meter[h].pc = "reset"
  /\ LET row == Reset(meter[h].copy)  saves == row # meter[h].copy IN
     /\ meter' = [meter EXCEPT ![h] = Holding(h, "update", row)]
     /\ IF saves THEN usage' = row /\ Overlap(h) ELSE UNCHANGED << usage, overlapped >>
  /\ UNCHANGED << date, quota, generator, metered, generations, counted >>

WithCount(row, c, n) ==
  [exists |-> row.exists, daily |-> row.daily, monthly |-> row.monthly,
   count |-> [row.count EXCEPT ![c] = n]]

\* UPDATE of the one counter; a read answers with its copy.
UpdateUsage(h) ==
  LET op == meter[h].op  c == CounterOf[op] IN
  /\ meter[h].pc = "update"
  /\ usage' = IF op = "read" THEN usage
              ELSE WithCount(usage, c, Added(op, meter[h].copy.count[c]))
  /\ counted' = [counted EXCEPT ![c] = Added(op, counted[c])]
  /\ IF op = "read" THEN UNCHANGED overlapped ELSE Overlap(h)
  /\ meter' = [meter EXCEPT ![h] = IdleMeter]
  /\ UNCHANGED << date, quota, generator, metered, generations >>

Midnight ==
  /\ date.day < MaxDays
  /\ \E m \in {date.month, date.month + 1} :
       /\ date' = [day |-> date.day + 1, month |-> m]
       /\ counted' = [c \in Counters |->
            IF c = "messagesToday" \/ (c = "campaignsThisMonth" /\ m # date.month)
              THEN 0 ELSE counted[c]]
  /\ quota' = 0
  /\ overlapped' = (overlapped \/ \E h \in Meters : meter[h].pc \in {"reset", "update"})
  /\ UNCHANGED << usage, meter, generator, metered, generations >>

-----------------------------------------------------------------------------
(* AiService.generateCopy. *)

Allowed     == quota < AiLimit
RecordUsage == quota' = quota + 1

\* Mutant: the limit itself is let pass.
CheckQuotaPast(g) ==
  /\ generator[g] = "idle" /\ generations < MaxGenerations
  /\ generations' = generations + 1
  /\ generator' = [generator EXCEPT ![g] = IF quota <= AiLimit THEN "generate" ELSE "idle"]
  /\ UNCHANGED << date, usage, meter, quota, metered, counted, overlapped >>

\* 429 at the limit.
CheckQuota(g) ==
  /\ generator[g] = "idle" /\ generations < MaxGenerations
  /\ generations' = generations + 1
  /\ generator' = [generator EXCEPT ![g] = IF Allowed THEN "generate" ELSE "idle"]
  /\ UNCHANGED << date, usage, meter, quota, metered, counted, overlapped >>

\* The provider, or Ollama after OpenAI failed, answers, and the usage is recorded;
\* or both failed: 503.
Generate(g) ==
  /\ generator[g] = "generate"
  /\ \/ RecordUsage
     \/ UNCHANGED quota
  /\ generator' = [generator EXCEPT ![g] = "idle"]
  /\ UNCHANGED << date, usage, meter, metered, generations, counted, overlapped >>

AiController == \E g \in Generators : CheckQuota(g) \/ Generate(g)

RestartUsage ==
  /\ meter' = [h \in Meters |-> IdleMeter]
  /\ generator' = [g \in Generators |-> "idle"]
  /\ quota' = 0
  /\ UNCHANGED << date, usage, metered, generations, counted, overlapped >>

UsageNext ==
  \/ \E h \in Meters : Meter(h) \/ FindUsage(h) \/ CreateUsage(h) \/ ResetUsage(h) \/ UpdateUsage(h)
  \/ AiController
  \/ Midnight \/ RestartUsage

UsageSpec == UsageInit /\ [][UsageNext]_usageVars
-----------------------------------------------------------------------------
(* Properties. *)

\* Every variable keeps its type.
UsageTypeOK ==
  /\ date \in Date /\ date.month <= date.day
  /\ usage \in PlanUsage
  /\ meter \in [Meters -> MeterRow]
  /\ quota \in Nat
  /\ generator \in [Generators -> {"idle", "generate"}]
  /\ counted \in [Counters -> Nat]
  /\ overlapped \in BOOLEAN

\* The counters of today and this month, as the next reader will see them, are
\* what the events made them, also across a day, a month or both: only a handler
\* that another one or a midnight overtook loses or revives counts.
CountsExact == overlapped \/ ~usage.exists \/ Reset(usage).count = counted

\* The quota is overrun by the generations that were in flight when it was
\* reached, and no more, whatever midnight they straddle.
QuotaOverrunBounded == quota <= AiLimit - 1 + Cardinality(Generators)
-----------------------------------------------------------------------------
(* The inductive invariant behind CountsExact. *)

\* A row is dated today or earlier, a handler holds a row that was stored, and before
\* the first row nothing was counted.
RowsDated ==
  /\ usage.daily <= date.day /\ usage.monthly <= date.month
  /\ \A h \in Meters : meter[h].pc \in {"reset", "update"} =>
       usage.exists /\ meter[h].copy.exists
  /\ ~usage.exists => counted = Zero

\* A handler that no midnight overtook is about to add to the counters of today.
UpdatesToday ==
  \A h \in Meters : meter[h].pc = "update" =>
    overlapped \/ (meter[h].copy.daily = date.day /\ meter[h].copy.monthly = date.month)

UsageInvariant == UsageTypeOK /\ RowsDated /\ UpdatesToday /\ CountsExact
=============================================================================
