---------------------------- MODULE RateLimiter ----------------------------
(***************************************************************************)
(* RateLimiterService and the campaign worker that asks it for tokens, one *)
(* job at a time.  Its two maps live in the memory of the backend process. *)
(* The other senders of a session (inbox, drip, auto-reply, public API) do *)
(* not ask it and are not here.                                            *)
(***************************************************************************)
EXTENDS Integers

CONSTANTS
  Sessions,    \* WhatsApp sessions campaigns send through
  Delay,       \* requiredDelay: the larger of MIN_DELAY_MS and DEFAULT_DELAY_MS
  Cap,         \* DEFAULT_DAILY_CAP
  MaxTime,     \* bound: the clock
  MaxCrashes   \* bound: restarts of the backend process

ASSUME DelayAssumption == Delay \in Nat
ASSUME CapAssumption == Cap \in Nat \ {0}
ASSUME LimiterBoundsAssumption == MaxTime \in Nat /\ MaxCrashes \in Nat

VARIABLES
  now,           \* Date.now()
  today,         \* todayUtc()
  lastSendTime,  \* the map; 0 where it has no entry, as acquireToken reads it
  dailyCounts,   \* the map; NoEntry where it has none
  worker,        \* the campaign worker between acquireToken and its answer
  crashes,       \* restarts so far
  transmitted,   \* history: messages sent, with the date of the last one
  sentAt,        \* history: when the last message was sent
  unknown,       \* history: the last message's answer or the maps were lost
  lostReplies,   \* history: messages sent whose answer was lost
  wasted,        \* history: tokens counted for sends that were refused
  granted        \* history: one Cap for each life of the process

limiterVars == << now, today, lastSendTime, dailyCounts, worker, crashes,
                  transmitted, sentAt, unknown, lostReplies, wasted, granted >>

NoEntry == [count |-> 0, date |-> 0]
Entry == [count : Nat, date : Nat]

\* "send": waiting for wake, then fetching; "answer": the message is out;
\* counted: acquireToken has recorded it already.
LimiterWorker == [pc : {"idle", "refused", "send", "answer"}, wake : Nat,
                  counted : BOOLEAN, session : Sessions]

\* The process starts more than a Delay after the epoch.
LimiterInit ==
  /\ now = Delay
  /\ today = 0
  /\ lastSendTime = [s \in Sessions |-> 0]
  /\ dailyCounts = [s \in Sessions |-> NoEntry]
  /\ \E s \in Sessions :
       worker = [pc |-> "idle", wake |-> 0, counted |-> FALSE, session |-> s]
  /\ crashes = 0
  /\ transmitted = [s \in Sessions |-> NoEntry]
  /\ sentAt = [s \in Sessions |-> 0]
  /\ unknown = [s \in Sessions |-> FALSE]
  /\ lostReplies = [s \in Sessions |-> 0]
  /\ wasted = [s \in Sessions |-> 0]
  /\ granted = Cap

-----------------------------------------------------------------------------

\* An entry counts on its own date only.
CountOn(entry, date) == IF entry.date = date THEN entry.count ELSE 0

OneMore(entry) == [count |-> CountOn(entry, today) + 1, date |-> today]

GetDailyCount(s) == CountOn(dailyCounts[s], today)

SentToday(s) == CountOn(transmitted[s], today)

RecordSend(s) ==
  /\ lastSendTime' = [lastSendTime EXCEPT ![s] = now]
  /\ dailyCounts' = [dailyCounts EXCEPT ![s] = OneMore(dailyCounts[s])]

WorkerAt(pc, s, wake, counted) ==
  worker' = [pc |-> pc, wake |-> wake, counted |-> counted, session |-> s]

\* Mutant: acquireToken lets every send below the cap pass at once.
AcquireTokenUnpaced(s) ==
  /\ worker.pc = "idle"
  /\ GetDailyCount(s) < Cap
  /\ RecordSend(s)
  /\ WorkerAt("send", s, now, TRUE)
  /\ UNCHANGED << now, today, crashes, transmitted, sentAt, unknown, lostReplies,
                  wasted, granted >>

\* acquireToken: refuse, pass and record at once, or name the time to wait.
AcquireToken(s) ==
  /\ worker.pc = "idle"
  /\ \/ /\ GetDailyCount(s) >= Cap
        /\ WorkerAt("refused", s, 0, FALSE)
        /\ UNCHANGED << lastSendTime, dailyCounts >>
     \/ /\ GetDailyCount(s) < Cap
        /\ now - lastSendTime[s] >= Delay
        /\ RecordSend(s)
        /\ WorkerAt("send", s, now, TRUE)
     \/ /\ GetDailyCount(s) < Cap
        /\ now - lastSendTime[s] < Delay
        /\ WorkerAt("send", s, lastSendTime[s] + Delay, FALSE)
        /\ UNCHANGED << lastSendTime, dailyCounts >>
  /\ UNCHANGED << now, today, crashes, transmitted, sentAt, unknown, lostReplies,
                  wasted, granted >>

EndJob == WorkerAt("idle", worker.session, 0, FALSE)

\* DAILY_CAP_EXCEEDED fails the message.
FailRefused ==
  /\ worker.pc = "refused"
  /\ EndJob
  /\ UNCHANGED << now, today, lastSendTime, dailyCounts, crashes, transmitted,
                  sentAt, unknown, lostReplies, wasted, granted >>

\* The wait is over, the request goes out and the session sends the message.
Send ==
  /\ worker.pc = "send" /\ now >= worker.wake
  /\ LET s == worker.session IN
     /\ transmitted' = [transmitted EXCEPT ![s] = OneMore(transmitted[s])]
     /\ sentAt' = [sentAt EXCEPT ![s] = now]
     /\ unknown' = [unknown EXCEPT ![s] = FALSE]
  /\ worker' = [worker EXCEPT !.pc = "answer"]
  /\ UNCHANGED << now, today, lastSendTime, dailyCounts, crashes, lostReplies,
                  wasted, granted >>

\* Mutant: the send is recorded before the answer is looked at.
SendRefusedRecorded ==
  /\ worker.pc = "send" /\ now >= worker.wake
  /\ RecordSend(worker.session)
  /\ EndJob
  /\ UNCHANGED << now, today, crashes, transmitted, sentAt, unknown, lostReplies,
                  wasted, granted >>

\* The session-manager refuses or cannot be reached: a recorded token is spent.
SendRefused ==
  /\ worker.pc = "send" /\ now >= worker.wake
  /\ LET s == worker.session IN
     wasted' = IF worker.counted THEN [wasted EXCEPT ![s] = wasted[s] + 1] ELSE wasted
  /\ EndJob
  /\ UNCHANGED << now, today, lastSendTime, dailyCounts, crashes, transmitted,
                  sentAt, unknown, lostReplies, granted >>

\* The answer arrives and the send is recorded, once more if it was counted.
Answered ==
  /\ worker.pc = "answer"
  /\ RecordSend(worker.session)
  /\ EndJob
  /\ UNCHANGED << now, today, crashes, transmitted, sentAt, unknown, lostReplies,
                  wasted, granted >>

\* The answer is lost: fetch throws and the limiter hears nothing.
AnswerLost ==
  /\ worker.pc = "answer"
  /\ LET s == worker.session IN
     /\ unknown' = [unknown EXCEPT ![s] = TRUE]
     /\ lostReplies' = [lostReplies EXCEPT ![s] = lostReplies[s] + 1]
  /\ EndJob
  /\ UNCHANGED << now, today, lastSendTime, dailyCounts, crashes, transmitted,
                  sentAt, wasted, granted >>

\* The backend restarts with empty maps.
Restart ==
  /\ crashes < MaxCrashes
  /\ crashes' = crashes + 1
  /\ lastSendTime' = [s \in Sessions |-> 0]
  /\ dailyCounts' = [s \in Sessions |-> NoEntry]
  /\ unknown' = [s \in Sessions |-> TRUE]
  /\ granted' = granted + Cap
  /\ EndJob
  /\ UNCHANGED << now, today, transmitted, sentAt, lostReplies, wasted >>

\* The clock advances; midnight may fall on any tick.
Tick ==
  /\ now < MaxTime
  /\ now' = now + 1
  /\ today' \in {today, today + 1}
  /\ UNCHANGED << lastSendTime, dailyCounts, worker, crashes, transmitted, sentAt,
                  unknown, lostReplies, wasted, granted >>

LimiterNext ==
  \/ \E s \in Sessions : AcquireToken(s)
  \/ FailRefused \/ Send \/ SendRefused \/ Answered \/ AnswerLost
  \/ Restart \/ Tick

LimiterSpec == LimiterInit /\ [][LimiterNext]_limiterVars
-----------------------------------------------------------------------------
(* Properties. *)

LimiterTypeOK ==
  /\ now \in Nat /\ today \in Nat /\ crashes \in 0..MaxCrashes /\ granted \in Nat
  /\ lastSendTime \in [Sessions -> Nat]
  /\ dailyCounts \in [Sessions -> Entry]
  /\ worker \in LimiterWorker
  /\ transmitted \in [Sessions -> Entry]
  /\ sentAt \in [Sessions -> Nat]
  /\ unknown \in [Sessions -> BOOLEAN]
  /\ lostReplies \in [Sessions -> Nat]
  /\ wasted \in [Sessions -> Nat]

\* Two campaign messages of a session are a Delay apart, unless the answer of
\* the first or the limiter's memory was lost.
Paced ==
  [][\A s \in Sessions :
       sentAt'[s] # sentAt[s] => unknown[s] \/ sentAt'[s] - sentAt[s] >= Delay]_limiterVars

\* A session sends at most Cap campaign messages on a date, and one more for
\* each lost answer and another Cap for each restart.
CapHolds == \A s \in Sessions : SentToday(s) <= granted + lostReplies[s]

Working(s, pc) == worker.pc = pc /\ worker.session = s

One(condition) == IF condition THEN 1 ELSE 0

\* The count that refuses messages is at most twice the messages sent, plus the
\* tokens refused sends wasted and the one answer that midnight left behind.
RefusalsEarned ==
  \A s \in Sessions :
    GetDailyCount(s) + One(Working(s, "answer"))
      <= 2 * SentToday(s) + wasted[s] + 1 + One(Working(s, "send") /\ worker.counted)

-----------------------------------------------------------------------------
(* The promise. *)

Budget == INSTANCE SendBudget WITH
  clock <- now, date <- today, budget <- granted, slack <- lostReplies,
  sent <- transmitted, last <- sentAt, blind <- unknown,
  open <- IF worker.pc = "answer" THEN {worker.session} ELSE {}

\* The limiter and the worker implement the budget: every step of theirs is one of
\* its steps, or none.
WithinBudget == Budget!BudgetSpec

-----------------------------------------------------------------------------
(* The inductive invariant. *)

\* Nothing is dated in the future, and the clock has passed the first Delay.
ClockInv ==
  /\ now >= Delay
  /\ \A s \in Sessions :
       /\ lastSendTime[s] <= now /\ sentAt[s] <= now
       /\ dailyCounts[s].date <= today /\ transmitted[s].date <= today

\* Unless it lost track, the limiter knows a time no earlier than the last
\* message's, and the worker waits for a Delay after that message.
PaceInv ==
  \A s \in Sessions : ~unknown[s] =>
    /\ ~Working(s, "answer") => lastSendTime[s] >= sentAt[s]
    /\ Working(s, "send") => worker.wake >= sentAt[s] + Delay

\* Of the messages sent today all are counted but those the limiter may have
\* lost track of and the one that awaits its answer; and a worker that got a
\* token leaves room for its message.
CountInv ==
  /\ granted >= Cap
  /\ \A s \in Sessions :
       LET surplus == SentToday(s) - lostReplies[s] - (granted - Cap) IN
       /\ surplus <= Cap
       /\ Working(s, "send") => surplus < Cap
       /\ surplus <= GetDailyCount(s) + One(Working(s, "answer"))

LimiterInv == LimiterTypeOK /\ ClockInv /\ PaceInv /\ CountInv /\ RefusalsEarned
=============================================================================
