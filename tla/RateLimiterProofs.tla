------------------------- MODULE RateLimiterProofs -------------------------
(***************************************************************************)
(* What RateLimiter promises for every number of sessions, every delay and *)
(* cap, and however long the process runs.                                 *)
(***************************************************************************)
EXTENDS RateLimiter, TLAPS

\* What WorkerAt assigns is a state of the worker.
LEMMA WorkerStates ==
  ASSUME NEW pc \in {"idle", "refused", "send", "answer"}, NEW wake \in Nat,
         NEW counted \in BOOLEAN, NEW s \in Sessions
  PROVE  [pc |-> pc, wake |-> wake, counted |-> counted, session |-> s] \in LimiterWorker
BY DEF LimiterWorker

LEMMA InitLimiterInv == LimiterInit => LimiterInv
<1> SUFFICES ASSUME LimiterInit PROVE LimiterInv
  OBVIOUS
<1> USE DelayAssumption, CapAssumption, LimiterBoundsAssumption
        DEF LimiterInit, NoEntry, Working, One
<1>1. LimiterTypeOK
  <2>1. worker \in LimiterWorker
    BY WorkerStates
  <2>2. dailyCounts \in [Sessions -> Entry] /\ transmitted \in [Sessions -> Entry]
    BY DEF Entry
  <2> QED
    BY <2>1, <2>2 DEF LimiterTypeOK
<1>2. ClockInv /\ PaceInv
  BY DEF ClockInv, PaceInv
<1>3. CountInv /\ RefusalsEarned
  BY DEF CountInv, RefusalsEarned, SentToday, GetDailyCount, CountOn
<1> QED
  BY <1>1, <1>2, <1>3 DEF LimiterInv

\* An entry that gets one more is dated today and counts one more today.
LEMMA OneMoreCounted ==
  ASSUME NEW entry \in Entry, today \in Nat
  PROVE  /\ OneMore(entry) \in Entry
         /\ OneMore(entry).date = today
         /\ CountOn(OneMore(entry), today) = CountOn(entry, today) + 1
         /\ CountOn(entry, today) \in Nat
BY DEF Entry, OneMore, CountOn

\* Every step but a tick of the clock happens on one date.
SameDay == UNCHANGED << now, today >>

\* The counts of a step within a day.
LEMMA RecordSendCounts ==
  ASSUME LimiterTypeOK, NEW s \in Sessions, RecordSend(s), SameDay
  PROVE  /\ lastSendTime' \in [Sessions -> Nat] /\ dailyCounts' \in [Sessions -> Entry]
         /\ \A t \in Sessions :
              /\ lastSendTime'[t] = IF t = s THEN now ELSE lastSendTime[t]
              /\ GetDailyCount(t)' = GetDailyCount(t) + One(t = s)
              /\ dailyCounts'[t].date = IF t = s THEN today ELSE dailyCounts[t].date
<1>1. ASSUME NEW t \in Sessions
      PROVE  /\ GetDailyCount(t)' = GetDailyCount(t) + One(t = s)
             /\ dailyCounts'[t].date = IF t = s THEN today ELSE dailyCounts[t].date
  <2>1. dailyCounts[t] \in Entry /\ today \in Nat /\ GetDailyCount(t) \in Nat
    BY OneMoreCounted DEF LimiterTypeOK, GetDailyCount
  <2>2. dailyCounts'[t] = IF t = s THEN OneMore(dailyCounts[t]) ELSE dailyCounts[t]
    BY DEF LimiterTypeOK, RecordSend
  <2> QED
    BY <2>1, <2>2, OneMoreCounted DEF GetDailyCount, SameDay, One
<1>2. dailyCounts' \in [Sessions -> Entry]
  BY OneMoreCounted DEF LimiterTypeOK, RecordSend
<1> QED
  BY <1>1, <1>2 DEF RecordSend, LimiterTypeOK

\* What the counters of one session are.
LEMMA Counters ==
  ASSUME LimiterTypeOK, NEW s \in Sessions
  PROVE  /\ GetDailyCount(s) \in Nat /\ SentToday(s) \in Nat
         /\ lostReplies[s] \in Nat /\ wasted[s] \in Nat /\ granted \in Nat
         /\ lastSendTime[s] \in Nat /\ sentAt[s] \in Nat /\ unknown[s] \in BOOLEAN
         /\ now \in Nat /\ today \in Nat
         /\ worker.wake \in Nat /\ worker.session \in Sessions
BY OneMoreCounted DEF LimiterTypeOK, GetDailyCount, SentToday, LimiterWorker

(***************************************************************************)
(* Types.                                                                  *)
(***************************************************************************)

LEMMA LimiterTypes ==
  ASSUME LimiterTypeOK, [LimiterNext]_limiterVars
  PROVE  LimiterTypeOK'
<1> USE DEF LimiterTypeOK
<1>1. ASSUME NEW s \in Sessions, AcquireToken(s) PROVE LimiterTypeOK'
  <2>1. lastSendTime' \in [Sessions -> Nat] /\ dailyCounts' \in [Sessions -> Entry]
    BY <1>1, RecordSendCounts DEF AcquireToken, SameDay
  <2>2. worker' \in LimiterWorker
    <3>1. lastSendTime[s] + Delay \in Nat /\ now \in Nat /\ 0 \in Nat
      BY DelayAssumption
    <3> QED
      BY <1>1, <3>1, WorkerStates DEF AcquireToken, WorkerAt
  <2> QED
    BY <1>1, <2>1, <2>2 DEF AcquireToken
<1>2. EndJob => worker' \in LimiterWorker
  BY DEF EndJob, WorkerAt, LimiterWorker
<1>3. CASE Send
  <2>1. transmitted' \in [Sessions -> Entry]
    BY <1>3, OneMoreCounted DEF Send, LimiterWorker
  <2>2. worker' \in LimiterWorker
    BY <1>3 DEF Send, LimiterWorker
  <2> QED
    BY <1>3, <2>1, <2>2 DEF Send
<1>4. CASE Answered
  <2>1. lastSendTime' \in [Sessions -> Nat] /\ dailyCounts' \in [Sessions -> Entry]
    BY <1>4, RecordSendCounts DEF Answered, SameDay, LimiterWorker
  <2> QED
    BY <1>2, <1>4, <2>1 DEF Answered
<1>5. CASE FailRefused
  BY <1>2, <1>5 DEF FailRefused
<1>6. CASE SendRefused \/ AnswerLost
  <2>1. worker.session \in Sessions
    BY DEF LimiterWorker
  <2>2. wasted' \in [Sessions -> Nat]
    BY <1>6, <2>1 DEF SendRefused, AnswerLost
  <2>3. unknown' \in [Sessions -> BOOLEAN]
    BY <1>6, <2>1, Zenon DEF SendRefused, AnswerLost
  <2>4. lostReplies' \in [Sessions -> Nat]
    BY <1>6, <2>1 DEF SendRefused, AnswerLost
  <2> QED
    BY <1>2, <1>6, <2>2, <2>3, <2>4 DEF SendRefused, AnswerLost
<1>7. CASE Restart
  BY <1>2, <1>7, CapAssumption, LimiterBoundsAssumption DEF Restart, NoEntry, Entry
<1>8. CASE Tick
  BY <1>8 DEF Tick
<1>9. CASE UNCHANGED limiterVars
  BY <1>9 DEF limiterVars
<1> QED
  BY <1>1, <1>3, <1>4, <1>5, <1>6, <1>7, <1>8, <1>9 DEF LimiterNext

(***************************************************************************)
(* The clock and the pace.                                                 *)
(***************************************************************************)

LEMMA ClockStep ==
  ASSUME LimiterTypeOK, ClockInv, [LimiterNext]_limiterVars
  PROVE  ClockInv'
<1> USE DEF ClockInv
<1>1. ASSUME NEW s \in Sessions, AcquireToken(s) PROVE ClockInv'
  <2>1. UNCHANGED << now, today, sentAt, transmitted >>
    BY <1>1 DEF AcquireToken
  <2>2. CASE RecordSend(s)
    BY <2>1, <2>2, RecordSendCounts, Counters DEF SameDay
  <2>3. CASE UNCHANGED << lastSendTime, dailyCounts >>
    BY <2>1, <2>3
  <2> QED
    BY <1>1, <2>2, <2>3 DEF AcquireToken
<1>2. CASE Send
  <2>1. \A t \in Sessions :
          /\ sentAt'[t] = IF t = worker.session THEN now ELSE sentAt[t]
          /\ transmitted'[t].date =
               IF t = worker.session THEN today ELSE transmitted[t].date
    BY <1>2, OneMoreCounted DEF Send, LimiterTypeOK
  <2> QED
    BY <1>2, <2>1, Counters DEF Send
<1>3. CASE Answered
  BY <1>3, RecordSendCounts, Counters DEF Answered, SameDay, LimiterTypeOK, LimiterWorker
<1>4. CASE FailRefused \/ SendRefused \/ AnswerLost
  BY <1>4 DEF FailRefused, SendRefused, AnswerLost
<1>5. CASE Restart
  BY <1>5, Counters DEF Restart, NoEntry, LimiterTypeOK
<1>6. CASE Tick
  BY <1>6, DelayAssumption DEF Tick, LimiterTypeOK, Entry
<1>7. CASE UNCHANGED limiterVars
  BY <1>7 DEF limiterVars
<1> QED
  BY <1>1, <1>2, <1>3, <1>4, <1>5, <1>6, <1>7 DEF LimiterNext

LEMMA PaceStep ==
  ASSUME LimiterTypeOK, ClockInv, PaceInv, [LimiterNext]_limiterVars
  PROVE  PaceInv'
<1> USE DelayAssumption DEF PaceInv, Working
<1>1. ASSUME NEW s \in Sessions, AcquireToken(s) PROVE PaceInv'
  <2>1. ASSUME NEW t \in Sessions, ~unknown[t]
        PROVE  /\ lastSendTime'[t] >= sentAt[t]
               /\ worker'.pc = "send" /\ worker'.session = t =>
                    worker'.wake >= sentAt[t] + Delay
    BY <1>1, <2>1, RecordSendCounts, Counters
    DEF AcquireToken, SameDay, ClockInv, WorkerAt
  <2> QED
    BY <1>1, <2>1 DEF AcquireToken
<1>2. CASE Send
  BY <1>2, Counters DEF Send, LimiterTypeOK, LimiterWorker
<1>3. CASE Answered
  <2>1. \A t \in Sessions : lastSendTime'[t] >= sentAt[t] \/ unknown[t]
    BY <1>3, RecordSendCounts, Counters DEF Answered, SameDay, ClockInv
  <2> QED
    BY <1>3, <2>1 DEF Answered, EndJob, WorkerAt
<1>4. CASE FailRefused \/ SendRefused
  BY <1>4 DEF FailRefused, SendRefused, EndJob, WorkerAt
<1>5. CASE AnswerLost \/ Restart
  BY <1>5, Counters DEF AnswerLost, Restart, EndJob, WorkerAt, LimiterTypeOK
<1>6. CASE Tick \/ UNCHANGED limiterVars
  BY <1>6 DEF Tick, limiterVars
<1> QED
  BY <1>1, <1>2, <1>3, <1>4, <1>5, <1>6 DEF LimiterNext

(***************************************************************************)
(* The counts.                                                             *)
(***************************************************************************)

\* What a step does to the counts of one session, in terms of numbers only.
LEMMA CountStep ==
  ASSUME LimiterTypeOK, ClockInv, CountInv, RefusalsEarned, [LimiterNext]_limiterVars
  PROVE  CountInv' /\ RefusalsEarned'
<1> USE CapAssumption DEF Working, One
<1>8. ASSUME SameDay, UNCHANGED dailyCounts
      PROVE  \A t \in Sessions : GetDailyCount(t)' = GetDailyCount(t)
  BY <1>8 DEF SameDay, GetDailyCount
<1>9. ASSUME SameDay, UNCHANGED transmitted
       PROVE  \A t \in Sessions : SentToday(t)' = SentToday(t)
  BY <1>9 DEF SameDay, SentToday
<1>1. ASSUME NEW s \in Sessions, AcquireToken(s) PROVE CountInv' /\ RefusalsEarned'
  <2>1. \A t \in Sessions : SentToday(t)' = SentToday(t)
    BY <1>1, <1>9 DEF AcquireToken, SameDay
  <2>2. CASE RecordSend(s) /\ WorkerAt("send", s, now, TRUE)
    BY <1>1, <2>1, <2>2, RecordSendCounts, Counters
    DEF AcquireToken, SameDay, WorkerAt, CountInv, RefusalsEarned
  <2>3. CASE UNCHANGED << lastSendTime, dailyCounts >>
    BY <1>1, <2>1, <2>3, <1>8, Counters
    DEF AcquireToken, SameDay, WorkerAt, CountInv, RefusalsEarned
  <2> QED
    BY <1>1, <2>2, <2>3 DEF AcquireToken
<1>2. CASE Send
  <2>1. /\ \A t \in Sessions : GetDailyCount(t)' = GetDailyCount(t)
        /\ worker'.pc = "answer" /\ worker'.session = worker.session
    BY <1>2, <1>8 DEF Send, SameDay, LimiterTypeOK, LimiterWorker
  <2>2. \A t \in Sessions : SentToday(t)' = SentToday(t) + One(t = worker.session)
    BY <1>2, OneMoreCounted, Counters DEF Send, SentToday, LimiterTypeOK
  <2> QED
    BY <1>2, <2>1, <2>2, Counters DEF Send, CountInv, RefusalsEarned
<1>3. CASE Answered
  <2>1. \A t \in Sessions : SentToday(t)' = SentToday(t)
    BY <1>3, <1>9 DEF Answered, SameDay
  <2>2. \A t \in Sessions : GetDailyCount(t)' = GetDailyCount(t) + One(t = worker.session)
    BY <1>3, RecordSendCounts, Counters DEF Answered, SameDay, LimiterTypeOK, LimiterWorker
  <2> QED
    BY <1>3, <2>1, <2>2, Counters
    DEF Answered, EndJob, WorkerAt, CountInv, RefusalsEarned
<1>4. CASE FailRefused \/ SendRefused \/ AnswerLost
  <2>1. /\ \A t \in Sessions : SentToday(t)' = SentToday(t)
        /\ \A t \in Sessions : GetDailyCount(t)' = GetDailyCount(t)
        /\ worker'.pc = "idle"
    BY <1>4, <1>8, <1>9
    DEF FailRefused, SendRefused, AnswerLost, SameDay, EndJob, WorkerAt
  <2>2. CASE FailRefused
    BY <2>1, <2>2, Counters DEF FailRefused, CountInv, RefusalsEarned
  <2>3. CASE SendRefused
    BY <2>1, <2>3, Counters DEF SendRefused, CountInv, RefusalsEarned, LimiterTypeOK
  <2>4. CASE AnswerLost
    BY <2>1, <2>4, Counters DEF AnswerLost, CountInv, RefusalsEarned, LimiterTypeOK
  <2> QED
    BY <1>4, <2>2, <2>3, <2>4
<1>5. CASE Restart
  <2>1. /\ \A t \in Sessions : SentToday(t)' = SentToday(t)
        /\ \A t \in Sessions : GetDailyCount(t)' = 0
        /\ worker'.pc = "idle"
    BY <1>5, <1>9 DEF Restart, SameDay, EndJob, WorkerAt, GetDailyCount, CountOn, NoEntry
  <2>2. /\ granted' = granted + Cap /\ granted >= Cap
        /\ UNCHANGED << lostReplies, wasted >>
    BY <1>5 DEF Restart, CountInv
  <2>3. ASSUME NEW t \in Sessions
        PROVE  /\ SentToday(t)' - lostReplies'[t] - (granted' - Cap) <= 0
               /\ GetDailyCount(t)' = 0
    BY <2>1, <2>2, Counters DEF CountInv
  <2>4. granted' >= Cap /\ worker'.pc = "idle"
    BY <2>1, <2>2 DEF LimiterTypeOK
  <2>5. CountInv'
    BY <2>1, <2>2, <2>3, <2>4, Counters DEF CountInv
  <2>6. RefusalsEarned'
    BY <2>1, <2>2, Counters DEF RefusalsEarned
  <2> QED
    BY <2>5, <2>6
<1>6. CASE Tick
  <2>1. CASE today' = today
    BY <1>6, <2>1, <1>8, <1>9
    DEF Tick, CountInv, RefusalsEarned, SentToday, GetDailyCount
  <2>2. CASE today' = today + 1
    <3>1. \A t \in Sessions : SentToday(t)' = 0 /\ GetDailyCount(t)' = 0
      BY <1>6, <2>2, Counters
      DEF Tick, ClockInv, SentToday, GetDailyCount, CountOn, LimiterTypeOK, Entry
    <3> QED
      BY <1>6, <3>1, Counters DEF Tick, CountInv, RefusalsEarned
  <2> QED
    BY <1>6, <2>1, <2>2 DEF Tick
<1>7. CASE UNCHANGED limiterVars
  BY <1>7 DEF limiterVars, CountInv, RefusalsEarned, SentToday, GetDailyCount
<1> QED
  BY <1>1, <1>2, <1>3, <1>4, <1>5, <1>6, <1>7 DEF LimiterNext

(***************************************************************************)
(* The theorems.                                                           *)
(***************************************************************************)

\* The inductive invariant holds in every reachable state.
THEOREM LimiterInvariance == LimiterSpec => []LimiterInv
<1>1. ASSUME LimiterInv, [LimiterNext]_limiterVars PROVE LimiterInv'
  BY <1>1, LimiterTypes, ClockStep, PaceStep, CountStep DEF LimiterInv
<1> QED
  BY <1>1, InitLimiterInv, PTL DEF LimiterSpec

\* A session never exceeds its daily cap by more than what restarts and lost
\* answers made the limiter forget.
THEOREM CapIsHeld == LimiterSpec => []CapHolds
<1>1. ASSUME LimiterInv, NEW s \in Sessions
      PROVE  SentToday(s) <= granted + lostReplies[s]
  <2>1. LimiterTypeOK
    BY <1>1 DEF LimiterInv
  <2> QED
    BY <1>1, <2>1, CapAssumption, Counters DEF LimiterInv, CountInv
<1>2. LimiterInv => CapHolds
  BY <1>1 DEF CapHolds
<1> QED
  BY <1>2, LimiterInvariance, PTL

\* The limiter never counts more than two sends for a message.
THEOREM RefusalsAreEarned == LimiterSpec => []RefusalsEarned
<1>1. LimiterInv => RefusalsEarned
  BY DEF LimiterInv
<1> QED
  BY <1>1, LimiterInvariance, PTL

\* Messages of a session are a Delay apart while the limiter keeps track.
THEOREM SendsArePaced == LimiterSpec => Paced
<1>1. ASSUME LimiterInv, [LimiterNext]_limiterVars, NEW s \in Sessions,
             sentAt'[s] # sentAt[s], ~unknown[s]
      PROVE  sentAt'[s] - sentAt[s] >= Delay
  <2>1. Send
    BY <1>1 DEF LimiterNext, AcquireToken, FailRefused, SendRefused, Answered,
                AnswerLost, Restart, Tick, limiterVars
  <2>2. s = worker.session /\ sentAt'[s] = now
    BY <1>1, <2>1 DEF Send, LimiterInv, LimiterTypeOK
  <2> QED
    BY <1>1, <2>1, <2>2, Counters, DelayAssumption
    DEF Send, LimiterInv, PaceInv, Working
<1>2. LimiterInv /\ [LimiterNext]_limiterVars =>
        [\A s \in Sessions :
           sentAt'[s] # sentAt[s] => unknown[s] \/ sentAt'[s] - sentAt[s] >= Delay]_limiterVars
  BY <1>1
<1> QED
  BY <1>2, LimiterInvariance, PTL DEF LimiterSpec, Paced

(***************************************************************************)
(* The budget.                                                             *)
(***************************************************************************)

LEMMA LimiterStartsInBudget == LimiterInit => Budget!BudgetInit
BY DEF LimiterInit, Budget!BudgetInit, NoEntry

\* A send is allowed: the worker waited out the Delay and had room for it.
LEMMA SendTransmits ==
  ASSUME LimiterInv, Send
  PROVE  Budget!Transmit(worker.session)
<1> DEFINE s == worker.session
<1>1. LimiterTypeOK /\ PaceInv /\ CountInv /\ s \in Sessions
  BY DEF LimiterInv, LimiterTypeOK, LimiterWorker
<1>2. /\ worker.pc = "send" /\ now >= worker.wake
      /\ worker'.pc = "answer" /\ worker'.session = s
  BY <1>1 DEF Send, LimiterTypeOK, LimiterWorker
<1>3. unknown[s] \/ now - sentAt[s] >= Delay
  BY <1>1, <1>2, Counters, DelayAssumption DEF PaceInv, Working
<1>4. SentToday(s) < granted + lostReplies[s]
  BY <1>1, <1>2, Counters, CapAssumption DEF CountInv, Working
<1>5. SentToday(s) = Budget!SentOn(s)
  BY DEF SentToday, CountOn, Budget!SentOn
<1>6. transmitted' = [transmitted EXCEPT ![s] = [count |-> Budget!SentOn(s) + 1, date |-> today]]
  BY DEF Send, OneMore, CountOn, Budget!SentOn
<1> QED
  BY <1>2, <1>3, <1>4, <1>5, <1>6 DEF Send, Budget!Transmit

\* Every step of the limiter is a step of the budget or none.
LEMMA LimiterStepInBudget ==
  ASSUME LimiterInv, [LimiterNext]_limiterVars
  PROVE  [Budget!BudgetNext]_(Budget!budgetVars)
<1> USE DEF Budget!BudgetNext
<1>0. LimiterTypeOK /\ worker.session \in Sessions
  BY DEF LimiterInv, LimiterTypeOK, LimiterWorker
<1>1. ASSUME NEW s \in Sessions, AcquireToken(s) PROVE UNCHANGED Budget!budgetVars
  BY <1>1 DEF AcquireToken, WorkerAt, Budget!budgetVars
<1>2. CASE FailRefused \/ SendRefused
  BY <1>2 DEF FailRefused, SendRefused, EndJob, WorkerAt, Budget!budgetVars
<1>3. CASE Send
  BY <1>0, <1>3, SendTransmits
<1>4. CASE Answered
  BY <1>4 DEF Answered, EndJob, WorkerAt, Budget!ReceiveAnswer
<1>5. CASE AnswerLost
  <2>1. Budget!LoseAnswer(worker.session)
    BY <1>5 DEF AnswerLost, EndJob, WorkerAt, Budget!LoseAnswer
  <2> QED
    BY <1>0, <2>1
<1>6. CASE Restart
  BY <1>6 DEF Restart, EndJob, WorkerAt, Budget!Forget
<1>7. CASE Tick
  BY <1>7 DEF Tick, Budget!Pass
<1>8. CASE UNCHANGED limiterVars
  BY <1>8 DEF limiterVars, Budget!budgetVars
<1> QED
  BY <1>1, <1>2, <1>3, <1>4, <1>5, <1>6, <1>7, <1>8 DEF LimiterNext

\* The limiter and the worker implement the budget of SendBudget.
THEOREM LimiterWithinBudget == LimiterSpec => WithinBudget
BY LimiterStartsInBudget, LimiterStepInBudget, LimiterInvariance, PTL
DEF LimiterSpec, WithinBudget, Budget!BudgetSpec
=============================================================================
