----------------------------- MODULE SendBudget -----------------------------
(***************************************************************************)
(* What rate limiting promises of a session's campaign messages, with      *)
(* nothing said of maps, tokens and waits: a message goes out a Delay      *)
(* after the last one, and while the session's budget for the date is not  *)
(* spent.  The budget is Cap; a lost answer adds one message to it, a      *)
(* restart Cap, and either lets the next message out at once.              *)
(***************************************************************************)
EXTENDS Integers

CONSTANTS Sessions, Delay, Cap

VARIABLES
  clock, date,
  budget,   \* messages each session may send on a date, but for lost answers
  slack,    \* for each session, the answers lost
  sent,     \* messages sent, and the date they are counted on
  last,     \* when the last message of each session went out
  blind,    \* sessions whose next message need not wait
  open      \* the session whose message awaits its answer, or none

budgetVars == << clock, date, budget, slack, sent, last, blind, open >>

SentOn(s) == IF sent[s].date = date THEN sent[s].count ELSE 0

BudgetInit ==
  /\ clock = Delay /\ date = 0
  /\ budget = Cap
  /\ slack = [s \in Sessions |-> 0]
  /\ sent = [s \in Sessions |-> [count |-> 0, date |-> 0]]
  /\ last = [s \in Sessions |-> 0]
  /\ blind = [s \in Sessions |-> FALSE]
  /\ open = {}

Transmit(s) ==
  /\ open = {} /\ open' = {s}
  /\ blind[s] \/ clock - last[s] >= Delay
  /\ SentOn(s) < budget + slack[s]
  /\ sent' = [sent EXCEPT ![s] = [count |-> SentOn(s) + 1, date |-> date]]
  /\ last' = [last EXCEPT ![s] = clock]
  /\ blind' = [blind EXCEPT ![s] = FALSE]
  /\ UNCHANGED << clock, date, budget, slack >>

ReceiveAnswer ==
  /\ open # {} /\ open' = {}
  /\ UNCHANGED << clock, date, budget, slack, sent, last, blind >>

LoseAnswer(s) ==
  /\ open = {s} /\ open' = {}
  /\ slack' = [slack EXCEPT ![s] = slack[s] + 1]
  /\ blind' = [blind EXCEPT ![s] = TRUE]
  /\ UNCHANGED << clock, date, budget, sent, last >>

Forget ==
  /\ open' = {}
  /\ budget' = budget + Cap
  /\ blind' = [s \in Sessions |-> TRUE]
  /\ UNCHANGED << clock, date, slack, sent, last >>

Pass ==
  /\ clock' = clock + 1
  /\ date' \in {date, date + 1}
  /\ UNCHANGED << budget, slack, sent, last, blind, open >>

BudgetNext ==
  \/ \E s \in Sessions : Transmit(s) \/ LoseAnswer(s)
  \/ ReceiveAnswer \/ Forget \/ Pass

BudgetSpec == BudgetInit /\ [][BudgetNext]_budgetVars
=============================================================================
