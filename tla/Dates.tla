------------------------------- MODULE Dates --------------------------------
(***************************************************************************)
(* Dates as the Date of JavaScript does them: a date has a year y, a month *)
(* m in 1..12, a day d, and a weekday w, 0 for Sunday.                     *)
(***************************************************************************)
EXTENDS Integers

\* isLeapYear of dailyAutomationCheck.
IsLeapYear(y) == (y % 4 = 0 /\ y % 100 # 0) \/ y % 400 = 0

MonthLength(y, m) ==
  IF m = 2 THEN IF IsLeapYear(y) THEN 29 ELSE 28
  ELSE IF m \in {4, 6, 9, 11} THEN 30 ELSE 31

\* The days of the calendar.
DateRecord  == [y : Nat, m : 1..12, d : 1..31, w : 0..6]
IsDay(date) == date \in DateRecord /\ date.d <= MonthLength(date.y, date.m)

NextDay(date) ==
  LET w == (date.w + 1) % 7 IN
  IF date.d < MonthLength(date.y, date.m) THEN [y |-> date.y, m |-> date.m, d |-> date.d + 1, w |-> w]
  ELSE IF date.m < 12 THEN [y |-> date.y, m |-> date.m + 1, d |-> 1, w |-> w]
  ELSE [y |-> date.y + 1, m |-> 1, d |-> 1, w |-> w]

\* setDate(getDate() + n).
AddDays(date, n) ==
  LET After[i \in 0..n] == IF i = 0 THEN date ELSE NextDay(After[i - 1]) IN After[n]

\* setMonth(getMonth() + 1): a day the next month lacks spills into the month after.
AddMonth(date) == AddDays(date, MonthLength(date.y, date.m))

\* setDate(d) within the month of a date.
SetDay(date, d) == [y |-> date.y, m |-> date.m, d |-> d, w |-> (date.w + (d - date.d) + 35) % 7]

\* Dates in the order of time.
DateKey(date) == (date.y * 12 + date.m) * 31 + date.d
=============================================================================
