---------------------------- MODULE Automations -----------------------------
(***************************************************************************)
(* DateAutomationService: every midnight UTC an active automation puts a   *)
(* message on the campaign queue for each contact whose date is today's.   *)
(* The public API puts its single messages on that queue too; the worker   *)
(* looks for the campaign of a job first, and these have none.             *)
(***************************************************************************)
EXTENDS Dates, FiniteSets

CONSTANTS
  People,     \* contacts
  DateField,  \* the << month, day >> in the custom field of each, or NoField
  NoField,
  ApiSends,   \* messages of the public API
  FirstDay,   \* bounds: the days that pass
  LastDay

ASSUME DaysAssumption == IsDay(FirstDay) /\ IsDay(LastDay)

\* The query casts the value of the field to a date; leap years have all of them.
\* One that is no date fails the query, as a day on which no contact is reached.
ASSUME DateFieldAssumption ==
  \A p \in People :
    \/ DateField[p] = NoField
    \/ DateField[p] \in {date \in (1..12) \X (1..31) : date[2] <= MonthLength(2000, date[1])}

VARIABLES
  today,
  active,     \* isActive of the automation
  optedOut,
  uncampaigned,  \* jobs on the campaign queue whose campaign is no campaign
  greetings,  \* history: the greetings queued this year, and on which day
  disturbed   \* history: contacts that a pause, an opt-out or a failure concerns

automationVars == << today, active, optedOut, uncampaigned, greetings, disturbed >>

AutomationsInit ==
  /\ today = FirstDay
  /\ active = TRUE
  /\ optedOut = {}
  /\ uncampaigned = {}
  /\ greetings = {}
  /\ disturbed = {}

-----------------------------------------------------------------------------

\* Mutant: Feb 28 stands for Feb 29 in leap years as well.
DateMatchesInLeapYears(p, date) ==
  /\ DateField[p] # NoField
  /\ \/ DateField[p] = << date.m, date.d >>
     \/ DateField[p] = << 2, 29 >> /\ << date.m, date.d >> = << 2, 28 >>

\* The query, and the second one made on Feb 28 of a year that is no leap year.
DateMatches(p, date) ==
  /\ DateField[p] # NoField
  /\ \/ DateField[p] = << date.m, date.d >>
     \/ /\ DateField[p] = << 2, 29 >> /\ << date.m, date.d >> = << 2, 28 >>
        /\ ~IsLeapYear(date.y)

\* dailyAutomationCheck and processAutomation.  Without a backend at midnight, or
\* when an add fails, only some of the jobs are there, or none.
DailyCheck ==
  LET date == NextDay(today)
      matched == IF active THEN {p \in People \ optedOut : DateMatches(p, date)} ELSE {}
  IN
  /\ DateKey(today) < DateKey(LastDay)
  /\ today' = date
  /\ \E reached \in SUBSET matched :
       /\ greetings' = {g \in greetings : g.day.y = date.y} \cup {[to |-> p, day |-> date] : p \in reached}
       /\ uncampaigned' = uncampaigned \cup reached
       /\ disturbed' = disturbed \cup (matched \ reached)
  /\ UNCHANGED << active, optedOut >>

\* PATCH of isActive; other contacts than those greeted already are concerned.
ToggleAutomation ==
  /\ active' = ~active
  /\ disturbed' = People
  /\ UNCHANGED << today, optedOut, uncampaigned, greetings >>

OptOutPerson(p) ==
  /\ optedOut' = optedOut \cup {p}
  /\ disturbed' = disturbed \cup {p}
  /\ UNCHANGED << today, active, uncampaigned, greetings >>

\* sendSingleMessage.
SendSingleMessage(m) ==
  /\ uncampaigned' = uncampaigned \cup {m}
  /\ UNCHANGED << today, active, optedOut, greetings, disturbed >>

\* The campaign processor: "automation-..." and "api-..." are no UUIDs, the lookup
\* throws, and so does the catch block, on the empty id of the log.
DropUncampaigned(m) ==
  /\ m \in uncampaigned
  /\ uncampaigned' = uncampaigned \ {m}
  /\ UNCHANGED << today, active, optedOut, greetings, disturbed >>

AutomationsNext ==
  \/ DailyCheck \/ ToggleAutomation
  \/ \E p \in People : OptOutPerson(p)
  \/ \E m \in ApiSends : SendSingleMessage(m)
  \/ \E m \in People \cup ApiSends : DropUncampaigned(m)

AutomationsSpec == AutomationsInit /\ [][AutomationsNext]_automationVars
-----------------------------------------------------------------------------
(* Properties. *)

\* Every variable keeps its type, and days are days of the calendar.
AutomationsTypeOK ==
  /\ IsDay(today)
  /\ active \in BOOLEAN
  /\ optedOut \subseteq People /\ disturbed \subseteq People
  /\ uncampaigned \subseteq People \cup ApiSends
  /\ greetings \subseteq [to : People, day : DateRecord]
  /\ \A g \in greetings : IsDay(g.day) /\ g.day.y = today.y

\* The day of a year on which a contact is to be greeted.
Anniversary(p, y) ==
  IF DateField[p][2] > MonthLength(y, DateField[p][1]) THEN << 2, 28 >> ELSE DateField[p]
IsOver(day) == 31 * today.m + today.d >= 31 * day[1] + day[2]
HasDate(p)  == DateField[p] # NoField

\* "In leap years: message is sent on February 29.  In non-leap years: on February
\* 28": a year has one greeting for a contact, on its day, and an undisturbed
\* contact whose day has come has been greeted.
GreetedOnceAYear ==
  /\ \A g, h \in greetings : g.to = h.to => g = h
  /\ \A g \in greetings : << g.day.m, g.day.d >> = Anniversary(g.to, today.y)
  /\ \A p \in People \ disturbed :
       /\ HasDate(p)
       /\ IsOver(Anniversary(p, today.y))
       /\ today.y > FirstDay.y
       => \E g \in greetings : g.to = p
-----------------------------------------------------------------------------
(* What every reachable state satisfies.                                       *)

\* Who is undisturbed takes part; days of greetings have come, and years go on.
UndisturbedTakePart == \A p \in People \ disturbed : active /\ p \notin optedOut
GreetingsHaveCome   == \A g \in greetings : HasDate(g.to) /\ IsOver(<< g.day.m, g.day.d >>)

AutomationsInvariant ==
  AutomationsTypeOK /\ UndisturbedTakePart /\ GreetingsHaveCome /\ GreetedOnceAYear
=============================================================================
