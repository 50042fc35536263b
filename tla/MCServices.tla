----------------------------- MODULE MCServices -----------------------------
(***************************************************************************)
(* Small instances of the services that share no state: each behaviour is  *)
(* one of one of them, chosen at the start, while the others stay as they  *)
(* were.                                                                   *)
(***************************************************************************)
EXTENDS Contacts, Webhooks, Usage, Rows, Tokens, Recurrence, Automations, Analytics,
        Exports, Pages, Inbox, Live, Sessions, AbTests

CONSTANTS
  Components,  \* those that may be chosen
  r1, r2, r3, p1, p2

VARIABLE component

\* Two calls of one tab and one of another.
MCTab == r1 :> "first" @@ r2 :> "first" @@ r3 :> "second"

MCRules ==
  {[type |-> "daily", daysOfWeek |-> {}, dayOfMonth |-> 1],
   [type |-> "weekly", daysOfWeek |-> {0, 2, 3}, dayOfMonth |-> 1],
   [type |-> "weekly", daysOfWeek |-> {}, dayOfMonth |-> 1],
   [type |-> "monthly", daysOfWeek |-> {}, dayOfMonth |-> 1],
   [type |-> "monthly", daysOfWeek |-> {}, dayOfMonth |-> 28]}

\* A Monday before a short February, and the Tuesday before a leap day.
MCOrigins == {[y |-> 2023, m |-> 1, d |-> 30, w |-> 1], [y |-> 2024, m |-> 2, d |-> 27, w |-> 2]}

\* A birthday on a leap day, and none.
MCDateField == p1 :> <<2, 29>> @@ p2 :> NoField
MCFirstDay  == [y |-> 2024, m |-> 2, d |-> 26, w |-> 1]
MCLastDay   == [y |-> 2025, m |-> 3, d |-> 2, w |-> 0]

-----------------------------------------------------------------------------

Is(c) == component = c

\* Everything starts; what does not move starts in one way.
ServicesInit ==
  /\ component \in Components
  /\ ContactsInit /\ HooksInit /\ UsageInit /\ TokensInit /\ AutomationsInit
  /\ AnalyticsInit /\ ExportsInit /\ InboxInit /\ LiveInit
  /\ SessionsInit /\ AbInit
  /\ RowsInit /\ (Is("rows") \/ table = CHOOSE t \in Tables : TRUE)
  /\ RecurrenceInit
  /\ \/ Is("recurrence")
     \/ half = 0 /\ endDate = NoDate
        /\ day = (CHOOSE d \in Origins : TRUE) /\ rule = CHOOSE r \in Rules : TRUE
  /\ PagesInit
  /\ \/ Is("pages")
     \/ page = "plan" /\ key \in PlanPage.shows

Still(c, vars) == IF Is(c) THEN TRUE ELSE UNCHANGED vars

OthersStill ==
  /\ UNCHANGED component
  /\ Still("contacts", contactVars) /\ Still("webhooks", hookVars)
  /\ Still("usage", usageVars) /\ Still("rows", rowVars) /\ Still("tokens", tokenVars)
  /\ Still("recurrence", recurrenceVars) /\ Still("automations", automationVars)
  /\ Still("analytics", analyticsVars) /\ Still("exports", exportVars)
  /\ Still("pages", pageVars) /\ Still("inbox", inboxVars) /\ Still("live", liveVars)
  /\ Still("sessions", sessionVars) /\ Still("abTests", abVars)

ServicesNext ==
  \/ Is("contacts") /\ ContactsNext /\ OthersStill
  \/ Is("webhooks") /\ HooksNext /\ OthersStill
  \/ Is("usage") /\ UsageNext /\ OthersStill
  \/ Is("rows") /\ RowsNext /\ OthersStill
  \/ Is("tokens") /\ TokensNext /\ OthersStill
  \/ Is("recurrence") /\ RecurrenceNext /\ OthersStill
  \/ Is("automations") /\ AutomationsNext /\ OthersStill
  \/ Is("analytics") /\ AnalyticsNext /\ OthersStill
  \/ Is("exports") /\ ExportsNext /\ OthersStill
  \/ Is("pages") /\ PagesNext /\ OthersStill
  \/ Is("inbox") /\ InboxNext /\ OthersStill
  \/ Is("live") /\ LiveNext /\ OthersStill
  \/ Is("sessions") /\ SessionsNext /\ OthersStill
  \/ Is("abTests") /\ AbNext /\ OthersStill

servicesVars == << component, contactVars, hookVars, usageVars, rowVars, tokenVars,
                   recurrenceVars, automationVars, analyticsVars, exportVars, pageVars,
                   inboxVars, liveVars, sessionVars, abVars >>

\* The fairness of each, for the behaviours that are its own.
ServicesFairness ==
  /\ \A v \in AppEvents : WF_hookVars(Is("webhooks") /\ ListenerStep(v))
  /\ WF_hookVars(Is("webhooks") /\ PosterStep)
  /\ WF_exportVars(Is("exports") /\ AddExportJob)
  /\ WF_exportVars(Is("exports") /\ ExportStep)
  /\ WF_exportVars(Is("exports") /\ PollExport)
  /\ WF_exportVars(Is("exports") /\ SeeExport)
  /\ WF_liveVars(Is("live") /\ CountingStep) /\ WF_liveVars(Is("live") /\ HearCompleted)
  /\ WF_liveVars(Is("live") /\ ReadCampaign) /\ WF_liveVars(Is("live") /\ ShowCampaign)
  /\ WF_liveVars(Is("live") /\ ReadLogs) /\ WF_liveVars(Is("live") /\ ShowLogs)
  /\ \A i \in Instances : WF_sessionVars(Is("sessions") /\ InstanceStep(i))

ServicesSpec == ServicesInit /\ [][ServicesNext]_servicesVars

FairServicesSpec == ServicesSpec /\ ServicesFairness

\* The one that moves keeps its types.
ServicesTypeOK ==
  /\ Is("contacts") => ContactsTypeOK
  /\ Is("webhooks") => HooksTypeOK
  /\ Is("usage") => UsageTypeOK
  /\ Is("rows") => RowsTypeOK
  /\ Is("tokens") => TokensTypeOK
  /\ Is("recurrence") => RecurrenceTypeOK
  /\ Is("automations") => AutomationsTypeOK
  /\ Is("analytics") => AnalyticsTypeOK
  /\ Is("exports") => ExportsTypeOK
  /\ Is("pages") => PagesTypeOK
  /\ Is("inbox") => InboxTypeOK
  /\ Is("live") => LiveTypeOK
  /\ Is("sessions") => SessionsTypeOK
  /\ Is("abTests") => AbTypeOK
=============================================================================
