SPECIFICATION ServicesSpec
CONSTANTS
  Components = {"contacts", "webhooks", "usage", "rows", "tokens", "recurrence",
                "automations", "analytics", "exports", "pages", "inbox", "live", "sessions", "abTests"}
  r1 = r1  r2 = r2  r3 = r3  p1 = p1  p2 = p2
  Phones = {p1, p2}
  National = {p1}
  NoPhone = NoPhone
  Users = {r1, r2}
  Operations = {"create", "import", "update", "unsubscribe", "remove", "addContactsToGroup",
                "removeContactsFromGroup", "updateGroup", "deleteGroup"}
  MaxRequests = 3
  Endpoints = {e1, e2}
  Tagged = {1}
  MaxEvents = 1
  MaxHookEdits = 2
  MaxAttempts = 2
  MaxHookStalls = 1
  MaxHookCrashes = 1
  HookFaults = TRUE
  Meters = {h1, h2}
  Generators = {g1, g2}
  AiLimit = 1
  MaxDays = 1
  MaxMetered = 2
  MaxGenerations = 3
  Keys = {k1, k2}
  RowClients = {c1, c2}
  MaxRowRequests = 3
  ApiCalls = {r1, r2, r3}
  Tab <- MCTab
  AccessLife = 1
  MaxClock = 2
  Rules <- MCRules
  Origins <- MCOrigins
  MaxCampaigns = 3
  MaxMoments = 62
  MaxDuration = 1
  People = {p1, p2}
  DateField <- MCDateField
  NoField = NoField
  ApiSends = {a1}
  FirstDay <- MCFirstDay
  LastDay <- MCLastDay
  Recipients = {r1}
  MaxStarts = 2
  MaxBackfills = 1
  ExportJobs = {e1, e2}
  NoExport = NoExport
  MaxExportStalls = 1
  MaxExportCrashes = 1
  ExportFaults = TRUE
  MaxVisits = 2
  MaxMutations = 2
  Correspondents = {p1, p2}
  PageSize = 1
  MaxInbox = 3
  MaxMs = 1
  Outgoing = 2
  MaxDrops = 1
  MaxErrors = 1
  MaxReconnect = 1
  MaxInstances = 2
  MaxClicks = 3
  MaxCloses = 3
  MaxRestarts = 1
  AbRequests = {r1, r2}
  MinDelivered = 2
  MaxDelivered = 3
  MaxCompletions = 2
  MaxPolls = 1
INVARIANTS
  ServicesTypeOK
  GroupAsAsked
  EventsReachSubscribers
  CountsExact
  
  KeysStayDead
  RowsAsWanted
  ReuseExplained
  
  
  
  OwnWritesShow
  ThreadWhole
  
  OneWayToConnect
  PoolTellsTruth
  WinnerEarned
CHECK_DEADLOCK FALSE
