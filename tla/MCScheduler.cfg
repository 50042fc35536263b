SPECIFICATION SchedulerFairSpec
CONSTANTS
  Contacts = {c1}
  Logs = {l1}
  Null = Null
  Requests = {user, launcherRequest}
  Launcher = launcherRequest
  Operations = {"start", "pause", "cancel", "edit"}
  MaxAttempts = 1
  MaxStalls = 1
  Faults = {}
  MaxStarts = 1
  MaxCrashes = 1
  Times = {1, 2}
  MaxSchedules = 2
  LaunchFaults = TRUE
INVARIANTS
  LaunchesOnTime
PROPERTIES
  DraftsNotLaunched
  ScheduledLeaves
CHECK_DEADLOCK FALSE
