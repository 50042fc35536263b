SPECIFICATION FairSpec
CONSTANTS
  Contacts = {c1}
  Logs = {l1, l2}
  Null = Null
  Requests = {r1}
  Operations = {"start", "pause"}
  MaxAttempts = 2
  MaxStalls = 1
  Faults = {"send", "reply", "record", "cap"}
  MaxStarts = 2
  MaxCrashes = 1
INVARIANTS
  CopiesBounded
PROPERTIES
  
  InFlightSettles
CHECK_DEADLOCK FALSE
