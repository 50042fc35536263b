SPECIFICATION Spec
CONSTANTS
  Contacts = {c1}
  Logs = {l1, l2}
  Null = Null
  Requests = {r1}
  Operations = {"start", "pause"}
  MaxAttempts = 2
  MaxStalls = 1
  Faults = {"send", "reply", "record", "db"}
  MaxStarts = 2
  MaxCrashes = 0
SYMMETRY Symmetry
INVARIANTS
  SentCountSound
  
CHECK_DEADLOCK FALSE
