SPECIFICATION Spec
CONSTANTS
  Contacts = {c1, c2}
  Logs = {l1, l2}
  Null = Null
  Requests = {r1, r2}
  Operations = {"start", "pause", "cancel", "edit", "remove"}
  MaxAttempts = 2
  MaxStalls = 1
  Faults = {"send", "cap"}
  MaxStarts = 1
  MaxCrashes = 0
SYMMETRY Symmetry
INVARIANTS
  
  CompletedIsDone
CHECK_DEADLOCK FALSE
