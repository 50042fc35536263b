SPECIFICATION DripSpec
CONSTANTS
  Contacts = {c1}
  Requests = {r1, r2}
  NoOne = NoOne
  Plans <- MCPlans
  MaxStep = 2
  MaxStalls = 1
  MaxCrashes = 1
  MaxEdits = 1
  DripFaults = TRUE
INVARIANTS
  StepsNotRepeated
  
PROPERTIES
  
  EnrollmentEnds
CHECK_DEADLOCK FALSE
