SPECIFICATION LimiterSpec
CONSTANTS
  Sessions = {s1, s2}
  Delay = 2
  Cap = 2
  MaxTime = 5
  MaxCrashes = 1
SYMMETRY Symmetry
INVARIANTS
  RefusalsEarned

  
CHECK_DEADLOCK FALSE
