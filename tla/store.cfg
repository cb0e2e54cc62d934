SPECIFICATION Spec
CONSTANTS
  r1 = r1
  r2 = r2
  Runs <- BothRuns
  Settings <- EverySetting
  Ttl = 2
  StaleAge = 0
  RunLimit = 1
  MaxTime = 4
INVARIANTS RecentIsKept CleanupIsComplete VerdictNeedsEnd
PROPERTY LossIsConfined
SYMMETRY Symmetry
CHECK_DEADLOCK FALSE
