SPECIFICATION Spec
CONSTANTS
  r1 = r1
  r2 = r2
  Runs <- BothRuns
  Settings <- Scanned
  Ttl = 2
  StaleAge = 0
  RunLimit = 1
  MaxTime = 3
INVARIANT MalformedIsNotActive
CHECK_DEADLOCK FALSE
