SPECIFICATION ReportSpec
CONSTANTS
  Runs = {r1}
  NoUrl = NoUrl
  OtherPr = OtherPr
  NoPayload = NoPayload
  Payloads <- SomePayloads
  Tasks <- EveryTask
  Agents <- EveryAgent
  Overlap = FALSE
  Flaky = TRUE
  MayCrash = TRUE
INVARIANTS TypeOK TimeoutIsFailure DoneIsEarned PrIsNotLost OkHasEvidence ManifestIsHonest
INVARIANTS ReportsAgree EventIsEarned ProjectionAgrees AskedIsKept OutcomeIsTrue
PROPERTIES PrIsGuarded RunsEnd
CHECK_DEADLOCK FALSE
