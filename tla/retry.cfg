SPECIFICATION Spec
CONSTANTS
  Runs = {r1, r2}
  NoUrl = NoUrl
  OtherPr = OtherPr
  Tasks <- NoChangeTask
  Agents <- SomeAgents
  Overlap = FALSE
  Flaky = FALSE
  MayCrash = TRUE
SYMMETRY AnyRun
INVARIANTS OneCommentPerKind FailureIsAnnounced
CHECK_DEADLOCK FALSE
