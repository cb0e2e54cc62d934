SPECIFICATION Spec
CONSTANTS
  Runs = {r1, r2}
  NoUrl = NoUrl
  OtherPr = OtherPr
  Tasks <- CommandTasks
  Agents <- CommandAgents
  Overlap = TRUE
  Flaky = TRUE
  MayCrash = FALSE
INVARIANT EvidenceIsReal
PROPERTY KeepsContract
CHECK_DEADLOCK FALSE
