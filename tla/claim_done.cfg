SPECIFICATION Spec
CONSTANTS
  Runs = {r1}
  NoUrl = NoUrl
  OtherPr = OtherPr
  Tasks <- CommandTasks
  Agents <- SomeAgents
  Overlap = FALSE
  Flaky = FALSE
  MayCrash = FALSE
INVARIANT DoneMeansSuccess
CHECK_DEADLOCK FALSE
