CONSTANTS
  Tasks <- TwoTasks
  Tokens <- TwoTokens
  Limits <- FewLimits
  DefaultLimit = 3
  MaxOld = 2
SPECIFICATION Spec
INVARIANT PlanAddsUp
PROPERTY ProfileIsFull
