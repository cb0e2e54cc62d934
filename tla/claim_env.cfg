CONSTANTS
  Tasks <- AllTasks
  Outputs <- FewOutputs
  Pasts <- NothingPast
  Codes <- SomeCodes
  Signals <- BothSignals
  Drifts <- FewOutputs
SPECIFICATION Spec
INVARIANTS EnvIsProved
CHECK_DEADLOCK FALSE
