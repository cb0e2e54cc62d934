CONSTANTS
  Tasks <- AllTasks
  Outputs <- ManyOutputs
  Pasts <- ManyPasts
  Codes <- SomeCodes
  Signals <- BothSignals
  Drifts <- FewOutputs
SPECIFICATION Spec
INVARIANTS VerifiedIsWhatRan TaskHasTheLastWord ClassifiersAgree
CHECK_DEADLOCK FALSE
