SPECIFICATION Spec
CONSTANTS
  Tasks <- TwoTasks
  Attempts = 2
  Urls <- SomeUrls
  NoUrl = NoUrl
  SafeName <- ItsName
  Outputs <- SomeOutputs
  Order <- InOrder
  Total = 2
  MaxReceipts = 2
INVARIANTS LatestIsSeen ReplaysAreEqual
PROPERTY KeepsPromise
CHECK_DEADLOCK FALSE
