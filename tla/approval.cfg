CONSTANTS
  SoftGates <- Soft
  HardGates <- Hard
  Requests <- OneRequest
  Options <- SomeOptions
  NoPacket = NoPacket
  MaxHistory = 1
  MaxPlans = 1
  Repos <- OneRepo
  MaxManifest = 2
  MaxRuns = 1
  MaxCapsules = 2
SPECIFICATION MCSpec
INVARIANTS PlanIsEarned BundleAgrees ReplayKeepsVerdict
CHECK_DEADLOCK FALSE
