\* An acyclic table in which the app's result is not a number.
SPECIFICATION Spec
CONSTANTS
  Docs <- AppChainDocs
  MaxOps = 3
  MaxInputs = 2
  MaxAddrs = 5
  GLimit = 1000000
  Messages <- SensorReports
  Permits <- AllPermits
  Policies <- NoPolicies
  HookSets <- BothHooks
  AppResults <- AppNaN
  NaN = NaN
  None = None
INVARIANT RecursionBounded
