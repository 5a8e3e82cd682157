\* Tables in and out of dependency order, every message kind, policies and hooks.
SPECIFICATION Spec
CONSTANTS
  Docs <- AllDocs
  MaxOps = 3
  MaxInputs = 2
  MaxAddrs = 5
  GLimit = 1000000
  Messages <- AllMessages
  Permits <- AllPermits
  Policies <- AllPolicies
  HookSets <- AnyHooks
  AppResults <- AppValues
  NaN = NaN
  None = None
INVARIANTS
  TypeOK
  DataflowCorrect
  PutsAuthorized
  CachedOnlyIfCommitted
  DeviceAgreesWithCache
  OnePutPerRow
  SubscriptionsComplete
  RecursionBounded
PROPERTIES
  EvaluationTerminates
  EvaluationProgress
