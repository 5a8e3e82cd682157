\* A denied report followed by an authorized one with the same value.
SPECIFICATION Spec
CONSTANTS
  Docs <- ButtonDocs
  MaxOps = 3
  MaxInputs = 2
  MaxAddrs = 5
  GLimit = 1000000
  Messages <- AllMessages
  Permits <- AllPermits
  Policies <- NoPolicies
  HookSets <- BothHooks
  AppResults <- AppValues
  NaN = NaN
  None = None
INVARIANT AuthorizedNotSwallowed
