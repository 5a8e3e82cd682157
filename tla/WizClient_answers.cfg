\* Every call, against a bulb that others switch and that is never silent.
SPECIFICATION Spec
CONSTANTS
  Attempts = 2
  MaxIgnored = 1
  NetMax = 1
  Ops <- AllOps
  Factory <- Bulb
  Reports <- WithoutDimming
  Strays <- Sync
  Touches <- WallSwitch
  None = None
PROPERTIES
  AckedMeansApplied
  ReadIsCurrent
  CallsReturn
  CallProgress
