\* A module that takes the echo of an older report for news.
SPECIFICATION Spec
CONSTANTS
  Profile <- BleProduct
  Modules <- BleOnly
  Ident <- BleIdent
  Ble <- BleOnly
  Core <- NoModules
  Lights <- NoLights
  QueueMax = 3
  MaxPending = 2
  None = None
INVARIANT BleTracksLink
