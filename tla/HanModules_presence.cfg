\* Two BLE devices and the core: reports, late requests and echoes interleave.
SPECIFICATION Spec
CONSTANTS
  Profile <- BleProduct
  Modules <- BleAndCore
  Ident <- BleCoreIdent
  Ble <- BleOnly
  Core <- CoreOnly
  Lights <- NoLights
  QueueMax = 2
  MaxPending = 2
  None = None
INVARIANTS
  ViewsAgree
  NoOrphanWait
  RosterSound
  OwnSlice
