\* Two WiFi devices and a misconfigured module: the level-triggered poll against its own echoes.
SPECIFICATION Spec
CONSTANTS
  Profile <- WifiProduct
  Modules <- WifiAndStray
  Ident <- WifiIdent
  Ble <- NoModules
  Core <- NoModules
  Lights <- BothLights
  QueueMax = 2
  MaxPending = 2
  None = None
PROPERTIES
  WifiConverges
  AgreementKept
