SPECIFICATION Spec
CONSTANTS
  self = self
  d1 = d1
  d2 = d2
  Self = self
  Devices <- MCDevices
  Configs <- MCConfigs
  Capabilities <- MCCapabilities
  EndDevices <- MCEndDevices
  Programs <- MCPrograms
INVARIANTS
  RequestsInOrder
  LeavesNothingBehind
CHECK_DEADLOCK FALSE
