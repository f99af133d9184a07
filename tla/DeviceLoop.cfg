SPECIFICATION FairSpec
CONSTANTS
  voltage = voltage
  frequency = frequency
  Codes <- MCCodes
  Window = 2
  Setups <- MCSetups
  Elapses = {1, 2}
  MaxBackoff = 3
  MaxTries = 3
INVARIANTS
  NoCreateStorm
  OnsetToldOnce
PROPERTIES
  ReportsResume
CHECK_DEADLOCK FALSE
