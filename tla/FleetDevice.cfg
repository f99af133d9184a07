SPECIFICATION FairSpec
CONSTANTS
  c1 = c1
  c2 = c2
  None = None
  Callers <- MCCallers
  MaxApplies = 2
  MaxStarts = 3
  MaxFaults = 3
INVARIANTS
  NoSilentReset
PROPERTIES
  NewestStands
  SetpointComesBack
CHECK_DEADLOCK FALSE
