SPECIFICATION FairSpec
CONSTANTS
  f1 = f1
  f2 = f2
  Fleets <- MCFleets
  MaxRestarts = 2
  MaxGen <- MCMaxGen
INVARIANTS
  TypeOK
  NothingLeftBehind
  UpTogether
  UpIsConnected
PROPERTIES
  FinalState
  StartDecided
  StopEnds
CHECK_DEADLOCK FALSE
