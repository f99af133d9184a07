SPECIFICATION SessionFairSpec
CONSTANTS
  a = a
  MRIDs <- MCMRIDs
  Intervals <- MCIntervals
  ServerLists <- MCServerLists
  MaxChanges = 0
  Masks <- MCMasks
  None = None
  Horizon = 3
  ClockStepsBack = FALSE
PROPERTY PollingGoesOn
