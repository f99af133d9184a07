SPECIFICATION SessionSpec
CONSTANTS
  a = a
  MRIDs <- MCMRIDs
  Intervals <- MCIntervals
  ServerLists <- MCServerLists
  MaxChanges = 2
  Masks <- MCMasks
  None = None
  Horizon = 3
  ClockStepsBack = FALSE
PROPERTY RejectedNotCancelled
