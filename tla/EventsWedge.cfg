SPECIFICATION Spec
CONSTANTS
  a = a
  b = b
  MRIDs <- MCMRIDs
  Intervals <- MCIntervals
  None = None
  Horizon = 3
  ClockStepsBack = FALSE
PROPERTY DueReceivedStarts
