SPECIFICATION Spec
CONSTANTS
  a = a
  b = b
  MRIDs <- MCMRIDs
  Intervals <- MCIntervals
  None = None
  Horizon = 4
  ClockStepsBack = TRUE
INVARIANTS
  TypeOK
  RejectedNeverTracked
  TrackedStillListed
  StartedNotQueued
  NothingOverdue
  AnswersMatchState
PROPERTIES
  AnswersLegal
