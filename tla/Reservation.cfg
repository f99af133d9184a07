SPECIFICATION FairSpec
CONSTANTS
  MaxEnergy = 8
  MaxPower = 9
  MaxStartIn = 5
  MaxDuration = 5
  Settings <- MCSettings
  Responses <- MCResponses
  MaxRequests = 2
  MaxResponses = 2
  MaxTime = 5
  Grace = 1
  Poll = 1
  MaxBackoff = 3
INVARIANTS
  GrantWithinRequest
  AnswersJudged
  WithdrawalKept
PROPERTIES
  WithdrawalEnds
CHECK_DEADLOCK FALSE
