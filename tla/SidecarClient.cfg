SPECIFICATION FairSpec
CONSTANTS
  c1 = c1
  c2 = c2
  Callers <- MCCallers
  MaxCalls = 3
  None = None
  Drain = Drain
INVARIANTS
  TypeOK
  WireInSync
  OwnReply
  BrokenOnlyByFault
PROPERTIES
  CallsReturn
CHECK_DEADLOCK FALSE
