SPECIFICATION Spec
CONSTANTS
  Stages = 2
  Fanout <- MCFanout
  Count <- MCCount
  MinSuccess <- MCMinSuccess
  None = None
CHECK_DEADLOCK FALSE
INVARIANTS
  DecidedExactlyWhenLost
  NoChildForgotten
  ReceiptAgrees
PROPERTIES
  FirstClaimDecides
  NoStartOnceDecided
  RunReturns
