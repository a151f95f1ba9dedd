SPECIFICATION FairSpec
CONSTANTS
  MaxMessages = 4
  NameLength = 3
INVARIANTS NoGap QueueMoves GracefulClose CoveredByTimer
PROPERTIES ClosedEnds
CHECK_DEADLOCK FALSE
