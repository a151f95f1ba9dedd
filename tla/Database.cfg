SPECIFICATION FairSpec
CONSTANTS
  Queries = {q1}
  Coins = 1
  MaxVersion = 1
  MaxLosses = 2
  MaxTries = 2
  NoQuery = NoQuery
  NoView = NoView
INVARIANTS SavedWhole SuccessIsSaved CoinsKept AnswersHold
PROPERTIES OperationEnds
CHECK_DEADLOCK FALSE
