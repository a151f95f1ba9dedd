SPECIFICATION FairSpec
CONSTANTS
  Queries = {q1, q2, q3, q4}
  HasCallback = {q1, q2}
  Clients = {c1, c2}
  NoQuery = NoQuery
INVARIANTS NothingLost ResultsAccounted
PROPERTIES ImplementsWorkQueue EveryQueryRuns
CHECK_DEADLOCK FALSE
