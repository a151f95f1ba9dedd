SPECIFICATION FairSpec
CONSTANTS
  Tasks = {t1, t2}
  Clients = {c1, c2}
  MaxEventId = 2
  MaxTime = 3
  Forever = Forever
  NoTask = NoTask
INVARIANTS SleepsUntilEarliest
PROPERTIES ImplementsTimerService EveryEventLeaves
CHECK_DEADLOCK FALSE
