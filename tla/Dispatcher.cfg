SPECIFICATION FairSpec
CONSTANTS
  Posted = {p1, p2}
  Timed = {e1}
  ExitTask = ExitTask
  Clients = {c1, c2}
  MaxTime = 1
  NoExpiration = NoExpiration
  NoTask = NoTask
INVARIANTS NoLostWakeup FifoAtBack NothingLeftBehind
PROPERTIES ImplementsWorkQueue ShutdownEnds
CHECK_DEADLOCK FALSE
