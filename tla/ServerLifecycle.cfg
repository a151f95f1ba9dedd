SPECIFICATION FairSpec
CONSTANTS
  Players = {gm, p1}
  Staff = {gm}
  Nobody = Nobody
  NoTask = NoTask
  MaxQueue = 2
INVARIANTS ClosedForPlayers SavedAtTheEnd
PROPERTIES ServingEnds
CHECK_DEADLOCK FALSE
