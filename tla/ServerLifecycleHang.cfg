SPECIFICATION FairSpec
CONSTANTS
  Players = {gm, p1}
  Staff = {gm}
  Nobody = Nobody
  NoTask = NoTask
  MaxQueue = 2
PROPERTIES
  ServerEnds
CHECK_DEADLOCK FALSE
