SPECIFICATION FairSpec
CONSTANTS
  Protocols = {p1, p2}
  MaxPlayers = 2
  None = None
INVARIANTS CountsExact NothingSentToTheDead
PROPERTIES LoginAnswered NeverStolen GhostLeaves
CHECK_DEADLOCK FALSE
