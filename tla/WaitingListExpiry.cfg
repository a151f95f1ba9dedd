SPECIFICATION Spec
CONSTANTS
  Players = {p1, p2, p3}
  Premium = {p1}
  Privileged = {}
  MaxPlayers = 1
  MaxDrift = 2
PROPERTY ExpiredAreDropped
