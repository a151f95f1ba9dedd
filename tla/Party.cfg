SPECIFICATION PartySpec
CONSTANTS
  Players = {p1, p2, p3, p4}
  Parties = {b1, b2, b3}
  None = None
INVARIANT PointersMatch
PROPERTY ImplementsPartyMembership
