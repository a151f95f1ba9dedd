SPECIFICATION Spec
CONSTANTS
  Players = {a, b, c}
  Items = {bag, gold, ring}
  Bags = {bag}
  Stackable = {gold}
  MaxX = 3
  None = None
SYMMETRY Symmetry
INVARIANTS TradesStand
PROPERTIES OfferIsFinal OnlyByAgreement
