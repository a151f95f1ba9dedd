SPECIFICATION ItemsSpec
CONSTANTS
  a1 = a1
  a2 = a2
  a3 = a3
  Items <- MCItemsSet
  Kinds = {"bag", "pouch", "spear", "arrow"}
  kind <- MCkind
  Bags = {"bag", "pouch"}
  Stacks = {a1, a2, a3, "spear"}
  capacity <- MCcapacity
  weight <- MCweight
  fits <- MCfits
  StackSize = 2
  Strength = 10
  MaxItem = 3
  MaxContainer = 2
  None = None
SYMMETRY Symmetry
INVARIANTS Accounted InOnePlace WeightsAgree
PROPERTIES NotOverfilled BurdenKept
CHECK_DEADLOCK FALSE
