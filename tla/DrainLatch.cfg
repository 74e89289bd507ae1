SPECIFICATION Spec
CONSTANTS
  Tolerance = 2
  StableTurn = TRUE
  MaxOpen = 1
  MaxCompactions = 2
INVARIANT TurnsBalance
