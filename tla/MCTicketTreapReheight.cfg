CONSTANTS
  Keys = {1, 2, 3, 4}
  Heights = {1, 2, 3}
  Reheight = TRUE
SPECIFICATION Spec
INVARIANT ByHeightComplete
