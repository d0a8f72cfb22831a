CONSTANTS
  Half = 4
  HashWords = 2
  MaxIdx = 1
  MaxDraw = 3
  MaxReseed = 1
SPECIFICATION Spec
INVARIANTS Unbiased CanFinish NoWordTwice
CHECK_DEADLOCK FALSE
