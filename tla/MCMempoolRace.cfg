SPECIFICATION Spec
CONSTANTS
  Tx <- Change
  CbHeight <- Rivals
  Price <- Rising
  Hybrid = 0
  Maturity = 1
  Residence = 3
  AncestorLimit = 3
  DescendantLimit = 3
  PoolLimit = 3
  DisconnectLimit = 4
  Loads = {}
  Invalidates = FALSE
  MaxHeight = 2
  BlockSize = 2
  Cleaners = 1
INVARIANT AcceptNeverFails
