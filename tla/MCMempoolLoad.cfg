SPECIFICATION Spec
CONSTANTS
  Tx <- Change
  CbHeight <- Rivals
  Price <- Steady
  Hybrid = 0
  Maturity = 1
  Residence = 3
  AncestorLimit = 3
  DescendantLimit = 3
  PoolLimit = 3
  DisconnectLimit = 4
  Loads <- FromFile
  Invalidates = FALSE
  MaxHeight = 3
  BlockSize = 2
  Cleaners = 1
PROPERTY LoadReplacesOne
