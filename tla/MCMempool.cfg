SPECIFICATION Spec
CONSTANTS
  Tx <- Chained
  CbHeight <- Rivals
  Price <- Late
  Hybrid = 0
  Maturity = 2
  Residence = 3
  AncestorLimit = 3
  DescendantLimit = 2
  PoolLimit = 3
  DisconnectLimit = 4
  Loads <- Pair
  Invalidates = TRUE
  MaxHeight = 3
  BlockSize = 2
  Cleaners = 1
INVARIANT PackagesMatchLinks
INVARIANT LinksMatchInputs
INVARIANT EntriesSpendable
INVARIANT FundingFirst
INVARIANT TicketsCurrent
