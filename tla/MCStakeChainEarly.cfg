CONSTANTS
  MaxTicket = 13
  Tickets <- MCTickets
  IVs = {0, 1}
  Draw <- MCDraw
  PurchaseSets <- MCPurchaseSets
  nTicketsPerBlock = 3
  nTicketMaturity = 1
  nTicketExpiry = 2
  nStakeEnabledHeight = 3
  nStakeValidationHeight = 4
  nMaxFreshStakePerBlock = 5
  MaxHeight = 4
SPECIFICATION Spec
INVARIANT EveryTicketMatures
