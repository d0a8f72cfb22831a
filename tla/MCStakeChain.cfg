CONSTANTS
  MaxTicket = 13
  Tickets <- MCTickets
  IVs = {0, 1}
  Draw <- MCDraw
  PurchaseSets <- MCPurchaseSets
  nTicketsPerBlock = 3
  nTicketMaturity = 1
  nTicketExpiry = 2
  nStakeEnabledHeight = 2
  nStakeValidationHeight = 3
  nMaxFreshStakePerBlock = 5
  MaxHeight = 5
SPECIFICATION Spec
INVARIANTS
  TypeOK
  SpendsAreMature
  FlagsMatchTreaps
  TicketsConserved
  WinnersAreLive
  SpentOnce
  LiveWithinExpiry
  UndoRestoresTreaps UndoRestoresLottery
PROPERTY LifecycleSpec
