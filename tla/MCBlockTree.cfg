SPECIFICATION Spec
CONSTANTS
  Blocks <- Long
  Genesis = "g"
  pprev <- LongPrev
  nChainWork <- Unit
  Orders <- UpDown
  Bad = {{"a1"}, {"a2"}, {"b1"}}
  BadVotes = {"a3"}
  Threads = {t1}
  Rpcs <- Beside
  MaxRpcs = 2
  MaxRestarts = 1
  nStakeEnabledHeight = 9
  nTicketMaturity = 1
CHECK_DEADLOCK FALSE
INVARIANT CheckBlockIndex
INVARIANT BestChainActive
INVARIANT ActiveHasStakeNode
