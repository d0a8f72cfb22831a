SPECIFICATION Spec
CONSTANTS
  Blocks <- Long
  Genesis = "g"
  pprev <- LongPrev
  nChainWork <- Unit
  Orders <- UpDown
  Bad = {{}}
  BadVotes = {}
  Threads = {t1}
  Rpcs <- Marks
  MaxRpcs = 2
  MaxRestarts = 0
  nStakeEnabledHeight = 9
  nTicketMaturity = 1
CHECK_DEADLOCK FALSE
INVARIANT NoAbort
