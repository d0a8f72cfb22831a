SPECIFICATION Spec
CONSTANTS
  Blocks <- Long
  Genesis = "g"
  pprev <- LongPrev
  nChainWork <- Unit
  Orders <- UpDown
  Bad = {{}}
  BadVotes = {}
  Threads = {t1}
  Rpcs = {}
  MaxRpcs = 0
  MaxRestarts = 1
  nStakeEnabledHeight = 2
  nTicketMaturity = 1
CHECK_DEADLOCK FALSE
INVARIANT NoAbort
