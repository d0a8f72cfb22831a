SPECIFICATION Spec
CONSTANTS
  Blocks <- Two
  Genesis = "g"
  pprev <- TwoPrev
  nChainWork <- Unit
  Orders <- UpDown
  Bad = {{}}
  BadVotes = {}
  Threads = {t1}
  Rpcs = {}
  MaxRpcs = 0
  MaxRestarts = 1
  nStakeEnabledHeight = 9
  nTicketMaturity = 1
CHECK_DEADLOCK FALSE
INVARIANT NodesComplete
