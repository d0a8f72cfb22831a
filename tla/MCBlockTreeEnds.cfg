SPECIFICATION FairSpec
CONSTANTS
  Blocks <- Fork
  Genesis = "g"
  pprev <- ForkPrev
  nChainWork <- Unit
  Orders <- UpDown
  Bad = {{"a2"}, {"b1"}}
  BadVotes = {}
  Threads = {t1, t2}
  Rpcs <- Every
  MaxRpcs = 1
  MaxRestarts = 0
  nStakeEnabledHeight = 9
  nTicketMaturity = 1
CHECK_DEADLOCK FALSE
INVARIANT ChainsComplete
PROPERTY ActivationEnds
