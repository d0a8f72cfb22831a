CONSTANTS
  Checks = {c1, c2, c3}
  Masters = {m1}
  Workers = {w1, w2}
  None = None
  nBatchSize = 2
SPECIFICATION FairSpec
INVARIANTS TodoExact ResultExact QueueUnused
PROPERTY WaitReturns
