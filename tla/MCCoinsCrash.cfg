SPECIFICATION Spec
CONSTANTS
  Blocks <- Two
  Genesis = "g"
  pprev <- TwoPrev
  vtx <- TwoTxs
  Outpoints <- Outs
  vin <- Ins
  vout <- Creates
  Stake <- StakeTxs
  Disapproving = {}
  Bad = {}
  Mined = {"a2", "x2"}
  MaxCrashes = 2
INVARIANTS
  CoinsMatchChain
  DiskMatchesBest
  AlwaysStarts
  VerifiesClean
