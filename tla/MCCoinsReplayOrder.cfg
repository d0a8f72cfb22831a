SPECIFICATION Spec
CONSTANTS
  Blocks <- Two
  Genesis = "g"
  pprev <- TwoPrev
  vtx <- TwoTxs
  Outpoints <- Outs
  vin <- Funded
  vout <- Creates
  Stake <- StakeTxs
  Disapproving = {}
  Bad = {}
  Mined = {}
  MaxCrashes = 1
INVARIANTS
  CoinsMatchChain
