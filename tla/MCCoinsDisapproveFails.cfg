SPECIFICATION Spec
CONSTANTS
  Blocks <- Two
  Genesis = "g"
  pprev <- TwoPrev
  vtx <- TwoTxs
  Outpoints <- Outs
  vin <- Respent
  vout <- Creates
  Stake <- StakeTxs
  Disapproving = {"a2"}
  Bad = {"a2"}
  Mined = {}
  MaxCrashes = 0
INVARIANTS
  CoinsMatchChain
