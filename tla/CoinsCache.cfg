SPECIFICATION Spec
CONSTANTS
  Outpoints = {o1, o2}
  Coins = {c1, c2}
  Spent = spent
INVARIANTS
  FlagsSound
  NothingThrown
PROPERTY
  CoinsViewSpec
