CONSTANTS
  Keys = {1, 2, 3, 4}
  Heights = {1, 2, 3}
  Reheight = FALSE
SPECIFICATION Spec
INVARIANTS TreapIsMap IndexInOrder HeapOrdered ByHeightComplete SnapshotUnchanged
