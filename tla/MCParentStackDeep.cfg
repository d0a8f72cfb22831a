CONSTANTS
  Nodes = {n1, n2}
  Null = Null
  StaticDepth = 2
  MaxDepth = 4
  PushAfterPop = TRUE
SPECIFICATION Spec
INVARIANT StackAgrees
