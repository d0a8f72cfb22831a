CONSTANTS
  Nodes = {n1, n2, n3}
  Null = Null
  StaticDepth = 2
  MaxDepth = 5
  PushAfterPop = FALSE
SPECIFICATION Spec
INVARIANTS StackAgrees
