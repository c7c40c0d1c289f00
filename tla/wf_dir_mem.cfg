CONSTANTS
  Vertex = {0, 1, 2, 3}
  Root = 0
  adj <- PathAdj
  Delta <- PathDelta
  MaxDelta = 3
  N = 4
  NumT = 2
  BlockSize = 4
  MaxCode = 2
  Rule <- ReuseRule
SPECIFICATION Spec
INVARIANTS
  OnePlan
  ReusedWhenOver
  FrontierTestExact
  BlocksCovered
PROPERTIES
  OnlyForward
  ImplementsLevelOrder
