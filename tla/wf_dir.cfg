CONSTANTS
  Vertex = {0, 1, 2}
  Root = 0
  adj <- PathAdj
  Delta <- PathDelta
  MaxDelta = 2
  N = 3
  NumT = 2
  MaxNode = 3
  BlockSize = 2
  MaxCode = 3
  Rule <- Turns
SPECIFICATION Spec
INVARIANTS
  OnePlan
  BlocksCovered
  FrontierTestExact
PROPERTY
  ImplementsLevelOrder
