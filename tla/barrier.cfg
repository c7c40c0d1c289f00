CONSTANTS
  Vertex = {0, 1, 2, 3, 4}
  Root = 0
  adj <- SquareAdj
  Delta <- SquareDelta
  MaxDelta = 2
  N = 5
  NumT = 3
SPECIFICATION Spec
INVARIANTS
  FrontierExact
  LeaveTogether
PROPERTY ImplementsLevelOrder
