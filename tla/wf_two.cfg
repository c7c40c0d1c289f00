CONSTANTS
  Edges <- SquareEdges
  adj <- SquareAdj
  Delta <- SquareDelta
  Vertex = {1, 2, 3, 4, 5}
  Root = 1
  MaxDelta = 2
  NumT = 2
  MaxNode = 4
  Alone = 1
SPECIFICATION LoneSpec
INVARIANTS
  IInv
  BucketsSound
  FirstReturnExact
  NoneLost
  ListComplete
PROPERTIES
  ImplementsLevelOrder
  LoneReturns
