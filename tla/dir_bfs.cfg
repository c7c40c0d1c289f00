CONSTANTS
  Vertex = {0, 1, 2, 3, 4, 5, 6, 7, 8}
  Root = 0
  adj <- ChainAdj
  Delta <- ChainDelta
  MaxDelta = 4
  N = 9
  NumT = 3
  Alphas = {1, 5, 15}
  Betas = {9, 18}
  Word = 2
  Chunk = 2
  LocalSize = 1
SPECIFICATION Spec
INVARIANTS
  FrontierExact
  QueueFits
PROPERTY
  ImplementsLevelOrder
