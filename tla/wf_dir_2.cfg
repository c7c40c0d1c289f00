CONSTANTS
  Vertex = {0, 1, 2, 3, 4}
  Root = 0
  adj <- KiteAdj
  Delta <- KiteDelta
  MaxDelta = 3
  N = 5
  NumT = 2
  Alphas = {1, 14}
  B = 2
SPECIFICATION Spec
INVARIANTS
  OneDirection
  ReturnedExact
