CONSTANTS
  Vertex = {0, 1, 2, 3, 4, 5}
  Root = 0
  adj <- RingAdj
  Delta <- RingDelta
  MaxDelta = 3
  NumT = 3
SPECIFICATION Spec
INVARIANTS
  NeverTooSmall
  NoneLost
