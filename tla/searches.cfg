CONSTANTS
  Vertex = {0, 1, 2, 3}
  Root = 3
  adj <- KiteAdj
  Delta <- KiteDelta
  MaxDelta = 2
  N = 4
  ThreadCounts <- OneThenThree
  Repetitions = 2
SPECIFICATION FairSpec
INVARIANTS
  DistancesFinal
  LevelsInUse
  TimesNoted
PROPERTY Ends
