CONSTANTS
  LoadThreads = 3
  Files <- SomeFiles
  MaxBlocks = 3
  MaxInt = 5
SPECIFICATION Spec
INVARIANTS
  ReadOnce
  OwnersApart
  SameAsSequential
PROPERTIES
  Ends
