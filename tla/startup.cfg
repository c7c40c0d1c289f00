CONSTANTS
  Cpu = {0, 1, 2, 3, 4}
  NodeOf <- Nodes2
  CoreOf <- Cores3
  Idle = {0, 1}
  Arguments <- Counts
SPECIFICATION Spec
INVARIANTS
  ChosenWell
  NeverNarrowed
