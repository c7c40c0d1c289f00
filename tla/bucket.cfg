CONSTANTS
  Value = {u, v}
  Reader = {r1, r2}
  Junk = junk
  MaxPush = 5
SPECIFICATION Spec
INVARIANTS
  ArraysAgree
  AllFreed
PROPERTY ImplementsLog
