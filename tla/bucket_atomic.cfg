CONSTANTS
  Value = {u}
  Reader = {r1}
  Junk = junk
  MaxPush = 3
SPECIFICATION AtomicSpec
INVARIANT ReadsWritten
