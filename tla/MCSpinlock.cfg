CONSTANTS
  Threads = {p1, p2}
  NULL = NULL
  MaxNest = 2
SPECIFICATION Spec
INVARIANTS TypeOK Exclusive QuietEnabled
