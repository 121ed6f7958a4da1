CONSTANTS
  Tasks = {worker, c1, c2}
  NULL = NULL
  MaxSleep = 1
  Worker = worker
  Timer = timer0
  Works = {w, d}
  Delayed = {d}
  Submitters = {c1}
  Flushers = {c2}
  MaxInsert = 2
  MaxDepth = 2
SPECIFICATION Spec
INVARIANT SetWhilePending
CHECK_DEADLOCK FALSE
