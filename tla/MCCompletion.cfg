SPECIFICATION FairSpec
CONSTANTS
  Tasks = {w1, w2}
  Timed = {w1}
  Completers = {c1}
  NULL = NULL
  MaxSleep = 2
  MaxDone = 2
INVARIANTS NoLostWakeup QueuedWhileWaiting
PROPERTIES CompletionTaken TimeoutReturns
