CONSTANTS
  NULL = NULL
  Drivers = {d1, d2}
  Softirqd = sd
  Callers = {}
  Disablers = {d1}
  Killers = {}
  Tasklets = {t1, t2}
  UsedVecs = {5}
  MaxRetries = 1
  MaxSem = 1
SPECIFICATION FairSpec
PROPERTIES PendingCollected ScheduledExecuted
