CONSTANTS
  NULL = NULL
  Drivers = {d1}
  Softirqd = sd
  Callers = {}
  Disablers = {}
  Killers = {}
  Tasklets = {t1, t2}
  UsedVecs = {0, 5}
  MaxRetries = 2
  MaxSem = 1
SPECIFICATION FairSpec
PROPERTIES ScheduledExecuted
