CONSTANTS
  NULL = NULL
  Drivers = {d1}
  Softirqd = sd
  Callers = {c1}
  Disablers = {d1}
  Killers = {d1}
  Tasklets = {t1}
  UsedVecs = {0, 5}
  MaxRetries = 2
  MaxSem = 1
SPECIFICATION Spec
INVARIANTS TypeOK ScheduledOnce NoBug Serialized DisabledNotRunning NoLostWakeup
PROPERTIES KilledIsGone ServiceSpec
