CONSTANTS
  Threads = {t1}
  CacheOn = TRUE
  LockoutThreshold = 5
  MaxLogins = 1
  MaxSimulations = 1
  MaxRotations = 1
  MaxResyncs = 0
  MaxFaults = 0
SPECIFICATION Spec
CHECK_DEADLOCK FALSE
INVARIANTS OldPasswordRefused
