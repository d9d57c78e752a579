CONSTANTS
  Threads = {t1, t2}
  CacheOn = TRUE
  LockoutThreshold = 0
  MaxLogins = 3
  MaxSimulations = 1
  MaxRotations = 0
  MaxResyncs = 0
  MaxFaults = 1
SPECIFICATION Spec
CHECK_DEADLOCK FALSE
SYMMETRY Interchangeable
INVARIANTS TypeOK LockoutHolds
