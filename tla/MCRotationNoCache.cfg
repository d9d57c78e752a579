CONSTANTS
  Threads = {t1, t2}
  CacheOn = FALSE
  LockoutThreshold = 0
  MaxLogins = 1
  MaxSimulations = 1
  MaxRotations = 1
  MaxResyncs = 1
  MaxFaults = 1
SPECIFICATION Spec
CHECK_DEADLOCK FALSE
SYMMETRY Interchangeable
INVARIANTS OldPasswordRefused PasswordRecoverable
