SPECIFICATION Spec
CONSTANTS
  Pods = {p1, p2}
  Docs = {d1, d2}
  MaxMessages = 3
  MaxAssigns = 3
  MaxRestarts = 1
  Replicas = {q1}
  Lanes = {"kafka", "request", "main"}
  Counted = {e1, e2, e3}
  Threats = {e1, e2}
  BatchSize = 2
  MaxMishaps = 1
  MaxResets = 3
SYMMETRY Interchangeable
INVARIANTS
  TypeOK OnlyAFailedSeekReplays 
  CountedOnce PendingCoversDeltas ShutdownLosesOnlyWorkInHand
CHECK_DEADLOCK FALSE
