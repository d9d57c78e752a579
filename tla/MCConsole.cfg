SPECIFICATION Spec
CONSTANTS
  Replicas = {p1, p2}
  Sockets = {w1, w2}
  Messages = {m1}
  MaxStops = 1
  MaxUnsure = 1
  SimPods = {s1}
  Watchers = {v1, v2}
  SaveEvery = 3
  MaxIndex = 7
  MaxErrors = 2
  MaxSimResets = 1
  Backends = {b1, b2}
  SessionTTL = 2
  TokenTTL = 2
  MaxTime = 3
  MaxTokens = 2
  MaxSigns = 2
  Callers = {c1, c2}
  MaxSwitches = 3
  MaxBroken = 2
SYMMETRY Interchangeable
INVARIANTS
  TypeOK   SeamlessStream TokensResetOnce StacksExclude
CHECK_DEADLOCK FALSE
