CONSTANTS
  Alerts = {a1}
  Critical = {a1}
  Forced = {}
  Requests = {r1, r2}
  Pods = {p1, p2}
  AutoRotation = TRUE
  WarmMirror = TRUE
  MaxBenign = 1
  MaxResets = 1
  MaxSeedings = 0
  MaxRestarts = 0
  MaxFaults = 1
SPECIFICATION Spec
CHECK_DEADLOCK FALSE
SYMMETRY Interchangeable
INVARIANTS AuditCoversStatus AuditCoversAnswer TotalsMirrored ThreatNotAheadOfAlert
PROPERTIES AuditAppendOnly
