CONSTANTS
  Alerts = {a1, a2}
  Critical = {a1}
  Forced = {a2}
  Requests = {r1, r2, r3}
  Pods = {p1}
  AutoRotation = FALSE
  WarmMirror = TRUE
  MaxBenign = 0
  MaxResets = 0
  MaxSeedings = 0
  MaxRestarts = 0
  MaxFaults = 0
SPECIFICATION Spec
CHECK_DEADLOCK FALSE
INVARIANTS TypeOK RotatedWasApproved AuditMatchesDecision StatsMatchDecisions
PROPERTIES ResolutionIsFinal LifecycleSpec
