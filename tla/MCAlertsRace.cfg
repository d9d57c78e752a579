CONSTANTS
  Alerts = {a1}
  Critical = {}
  Forced = {}
  Requests = {r1, r2}
  Pods = {p1, p2}
  AutoRotation = FALSE
  WarmMirror = TRUE
  MaxBenign = 0
  MaxResets = 0
  MaxSeedings = 0
  MaxRestarts = 0
  MaxFaults = 0
SPECIFICATION Spec
CHECK_DEADLOCK FALSE
PROPERTY ResolutionIsFinal
