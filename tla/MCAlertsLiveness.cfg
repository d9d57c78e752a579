CONSTANTS
  Alerts = {a1}
  Critical = {a1}
  Forced = {a1}
  Requests = {r1, r2}
  Pods = {p1}
  AutoRotation = FALSE
  WarmMirror = FALSE
  MaxBenign = 0
  MaxResets = 1
  MaxSeedings = 1
  MaxRestarts = 1
  MaxFaults = 1
SPECIFICATION FairSpec
CHECK_DEADLOCK FALSE
PROPERTIES EveryCallAnswered
