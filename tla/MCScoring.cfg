SPECIFICATION Spec
CONSTANTS
  p1 = p1
  p2 = p2
  t1 = t1
  t2 = t2
  t3 = t3
  Pods = {p1, p2}
  Calls = {c1}
  Threshold = 500
  Scores = {400, 500, 650, 900}
  Names <- MCNames
  VpnWords <- MCVpnWords
  Processes = {p1, p2}
  VpnTTL = 2
  VpnTimes = 6
  Workers = {t1, t2, t3}
  PodOf <- MCPodOf
  HistoryTimes = 3
  MaxEvents = 3
  FailWindow = 2
  EventWindow = 4
  Lags = {0, 1}
INVARIANTS
  TypeOK VpnLoginAlertsOnce 
  ReclassificationReachesAll CountersWithinEvents
 
CHECK_DEADLOCK FALSE
