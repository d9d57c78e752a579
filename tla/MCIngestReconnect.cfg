SPECIFICATION IngestFairSpec
CONSTANTS
  Pods = {p1}
  Docs = {d1}
  MaxMessages = 1
  MaxAssigns = 1
  MaxRestarts = 0
PROPERTY Resubscribes
CHECK_DEADLOCK FALSE
