SPECIFICATION FairSpec
CONSTANTS
  Docs = {d1}
  Workers = {w1, w2}
  MaxRetries = 1
  Faults = {"upstream", "redis", "crash", "delete"}
  MaxGen = 6
  MaxRequests = 1
  MaxCrashes = 1
  None = None
CHECK_DEADLOCK FALSE
PROPERTY Settles
