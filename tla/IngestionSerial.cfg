SPECIFICATION SerialSpec
CONSTANTS
  Docs = {d1}
  Workers = {w1, w2}
  MaxRetries = 1
  Faults = {"upstream", "terminal", "db", "redis", "broker", "upload", "crash", "kill"}
  MaxGen = 6
  MaxRequests = 2
  MaxCrashes = 1
  None = None
CHECK_DEADLOCK FALSE
SYMMETRY Symmetry
INVARIANT CompletedIndexesAgree
PROPERTIES
  ImplementsChunkStore
  FailedAttemptsStay
