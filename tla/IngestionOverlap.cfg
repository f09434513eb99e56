SPECIFICATION Spec
CONSTANTS
  Docs = {d1}
  Workers = {w1, w2}
  MaxRetries = 1
  Faults = {"upstream", "terminal", "delete", "upload"}
  MaxGen = 6
  MaxRequests = 2
  MaxCrashes = 0
  None = None
CHECK_DEADLOCK FALSE
SYMMETRY Symmetry
INVARIANTS
  CompletedHasChunks
  UnfinishedIsScheduled
  UnannouncedIsTransient
  UsageOncePerRequest
PROPERTY DeletedStaysDeleted
