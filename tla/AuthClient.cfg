SPECIFICATION FairSpec
CONSTANTS
  t1 = t1
  Tabs <- OneTab
  Requests <- OneTabRequests
  Calls = {c1, c2}
  MaxTokens = 5
  Faults = {"error", "lapse"}
  None = None
  Error = Error
CHECK_DEADLOCK FALSE
INVARIANTS
  LateGetsNothing
PROPERTIES
  SessionKept
  
  CallsEnd
