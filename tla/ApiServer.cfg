SPECIFICATION FairSpec
CONSTANTS
  Requests = {p, q, r}
  Clients = {c}
  Limit = 2
  Seconds = 2
  MaxMinute = 1
  Pool = 2
  Nobody = Nobody
CHECK_DEADLOCK FALSE
INVARIANTS
  OnTimeBounded
  RefusedOnlyOverLimit
PROPERTY EveryRequestEnds
