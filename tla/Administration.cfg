SPECIFICATION AdminSpec
CONSTANTS
  Users = {a, b}
  Superusers = {a, b}
  AdminRequests = {x, y}
  Columns = {"is_active", "is_superuser"}
  MaxAudit = 3
  None = None
CHECK_DEADLOCK FALSE
SYMMETRY Symmetry
INVARIANTS
  SomeoneAdministers
  AuditTellsState
PROPERTY EveryChangeAudited
