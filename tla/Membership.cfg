SPECIFICATION Spec
CONSTANTS
  Users = {a, b, c}
  Superusers = {a}
  AdminRequests = {x}
  Columns = {"is_active"}
  MaxAudit = 1
  Registered = {a, b}
  Workspaces = {w, v}
  Created = {w}
  Roles = {0, 2}
  Requests = {r, s}
  MaxRequests = 2
  MaxSuffix = 3
  Ops = {"register", "create", "add", "remove"}
  None = None
CHECK_DEADLOCK FALSE
SYMMETRY Symmetry
INVARIANTS
  UniqueRows
  OwnersRemain
PROPERTY MembersChangedByEntitled
