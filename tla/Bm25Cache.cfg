SPECIFICATION Spec
CONSTANTS
  Workspaces = {w1, w2, w3}
  Chunks = {c1}
  Procs = {p1}
  Slots = {a, b}
  Dense = {{}, {c1}}
  Writers = {x, y}
  MaxEntries = 2
  MaxLosses = 1
  MaxVersion = 2
  None = None
SYMMETRY Symmetry
INVARIANTS
  FindsAnnounced
  DeletedNeverFound
  RecentStay
PROPERTY CacheBounded
