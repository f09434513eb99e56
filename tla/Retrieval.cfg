SPECIFICATION Spec
CONSTANTS
  RrfK = 2
  MaxRank = 3
  Scale = 60
  Chunks = {a, b, c, d}
  SearchTopK = 3
  FusedTopK = 3
  RerankTopN = 3
  MaxMarkers = 3
CHECK_DEADLOCK FALSE
SYMMETRY Symmetry
INVARIANTS
  AgreementWins
  MarkersResolve
PROPERTY BestSurvive
