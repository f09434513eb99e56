SPECIFICATION EvaluationSpec
CONSTANTS
  RrfK = 60
  MaxRank = 5
  Scale = 495593280
  Docs <- FiveDocs
  Queries <- TwoQueries
  KList = {1, 3, 5}
CHECK_DEADLOCK FALSE
INVARIANTS
  AveragesAgree
  OnlyIdealIsPerfect
