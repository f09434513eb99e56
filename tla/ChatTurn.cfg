SPECIFICATION FairSpec
CONSTANTS
  Turns = {t1, t2}
  Convs = {c1}
  Chunks = {k1, k2}
  HistoryLimit = 1
  MaxTokens = 1
  Faults = {"open", "generate", "persist"}
  None = None
CHECK_DEADLOCK FALSE
INVARIANTS
  CitationsMatch
  UsageMatchesAnswers
  AnswersFollowQuestions
  HistoryHasAnswered
PROPERTIES
  KeepsProtocol
  TurnsEnd
