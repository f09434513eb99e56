SPECIFICATION FairSpec
CONSTANTS
  Turns = {t1, t2}
  Convs = {c1, c2}
  MaxLoads = 2
  New = New
INVARIANTS
  ShowsItsConversation
  FollowUpsJoin
PROPERTY InputComesBack
