SPECIFICATION FairSpec
CONSTANTS
  Senders = {s1, s2}
  Delays = {0, 2}
  MaxPosts = 2
  MaxTime = 3
INVARIANTS
  QueueKeepsSendOrder
  NothingIsLeftBehind
PROPERTY EveryMessageLeaves
CHECK_DEADLOCK FALSE
