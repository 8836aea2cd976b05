SPECIFICATION FairSpec
CONSTANTS
  Requests = {g1, g2}
  Monitors = {k1, k2}
  Sessions = {s1, s2}
  Calls = {"get", "insert", "update", "end"}
  Free = Free
  NoSession = NoSession
PROPERTY EveryCallReturns
CHECK_DEADLOCK FALSE
