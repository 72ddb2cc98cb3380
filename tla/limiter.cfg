SPECIFICATION LimiterFairSpec
CONSTANTS
  r1 = r1
  r2 = r2
  r3 = r3
  c1 = c1
  c2 = c2
  Requests = {r1, r2, r3}
  Client <- MCClient
  Entries = {e1, e2, e3}
  NoEntry = NoEntry
  Limit = 1
  Window = 1
  MaxTime = 3
INVARIANTS LimitHolds
PROPERTIES RejectedRightly SilentForgotten
CHECK_DEADLOCK FALSE
