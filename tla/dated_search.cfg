SPECIFICATION DatedSpec
CONSTANTS
  w1 = w1  w2 = w2  c0 = c0  c1 = c1  u1 = u1  u2 = u2
  None = None
  Worker = {w1, w2}
  Command = {c0, c1}
  First = c0
  MaxAttempts = 2
  PromptHeartbeats = FALSE
  MaxFaults = 1
  Url = {u1, u2}
  Request <- TwoMonths
  Article = {}
  Offset = {}
  FirstToday <- Today
  LastToday <- Tomorrow
  MaxMonths = 2
  SlowClocks = FALSE
  PageSize = 2
INVARIANTS
  NothingIsScrapedTwice
PROPERTIES
  ImplementsSearchRuns
CHECK_DEADLOCK FALSE
SYMMETRY Alike
