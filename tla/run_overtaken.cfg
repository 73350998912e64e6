SPECIFICATION RunSpec
CONSTANTS
  w1 = w1  w2 = w2  c0 = c0  c1 = c1  c2 = c2
  None = None
  Worker = {w1, w2}
  Command = {c0, c1, c2}
  First = c0
  Work = 3
  MaxAttempts = 2
  PromptHeartbeats = TRUE
  MaxFaults = 1
INVARIANT
  EachCallAdvancesOnce
CHECK_DEADLOCK FALSE
