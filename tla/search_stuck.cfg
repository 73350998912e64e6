SPECIFICATION SearchSpec
CONSTANTS
  w1 = w1  w2 = w2  a = a  b = b
  None = None
  Worker = {w1, w2}
  Command = {a, b}
  MaxAttempts = 2
  PromptHeartbeats = TRUE
  MaxFaults = 1
  MaxUrls = 1
PROPERTY
  SearchEventuallyAnswered
CHECK_DEADLOCK FALSE
