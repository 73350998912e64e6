SPECIFICATION SearchSafety
CONSTANTS
  w1 = w1  w2 = w2  a = a  b = b
  None = None
  Worker = {w1, w2}
  Command = {a, b}
  MaxAttempts = 2
  PromptHeartbeats = FALSE
  MaxFaults = 1
  MaxUrls = 1
INVARIANTS
  SearchTypeOK
  TotalMatchesItems
  CompletedSearchIsAnswered
  FailedSearchExposesError
  CompletedJobCountsAll
PROPERTY
  FilledOnce
CHECK_DEADLOCK FALSE
SYMMETRY Alike
