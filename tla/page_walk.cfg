SPECIFICATION Spec
CONSTANTS
  u1 = u1  u2 = u2  u3 = u3
  None = None
  MaxMonths = 3
  Url = {u1, u2, u3}
  Request <- SomeRequests
  FirstToday <- LeapDay
  LastToday <- DayAfter
  Article <- SomeArticles
  Offset = {0, 7}
  SlowClocks = TRUE
  PageSize = 3
  MaxFaults = 1
INVARIANTS
  TypeOK
  SeenIsInOnePlace
  PagesAreBounded
  EveryDayIsAsked
  ProgressIsTruthful
  ReportAddsUp
PROPERTIES
  RunEnds
CHECK_DEADLOCK FALSE
