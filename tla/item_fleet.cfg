SPECIFICATION Spec
CONSTANTS
  w1 = w1  w2 = w2  s1 = s1  s2 = s2  i1 = i1  i2 = i2  j1 = j1
  None = None
  Worker = {w1, w2}
  Slot = {s1, s2}
  WorkerOf <- FleetWorkerOf
  Item = {i1, i2}
  Job = {j1}
  JobOf <- OneJobOf
  MaxAttempts = 2
  PromptHeartbeats = FALSE
  MaxFaults = 2
INVARIANTS
  FenceIsExact
  QueuedItemCanBeClaimed
PROPERTY
  ItemEventuallySettles
