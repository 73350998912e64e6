SPECIFICATION Spec
CONSTANTS
  c1 = c1  c2 = c2  c3 = c3  d1 = d1
  None = None
  Client = {c1, c2, c3}
  Domain = {d1}
  Known = {d1}
  Delays = {1, 3}
  Time = {0, 2}
  MaxGrants = 3
INVARIANT
  ReservationsSpaced
CHECK_DEADLOCK FALSE
