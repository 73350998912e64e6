SPECIFICATION Spec
CONSTANTS
  c1 = c1  c2 = c2  c3 = c3  d1 = d1
  None = None
  Client = {c1, c2}
  Domain = {d1}
  Known = {}
  Delays = {1, 3}
  Time = {0, 2}
  MaxGrants = 1
INVARIANT
  AllReservationsSpaced
CHECK_DEADLOCK FALSE
