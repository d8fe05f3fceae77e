SPECIFICATION LimiterSpec
CONSTANTS
  k1 = k1
  k2 = k2
  c1 = c1
  c2 = c2
  c3 = c3
  c4 = c4
  c5 = c5
  Client = {k1, k2}
  Call = {c1, c2, c3, c4, c5}
  ClientOf <- MCClientOf
  Window = 4
  Limit = 2
  Delay = 2
  LastTick = 8
SYMMETRY Interchangeable
INVARIANTS LimitHolds RefusalsAreDeserved
CHECK_DEADLOCK FALSE
