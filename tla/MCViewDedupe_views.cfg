SPECIFICATION Spec
CONSTANTS
  k1 = k1
  k2 = k2
  k3 = k3
  r1 = r1
  r2 = r2
  r3 = r3
  r4 = r4
  r5 = r5
  Key = {k1, k2, k3}
  Request = {r1, r2, r3, r4, r5}
  KeyOf <- MCKeyOf
  Absent = Absent
  MinInterval = 2
  StaleAge = 2
  MapMax = 2
  MaxRestarts = 1
  MaxTime = 4
SYMMETRY SameRequests
CHECK_DEADLOCK FALSE
INVARIANTS ViewsAreApart SkipsAreDeserved
