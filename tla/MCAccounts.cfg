SPECIFICATION FairSpec
CONSTANTS
  User = {t, s}
  Seeded = {t}
  Teacher = {t}
  Login = {l1, l2}
  Request = {r1, r2}
  Nobody = Nobody
CHECK_DEADLOCK FALSE
INVARIANTS OldSessionsRaced
PROPERTIES OnlyOwnSessionsEnd DeletedUsersStayDeleted DeletedUsersLoseSessions
