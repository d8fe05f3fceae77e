SPECIFICATION Spec
CONSTANTS
  User = {ann, bob}
  None = None
  MaxTurns = 4
SYMMETRY UserNames
CHECK_DEADLOCK FALSE
INVARIANTS SettledUsersAreTheSession NoFormWaitsInVain 
