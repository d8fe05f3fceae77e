SPECIFICATION Spec
CONSTANTS
  Video = {v1, v2}
  None = None
  MaxTurns = 4
  MaxOthers = 1
CHECK_DEADLOCK FALSE
SYMMETRY SameVideos
INVARIANTS TypeOK SettledPageShowsTheLike SettledPageShowsTheNumber
