SPECIFICATION Spec
CONSTANTS
  Video = {v1, v2}
  None = None
  MaxTurns = 2
  MaxOthers = 1
CHECK_DEADLOCK FALSE
PROPERTIES RemovedLikeIsShown
