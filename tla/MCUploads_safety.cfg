SPECIFICATION ModalSpec
CONSTANTS
  o1 = o1
  o2 = o2
  d1 = d1
  d2 = d2
  Object = {o1, o2}
  Deletion = {d1, d2}
  Stream = {s1}
  None = None
  MaxCrashes = 1
SYMMETRY Alike
CHECK_DEADLOCK FALSE
INVARIANTS ModalTypeOK AcknowledgedVideosPlay  SuccessIsAVideo
PROPERTIES OnlyDeletedObjectsAreRemoved StreamsFindTheirObject
