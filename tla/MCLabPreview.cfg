SPECIFICATION FairSpec
CONSTANTS
  base = base
  faulty = faulty
  crashing = crashing
  hanging = hanging
  lurking = lurking
  loadError = loadError
  renderError = renderError
  Original = Original
  NeverSent = NeverSent
  Base = base
  Source = {base, faulty, crashing, hanging, lurking}
  Error = {loadError, renderError}
  Opening = {"reload", "newTab"}
  MaxActs = 4
  ErrorsIn <- MCErrorsIn
  CrashesIn <- MCCrashesIn
  HangsNow <- MCHangsNow
  HangsLater <- MCHangsLater
CHECK_DEADLOCK FALSE
INVARIANTS TypeOK SettledPreviewIsCurrent NoErrorIsLost SafeModeRunsNoStudentCode
PROPERTIES HangWhileApplyingIsRemembered PreviewCatchesUp
