SPECIFICATION StudentSpec
CONSTANTS
  NoFile = NoFile
  NoAnswer = NoAnswer
  Color = {}
  ContextLines = 1
  Lesson <- TheLesson
  SourceOf <- Sources
  Typed <- TypedTexts
  FreeSource <- FreeTexts
  Old <- OldProgress
  CanStore = TRUE
  StudentModules <- FilesInOrder
  HostModules = {"react"}
  ImportOf <- ImportTokens
  ForbiddenWord = {"axios"}
CHECK_DEADLOCK FALSE
INVARIANTS   VerdictIsAboutTheValuesShown FallbacksAreExplained
