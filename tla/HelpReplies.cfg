CONSTANTS
  r1 = r1
  Requests = {r1}
  None = None
  MaxPosted = 1
  PageSize = 1
  MaxAnswers = 2
  OtherImports = FALSE
SPECIFICATION SyncSpec
CHECK_DEADLOCK FALSE
INVARIANT HelpAnsweredOnce
