CONSTANTS
  r1 = r1
  r2 = r2
  Requests = {r1, r2}
  None = None
  MaxLessons = 3
  WordCount = 2
  AttemptKeys = {k1, k2}
  MaxTurns = 4
  HistoryLimit = 2
  MaxCodes = 2
  MaxAttempts = 2
  MaxClock = 2
  Resend = 1
  Ttl = 1
  ExternalIds = {id1, id2}
  Hashes = {hash1, hash2}
  MaxMarks = 1
  MaxPosted = 2
  PageSize = 1
  MaxAnswers = 3
  OtherImports = TRUE
  MaxRuns = 2
  Flaws = {flaw1, flaw2}
  Texts = {text1, text2}
  ClientIds = {client1, client2}
  phrase1 = phrase1
  phrase2 = phrase2
  Phrases = {phrase1, phrase2}
  MaxTries = 3
  EpisodeLimit = 2
SPECIFICATION Spec
SYMMETRY Symmetry
CHECK_DEADLOCK FALSE
INVARIANTS
  TypeOK
  GradedOnce
  CountsAreAttempts
  NoWordSkipped
  TurnsAreWhole
  SideEffectsFollowCommit
  GuessesAreLimited
  CodesAreSpent
  ImportedOnce
  AppliedByOverlap
  SyncLosesNothing
  IngestIsAttended
  TextbookIsOneParse
  DeletionIsFinal
  ReadOnce
  DeletedIsForgotten
  DeniedStaysDenied
