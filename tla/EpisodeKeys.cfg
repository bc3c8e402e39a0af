CONSTANTS
  r1 = r1
  phrase1 = phrase1
  Requests = {r1}
  None = None
  Phrases = {phrase1}
  MaxTries = 7
  EpisodeLimit = 6
SPECIFICATION MemorySpec
CHECK_DEADLOCK FALSE
INVARIANT AttemptsAreKept
