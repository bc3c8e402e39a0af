\* A run whose generation kills its worker every time.
SPECIFICATION Spec
CONSTANTS
  Nodes = {n1}
  RunIds = {r1, r2, r3}
  Workers = {w1, w2}
  Requests = {q1}
  Versions = {v1}
  None = None
  ReadySize = 2
  RefillThreshold = 2
  TargetSize = 3
  MinGenerated = 1
  MinPublishable = 1
  MaxItems = 2
  SmallBatch = 1
  BigBatch = 2
  MaxAttempts = 2
  InitialPools <- StartLegacy
  LeaseCoversWork = TRUE
  MaxCrashes = 2
INVARIANTS
  AttemptsBounded
