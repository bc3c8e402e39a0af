\* Two learners ask for the same short pool at once.
SPECIFICATION Spec
CONSTANTS
  Nodes = {n1}
  RunIds = {r1, r2, r3}
  Workers = {w1, w2}
  Requests = {q1, q2}
  Versions = {v1}
  None = None
  ReadySize = 2
  RefillThreshold = 2
  TargetSize = 3
  MinGenerated = 1
  MinPublishable = 1
  MaxItems = 2
  SmallBatch = 1
  BigBatch = 2
  MaxAttempts = 2
  InitialPools <- StartLegacy
  LeaseCoversWork = TRUE
  MaxCrashes = 0
INVARIANTS
  EnqueueIdempotent
