\* Every enqueued refill settles and the pool fills up, with a crash.
SPECIFICATION FairSpec
CONSTANTS
  Nodes = {n1}
  RunIds = {r1, r2, r3}
  Workers = {w1, w2}
  Requests = {q1}
  Versions = {v1}
  None = None
  ReadySize = 1
  RefillThreshold = 2
  TargetSize = 3
  MinGenerated = 1
  MinPublishable = 1
  MaxItems = 2
  SmallBatch = 1
  BigBatch = 2
  MaxAttempts = 2
  InitialPools <- StartEmpty
  LeaseCoversWork = TRUE
  MaxCrashes = 1
PROPERTIES
  RunSettles
  PromiseKept
  PoolRefills
