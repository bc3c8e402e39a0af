\* A generation may outlive its lease: two workers can work on one run.
SPECIFICATION Spec
CONSTANTS
  Nodes = {n1}
  RunIds = {r1, r2}
  Workers = {w1, w2}
  Requests = {q1, q2}
  Versions = {v1}
  None = None
  ReadySize = 1
  RefillThreshold = 2
  TargetSize = 2
  MinGenerated = 1
  MinPublishable = 1
  MaxItems = 1
  SmallBatch = 1
  BigBatch = 2
  MaxAttempts = 2
  InitialPools <- StartEmpty
  LeaseCoversWork = FALSE
  MaxCrashes = 0
SYMMETRY ActorSymmetry
INVARIANTS
  OneActiveRunPerKey
  AuditNeverOverstates
