\* Leases outlive generations; crashes, edits, deletion, two requests.
SPECIFICATION Spec
CONSTANTS
  Nodes = {n1}
  RunIds = {r1, r2, r3}
  Workers = {w1, w2}
  Requests = {q1, q2}
  Versions = {v1, v2}
  None = None
  ReadySize = 2
  RefillThreshold = 2
  TargetSize = 3
  MinGenerated = 1
  MinPublishable = 1
  MaxItems = 2
  SmallBatch = 1
  BigBatch = 2
  MaxAttempts = 2
  InitialPools <- StartLegacy
  LeaseCoversWork = TRUE
  MaxCrashes = 1
SYMMETRY ActorSymmetry
INVARIANTS
  TypeOK
  ExclusiveClaim
  AttemptsPaidFor
  AuditMatchesPool
  LoopSurvives
PROPERTIES
  TerminalRunIsFinal
  ImplementsRefillQueue
