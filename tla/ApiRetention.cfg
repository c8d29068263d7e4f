SPECIFICATION ApiFairSpec
CONSTANTS
  Clients = {c1, c2}
  RETENTION = 1
  Endpoints = {"dry_run", "apply"}
  MaxTime = 2
  MaxDrifts = 1
  MaxRequests = 1
  AUTH = TRUE
  c1 = c1  c2 = c2
  Calls <- Division
  Lifetimes = {1}
  PoolSize = 1
  MaxKeys = 2
  MaxBootstrap = 1
INVARIANTS AuditedDriftIsKept RevokedIsOut
PROPERTIES UnauditedIsPruned StampsNeverGoBack LoopIsFreed
