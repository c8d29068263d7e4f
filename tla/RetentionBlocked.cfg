SPECIFICATION FairSpec
CONSTANTS
  Clients = {c1}
  RETENTION = 1
  Endpoints = {"dry_run"}
  MaxTime = 3
  MaxDrifts = 2
  MaxRequests = 1
PROPERTY OldIsPruned
