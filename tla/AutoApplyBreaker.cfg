SPECIFICATION Spec
CONSTANTS
  d1 = d1  d2 = d2  w1 = w1  w2 = w2
  Issues = {i1}
  Devices = {d1}
  Supported = {d1}
  Workers = {w1, w2}
  DeviceOf <- BothOnD1
  Trigger <- SyslogAndApi
  Clients = {c1}
  Importers = {}
  CONFIRM_THRESHOLD = 1
  FAILURE_THRESHOLD = 2
  AutoRemediationEnabled = TRUE
  Endpoints = {"create", "patch", "enable", "disable", "apply", "dry_run"}
  Payloads = {"restore_intent", "raw_snippet"}
  Operated = {}
  MaxDrifts = 1
  MaxEvents = 3
  MaxCrashes = 1
  MaxLost = 1
INVARIANTS TypeOK CircuitBreaker BoundedOvershoot ConfirmedBeforeUnattended AuditTrail
