SPECIFICATION Spec
CONSTANTS
  d1 = d1  d2 = d2  w1 = w1  w2 = w2
  Issues = {i1}
  Devices = {d1}
  Supported = {d1}
  Workers = {w1}
  DeviceOf <- BothOnD1
  Trigger <- SyslogAndApi
  Clients = {c1, c2}
  Importers = {}
  CONFIRM_THRESHOLD = 1
  FAILURE_THRESHOLD = 2
  AutoRemediationEnabled = TRUE
  Endpoints = {"create", "patch", "enable", "apply"}
  Payloads = {"restore_intent", "raw_snippet"}
  Operated = {}
  MaxDrifts = 1
  MaxEvents = 2
  MaxCrashes = 0
  MaxLost = 0
INVARIANT ArmedOnlyForRestoreIntent
