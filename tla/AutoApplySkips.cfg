SPECIFICATION FairSpec
CONSTANTS
  d1 = d1  d2 = d2  w1 = w1  w2 = w2
  Issues = {i1}
  Devices = {d1, d2}
  Supported = {d1}
  Workers = {w1, w2}
  DeviceOf <- BothOnD1
  Trigger <- IntervalAndRepoll
  Clients = {c1}
  Importers = {m1}
  CONFIRM_THRESHOLD = 1
  FAILURE_THRESHOLD = 2
  AutoRemediationEnabled = TRUE
  Endpoints = {"enable", "apply"}
  Payloads = {"restore_intent"}
  Operated = {d1}
  MaxDrifts = 2
  MaxEvents = 3
  MaxCrashes = 0
  MaxLost = 0
INVARIANT ConfirmGate
PROPERTY BreakerTrips
