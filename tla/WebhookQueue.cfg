SPECIFICATION TailFairSpec
CONSTANTS
  f1 = f1  f2 = f2  t1 = t1  t2 = t2
  Enabled = TRUE
  Subscribed = {"critical_drift", "sla_breached"}
  Types = {"sla_breached", "critical_drift", "apply_success"}
  QueueSize = 2
  MaxFires = 3
  MaxStops = 1
  Threads = {t1, t2}
  Fingerprints = {f1, f2}
  Findings <- OppositeOrders
  Outcomes <- Applied
  AI = TRUE
  Texts <- OneAnswered
  MaxChecks = 2
INVARIANTS TailTypes NoLossInOrder
PROPERTIES StopDrains EverythingIsPosted AlertsSurvive NoCheckHangs
CHECK_DEADLOCK FALSE
