SPECIFICATION FairSpec
CONSTANTS
  d1 = d1
  Devices = {d1}
  Registered <- OneDevice
  Period <- Periods
  INTERVAL = 1
  REPOLL_DELAY = 1
  GRACE = 0
  COOLDOWN = 1
  MaxRun = 1
  PoolSize = 2
  Order <- Listed
  Hostname <- OneAddress
  Fixable = {d1}
  Horizon = 5
  MaxRepolls = 1
  MaxRestarts = 1
INVARIANTS TypeOK SilenceIsExplained MessagesAreThrottled
PROPERTIES RepollsDoNotMultiply PollingGoesOn
