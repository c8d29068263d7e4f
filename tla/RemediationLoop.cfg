SPECIFICATION FairSpec
CONSTANTS
  Normal <- Identity
  Baseline <- OnePort
  Edits <- SomeEdits
  Optional <- PortOnly
  Management <- OobOnly
  Platforms = {"arista_eos", "cisco_iosxe", "juniper_junos"}
  Checkers = {w1, w2}
  Clients = {c1}
  Armed <- Everything
  Snippets = {}
  MaxChanges = 1
  MaxFaults = 2
INVARIANTS TypeOK SuccessMeansApplied
PROPERTIES UnattendedRestoresIntent LastingLossIsStored ArmedDriftIsRestored
