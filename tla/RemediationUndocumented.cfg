SPECIFICATION Spec
CONSTANTS
  Normal <- Identity
  Baseline <- OnePort
  Edits <- SomeEdits
  Optional <- PortOnly
  Management <- OobOnly
  Platforms = {"cisco_iosxe"}
  Checkers = {w1}
  Clients = {c1}
  Armed <- Everything
  Snippets <- Native
  MaxChanges = 1
  MaxFaults = 1
INVARIANT UndocumentedIsBlocked
