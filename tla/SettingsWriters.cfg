SPECIFICATION AccuracySpec
CONSTANTS
  d1 = d1  d2 = d2
  Devices = {d1, d2}
  Listed = {d1}
  Checks = {k1}
  Probes = {p1}
  Syncs = {s1}
  Clients = {c1}
  Target <- AllOnD1
  SyncOrder <- SyncBoth
  MaxTime = 1
  MaxBegun = 4
  Readers = {r1}
  WINDOW = 0
INVARIANTS TypeOK NoLostUpdate StampsAreChecks NoCircularWait ReportWasTrue
