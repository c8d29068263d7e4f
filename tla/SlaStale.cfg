SPECIFICATION Spec
CONSTANTS
  r1 = r1  r2 = r2
  Devices = {d1}
  Fingerprints = {f1}
  Rules = {r1}
  Covers <- CoversAll
  Window <- Windows
  UNREACHABLE_AFTER = 2
  RETENTION = 2
  MayDelete = FALSE
  MaxTime = 4
  MaxAborts = 0
PROPERTY ResolvedWhenCleared
