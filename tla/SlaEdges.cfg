SPECIFICATION FairSpec
CONSTANTS
  r1 = r1  r2 = r2
  Devices = {d1}
  Fingerprints = {f1}
  Rules = {r1, r2}
  Covers <- CoversAll
  Window <- Windows
  UNREACHABLE_AFTER = 2
  RETENTION = 1
  MayDelete = TRUE
  MaxTime = 3
  MaxAborts = 1
INVARIANTS TypeOK PagesFollowTracked
PROPERTIES EdgeTriggered NoRepageAfterMute LastingBreachIsPaged EndedBreachIsResolved
