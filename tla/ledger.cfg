SPECIFICATION FairSpec
CONSTANTS
  k1 = k1
  k2 = k2
  w1 = w1
  w2 = w2
  Keys = {k1}
  Workers = {w1, w2}
  MaxFailures = 2
  TtlDays = TRUE
  MaxVersions = 2
  MaxFaults = 3
INVARIANTS
  AtMostOnce
PROPERTIES
  PillsStay
  LatestIsAttempted
