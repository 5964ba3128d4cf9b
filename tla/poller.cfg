SPECIFICATION FairSpec
CONSTANTS
  r1 = r1
  r2 = r2
  Runs = {r1, r2}
  GraceSeconds = 1
  ModifiedLag = 1
  MaxKeysPerRun = 3
  RotatesAnytime = FALSE
  MaxRecords = 4
  MaxUndated = 0
  MaxFiles = 3
  MaxFaults = 1
INVARIANTS
  TypeOK
  NoSilentGap
PROPERTIES
  EveryRecordDelivered
