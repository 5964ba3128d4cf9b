SPECIFICATION Spec
CONSTANTS
  r1 = r1
  r2 = r2
  Runs = {r1}
  GraceSeconds = 1
  ModifiedLag = 1
  MaxKeysPerRun = 2
  RotatesAnytime = TRUE
  MaxRecords = 3
  MaxUndated = 0
  MaxFiles = 2
  MaxFaults = 0
INVARIANTS
  NoSilentGap
