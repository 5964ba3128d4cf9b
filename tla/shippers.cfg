SPECIFICATION Spec
CONSTANTS
  r1 = r1
  r2 = r2
  Runs = {r1, r2}
  BatchItems = 2
  GraceSeconds = 1
  MaxKeysPerRun = 2
  MaxRecords = 3
  MaxUndated = 1
  MaxFiles = 2
  MaxFaults = 1
SYMMETRY Symmetry
INVARIANTS
  TypeOK
  NoFalseAllClear
  SentOnceUnlessRepeated
  WatermarkIsCovered
CHECK_DEADLOCK FALSE
