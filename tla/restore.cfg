SPECIFICATION FairSpec
CONSTANTS
  v1 = v1
  v2 = v2
  Verifications = {v1, v2}
  MaxFaults = 3
INVARIANTS
  CleanedUpMeansGone
  ScansOwnClone
PROPERTIES
  RemovesOnlyItsOwn
  EndsCleanOrSaysSo
CHECK_DEADLOCK FALSE
