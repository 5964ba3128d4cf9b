SPECIFICATION FairSpec
CONSTANTS
  CollectorLists <- HandlerLists
  TemplateLists <- SingleLists
  Lags <- SmallLags
  Workloads = {"a", "b", "c"}
  Identified = {"a"}
  IncludeSystem = FALSE
  MaxSeries = 1
  MaxPages = 2
  PutBatch = 2
  MaxRetries = 1
  MaxFaults = 1
  MaxRotations = 1
INVARIANTS
  SuccessMeansPublished
  QuietAlarmsMeanHealthy
  RatesAreNotOverstated
  OneRejectedLogin
PROPERTIES
  RotationIsFollowed
