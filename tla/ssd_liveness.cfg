SPECIFICATION FairSpec
CONSTANTS
  w1 = w1
  w2 = w2
  Workers = {w1}
  MaxEvaluations = 1
  MaxFaults = 2
  FunctionTimeout = 1
  LeaseTerm = 2
  ReconcileTerm = 3
  CooldownTerm = 0
  OperatorErrs = FALSE
  WatchedReports = {"blocked"}
  Disturbances = {"foreign", "redeploy"}
PROPERTIES
  Settles
  AcceptedIsFollowed
  LatchIsReported
