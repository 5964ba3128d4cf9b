SPECIFICATION Spec
CONSTANTS
  w1 = w1
  w2 = w2
  Workers = {w1}
  MaxEvaluations = 2
  MaxFaults = 2
  FunctionTimeout = 1
  LeaseTerm = 2
  ReconcileTerm = 2
  CooldownTerm = 1
  OperatorErrs = FALSE
  WatchedReports = {"blocked", "submitted", "reconciled"}
  Disturbances = {"foreign", "redeploy"}
INVARIANTS
  TypeOK
  RequestOnRecord
  SentMeansDelivered
  AtMostOnePending
PROPERTIES
  FollowsDiagram
  NeverStrandsPending
  ImplementsLedger
