SPECIFICATION Spec
CONSTANTS
  w1 = w1
  w2 = w2
  Workers = {w1, w2}
  MaxEvaluations = 2
  MaxFaults = 1
  FunctionTimeout = 1
  LeaseTerm = 2
  ReconcileTerm = 1
  CooldownTerm = 0
  OperatorErrs = FALSE
  WatchedReports = {}
  Disturbances = {}
SYMMETRY Symmetry
INVARIANTS
  SingleFlight
  CallOnlyWhenSettled
