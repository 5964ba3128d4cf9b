SPECIFICATION Spec
CONSTANTS
  c1 = c1
  c2 = c2
  s1 = s1
  s2 = s2
  Workers = {1}
  Conns = {c1, c2}
  Svms = {s1, s2}
  SvmOf <- MCSvmOf
  NoSvm = NoSvm
  DefaultSvmName = s1
  MaxEvents = 2
  MaxGarbage = 1
  BatchSize = 2
  MaxReceiveCount = 2
  MaxRetryAttempts = 1
  MaxFaults = 1
INVARIANTS
  TypeOK
  NothingVanishes
  EventsCarryTheirSvm
CHECK_DEADLOCK FALSE
