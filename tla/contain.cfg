SPECIFICATION Spec
CONSTANTS
  c1 = c1
  c2 = c2
  s1 = s1
  s2 = s2
  Clients = {c1, c2}
  Sessions = {s1, s2}
  AdJoined = TRUE
  Timed = TRUE
  MaxSnapshots = 4
  MaxFaults = 1
SYMMETRY Symmetry
INVARIANTS
  ContainedUserIsOut
  StatusIsBacked
  NoSnapshotStorm
