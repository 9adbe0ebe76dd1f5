SPECIFICATION FairSpec
CONSTANTS
  d1 = d1
  d2 = d2
  w1 = w1
  w2 = w2
  Devices = {d1}
  Audited = {d1}
  Limited = {d1}
  MaxEvents = 2
  Counts = {2}
  DifferenceLimit = 1
  TotalLimit = 1
  MaxRestores = 1
  Workers = {w1, w2}
  MaxAttempts = 2
  MaxClaims = 2
INVARIANTS
  NothingSkipped
  LaneHead
  LeaseHolds
CHECK_DEADLOCK FALSE
PROPERTIES
  DevicesConverge
  LaneDrains
  ImplementsOrder
