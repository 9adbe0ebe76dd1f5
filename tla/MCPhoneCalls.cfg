SPECIFICATION FairSpec
CONSTANTS
  c1 = c1
  c2 = c2
  u1 = u1
  u2 = u2
  x1 = x1
  x2 = x2
  None = None
  Calls = {c1, c2}
  Users = {u1, u2}
  Callers = {u1}
  Randoms = {x1, x2}
  MaxActivePerUser = 1
  MaxRegistryEntries = 2
INVARIANTS
  RegistryExact
  EndsOnce
PROPERTIES
  CallsSettle
  ImplementsLife
CHECK_DEADLOCK FALSE
