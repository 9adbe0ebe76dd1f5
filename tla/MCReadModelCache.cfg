SPECIFICATION Spec
CONSTANTS
  k1 = k1
  k2 = k2
  r1 = r1
  r2 = r2
  b1 = b1
  b2 = b2
  u1 = u1
  Nobody = Nobody
  NoEntry = NoEntry
  Keys = {k1, k2}
  Mutable = {k1}
  Readers = {r1, r2}
  Batches = {b1, b2}
  Builders = {u1}
  MaxCalls = 2
  MaxVersion = 2
  MaxEpoch = 1
  MaxEntries = 2
  MaxWeight = 2
  Weight <- MCWeight
SYMMETRY MCSymmetry
INVARIANTS
  TypeOK
  EntriesFresh
  ReadFresh
  FlightsAttended
CHECK_DEADLOCK FALSE
