SPECIFICATION TrackerSpec
CONSTANTS
  o1 = o1
  o2 = o2
  o3 = o3
  o4 = o4
  t1 = t1
  t2 = t2
  Owners = {o1, o2, o3, o4}
  Scans = {t1, t2}
  NumShards = 2
  MaxSeq = 3
INVARIANTS TrackerTypeOK FloorSafe RetireFindsSequence
PROPERTIES FloorsRise
CHECK_DEADLOCK FALSE
