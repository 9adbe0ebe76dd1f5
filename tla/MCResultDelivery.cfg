SPECIFICATION FairSpec
CONSTANTS
  r1 = r1
  r2 = r2
  Replays = {r1, r2}
  Refusable = {"source", "alias"}
INVARIANTS
  LogicalHookOnce
  ReservedForAlias
PROPERTIES
  AliasSettles
CHECK_DEADLOCK FALSE
