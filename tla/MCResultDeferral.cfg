SPECIFICATION Spec
CONSTANTS
  r1 = r1
  r2 = r2
  Replays = {r1}
  Refusable = {}
INVARIANT
  DeferralReleased
CHECK_DEADLOCK FALSE
