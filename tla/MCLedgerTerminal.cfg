SPECIFICATION Spec
CONSTANTS
  k1 = k1
  k2 = k2
  s1 = s1
  s2 = s2
  a1 = a1
  h1 = h1
  h2 = h2
  Keys = {k1}
  Sessions = {s1}
  Auths = {a1}
  Shards = {h1}
  SessionOf <- MCSessionOf
  AuthOf <- MCAuthOf
  ShardOf <- MCShardOf
  Bodies = {b1}
  NoBody = NoBody
  NoFlight = NoFlight
  NoReceipt = NoReceipt
  Requests = {r1, r2}
  KeyOf <- MCKeyOf
  IdentityOf <- MCTwoIdentities
  r1 = r1
  r2 = r2
  r3 = r3
  r4 = r4
  b1 = b1
  MaxPending = 2
  MaxPendingPerAuth = 2
  GlobalMaxEntries = 2
  AuthMaxEntries = 2
  SessionMaxEntries = 2
  SubscriberMaxGlobal = 3
  SubscriberMaxAuth = 3
  SubscriberMaxSession = 3
  SubscriberMaxPerFlight = 3
INVARIANT
  RunningOwnsTerminal
CHECK_DEADLOCK FALSE
