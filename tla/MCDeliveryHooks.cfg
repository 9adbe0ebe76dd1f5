SPECIFICATION HooksFairSpec
CONSTANTS
  t1 = t1
  t2 = t2
  t3 = t3
  w1 = w1
  w2 = w2
  Tickets = {t1, t2, t3}
  Workers = {w1, w2}
  Capacity = 2
  NoTicket = NoTicket
INVARIANTS
  SlotsExact
  HookOnce
  NoHookAbandoned
  SomebodyAwake
PROPERTIES
  TicketsEnd
  StopDrains
CHECK_DEADLOCK FALSE
