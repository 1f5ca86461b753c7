CONSTANTS
  a1 = a1
  u1 = u1
  r1 = r1
  NULL = NULL
  Agents = {a1}
  Admins = {u1}
  Reconcilers = {r1}
  MaxRequests = 2
  MaxTroubles = 1
SPECIFICATION Spec
CHECK_DEADLOCK FALSE
INVARIANT NothingIsResurrected
PROPERTIES RecordsSettle AgentsConverge DeletedIsForgotten
