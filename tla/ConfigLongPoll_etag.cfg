CONSTANTS
  a1 = a1
  a2 = a2
  p1 = p1
  p2 = p2
  t1 = t1
  t2 = t2
  Parts = {"config"}
  NULL = NULL
  Agents = {a1}
  Polls = {p1}
  AgentOf <- AgentEach
  States = {s1, s2}
  Etags = {a1}
  MaxChanges = 2
  MaxTimers = 2
  Deletes = FALSE
  LocalChanges = FALSE
  Expires = FALSE
  LateCallback = FALSE
SPECIFICATION FairAllSpec
CHECK_DEADLOCK FALSE
PROPERTIES ConfigIsFresh
