CONSTANTS
  a1 = a1
  a2 = a2
  p1 = p1
  p2 = p2
  t1 = t1
  t2 = t2
  NULL = NULL
  Agents = {a1}
  Tasks = {t1, t2}
  Polls = {p1, p2}
  AgentOf <- OneAgent
  Unified = {p2}
  Target <- Broadcast
  PageLimit = 1
  NotifyCap = 2
  Subscribed = TRUE
  Shutdowns = FALSE
  Disconnects = FALSE
  MaxFailures = 0
SPECIFICATION ServingSpec
CHECK_DEADLOCK FALSE
INVARIANTS WaiterIsWoken LastWaiterIsRegistered TaskIsInOnePlace
