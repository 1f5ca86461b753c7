CONSTANTS
  p1 = p1
  r1 = r1
  c1 = c1
  c2 = c2
  t1 = t1
  t2 = t2
  NULL = NULL
  Tasks = {t1}
  Producers = {p1, p2}
  Consumers = {c1, c2}
  Reapers = {r1, r2}
  QueueOf <- MCQueueOf
  Listens <- MCListens
  MaxRetries = 1
  Store = "redis"
  Outcomes = {"success", "failed"}
  MaxResends = 0
  MaxAborts = 1
  MaxFailures = 1
SPECIFICATION FaultsSpec
CHECK_DEADLOCK FALSE
INVARIANTS TypeOK ExclusiveExecution PendingIsReachable
PROPERTIES FullyTerminalIsFinal ImplementsLifecycle
