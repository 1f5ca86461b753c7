CONSTANTS
  c1 = c1
  c2 = c2
  t1 = t1
  t2 = t2
  NULL = NULL
  Tasks = {t1}
  Producers = {p1}
  Consumers = {c1, c2}
  Reapers = {r1}
  QueueOf <- MCQueueOf
  Listens <- MCListens
  MaxRetries = 0
  Store = "redis"
  Outcomes = {"success", "failed"}
  MaxResends = 0
  MaxAborts = 0
  MaxFailures = 0
SPECIFICATION Spec
CHECK_DEADLOCK FALSE
INVARIANT RacedResultIsSaved
