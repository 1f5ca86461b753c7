CONSTANTS
  p1 = p1
  r1 = r1
  c1 = c1
  c2 = c2
  t1 = t1
  t2 = t2
  NULL = NULL
  Tasks = {t1, t2}
  Producers = {p1}
  Consumers = {c1, c2}
  Reapers = {r1}
  QueueOf <- MCQueueOf
  Listens <- MCListens
  MaxRetries = 0
  Store = "redis"
  Outcomes = {"success", "failed"}
  MaxResends = 0
  MaxAborts = 1
  MaxFailures = 1
SPECIFICATION LiveSpec
CHECK_DEADLOCK FALSE
INVARIANTS EndedTasksShowResults RunningIsOwned
PROPERTIES HangingTasksEnd AnsweredTasksAreDecided
