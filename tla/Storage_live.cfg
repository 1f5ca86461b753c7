CONSTANTS
  n1 = n1
  n2 = n2
  i1 = i1
  i2 = i2
  w1 = w1
  w2 = w2
  d1 = d1
  d2 = d2
  s1 = s1
  s2 = s2
  NULL = NULL
  Nodes = {n1, n2}
  LastHour = 3
  HoursPerDay = 3
  Seed = 1
  MaxFaults = 1
  Indices = {i1, i2}
  Threshold = 1
  DryRun = FALSE
  Writers = {w1, w2}
  Points = {d1, d2}
  KeyOf <- MCKeyOf
  BatchSize = 2
  MaxRetries = 1
  Statuses = {"ok", "error"}
  Values = {"x", "y"}
  Levels = {"error", "warn"}
  TraceIDs = {"t"}
  Pods = {"p"}
  Words = {"disk", "error", "err"}
  PartsOf <- MCPartsOf
  Limits = {99}
  Kinds = {"backward", "forward", "count"}
SPECIFICATION FairStorageSpec
CHECK_DEADLOCK FALSE
INVARIANTS NoGap ExclusiveSlice OneTaskPerIndex NothingVanishes ShutdownFlushes NoMatchIsMissed
PROPERTIES WatermarkMovesForward BacklogIsWorkedOff PurgeEnds
