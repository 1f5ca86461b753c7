CONSTANTS
  a1 = a1
  a2 = a2
  r1 = r1
  r2 = r2
  NULL = NULL
  Readers = {a1, a2, r1}
  Writers = {r1, r2}
  MaxWrites = 3
  MaxErrors = 1
  MaxExpiries = 1
  ScanInterval = 30
  ScanTimeout = 5
  MaxLateness = 2
  BaseDelay = 2
  MaxDelay = 64
  MaxFailures = 5
  ResetTimeout = 30
  Opens = {"o1"}
  Others = {"c1", "c2"}
  MaxRetries = 0
  MaxTroubles = 1
SPECIFICATION FairControlSpec
CHECK_DEADLOCK FALSE
INVARIANTS CacheMissesNoWrite ReaperComesBack
PROPERTIES AgentsStayVisible SilentAgentsLeave UploadsArePersisted ClosedStaysClosed SessionsAreForgotten
