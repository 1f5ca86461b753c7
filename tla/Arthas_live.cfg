CONSTANTS
  Nodes = {"n1", "n2"}
  Sweepers = {}
  Askers = {}
  MaxConns = 2
  MaxTroubles = 0
  MaxSessions = 2
  Requests = {"r1", "r2"}
  Programmatic = {"r2"}
  Tunnels = {"u1", "u2"}
  Distributed = TRUE
  MaxFaults = 1
  Shutdowns = TRUE
  NULL = NULL
SPECIFICATION FairArthasSpec
CHECK_DEADLOCK FALSE
INVARIANTS ServedIsConnected NothingPends
PROPERTIES RequestsEnd DeadNodesAreCleared SessionRequestsEnd
