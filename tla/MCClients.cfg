CONSTANTS
  MaxRequests = 4
  MaxSessions = 2
  MaxIds = 3
  Bypassing = {"chat"}
  Tasks = {"t1", "t2", "t3", "w", "v", "s"}
  Kind <- MCKind
  Call <- MCCall
  MaxEvents = 4
  MaxRetry = 1
  Teleports = {"t1", "t2"}
  Branches = {"main", "side"}
  Main = "main"
  MaxCommits = 2
  MaxWork = 1
  MaxWaits = 1
  Lifetime = 4
  MaxFailures = 3
SPECIFICATION Spec
INVARIANTS AcpSafe RemoteSafe HandoverSafe
PROPERTY ClientsSettle
CHECK_DEADLOCK FALSE
