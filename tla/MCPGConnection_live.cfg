\* Every kind of startup, then progress and teardown of the relay with a
\* pending channel smaller than a batch.
SPECIFICATION ConnSpec
CONSTANTS
  s1 = s1
  q1 = q1
  q2 = q2
  Stmts = {s1}
  NoStmt = NoStmt
  Queries = {q1, q2}
  NoQuery = NoQuery
  Programs <- Stopping
  PendingCap = 1
  MaxRows = 1
  Ahead = 1
  MayHangUp = TRUE
  Clients <- AllClients
  Servers <- AllServers
INVARIANTS HandshakeInStep
PROPERTIES EverythingForwarded TeardownCompletes StartupEnds RelayIsUntimed
CHECK_DEADLOCK FALSE
