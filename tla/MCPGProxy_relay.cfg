\* Every kind of message, pipelined two cycles deep, on a connection either
\* side may drop.
SPECIFICATION Spec
CONSTANTS
  s1 = s1
  q1 = q1
  q2 = q2
  Stmts = {s1}
  NoStmt = NoStmt
  Queries = {q1, q2}
  NoQuery = NoQuery
  Programs <- AllPrograms
  PendingCap = 3
  MaxRows = 1
  Ahead = 2
  MayHangUp = TRUE
INVARIANTS TransparentRelay EventCountsOneCycle OneStatementPerSync
CHECK_DEADLOCK FALSE
