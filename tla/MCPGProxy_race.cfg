\* Two simple queries.
SPECIFICATION Spec
CONSTANTS
  s1 = s1
  q1 = q1
  q2 = q2
  Stmts = {s1}
  NoStmt = NoStmt
  Queries = {q1, q2}
  NoQuery = NoQuery
  Programs <- TwoSimple
  PendingCap = 2
  MaxRows = 1
  Ahead = 1
  MayHangUp = FALSE
INVARIANTS EventsMatchCycles
CHECK_DEADLOCK FALSE
