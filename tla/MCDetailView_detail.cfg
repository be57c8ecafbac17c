\* Two traces and one connection, for which two requests may compete.
SPECIFICATION Spec
CONSTANTS
  TraceIDs = {t1, t2}
  NoID = NoID
  Conns = 1
  MaxSpans = 2
  MaxActs = 3
INVARIANTS SettledPanel ResultUnderItsTrace QueryIsConfined PoolSurvives
PROPERTIES ExplainAnswered
CHECK_DEADLOCK FALSE
