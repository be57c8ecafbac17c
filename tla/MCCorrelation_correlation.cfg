\* Three requests, which may overlap, abort and expire, and a query, commented
\* or not, that may be reported after any of them has ended.
SPECIFICATION Spec
CONSTANTS
  Requests = {r1, r2, r3}
  SQLQueries = {k1}
  Comments = {"OK", "Invalid", "Absent"}
  NoContext = NoContext
  TTL = 2
  MaxTime = 3
  MaxOpen = 3
  MayAbort = TRUE
INVARIANTS TypeOK StackIsOpenRequests
PROPERTIES ReportedUnderLiveRequest FiledWhenLatest
CHECK_DEADLOCK FALSE
