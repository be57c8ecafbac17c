\* Bodies around the capture limit, clients that hold bytes back or leave, and
\* upstreams that answer early, in pieces, badly or not at all.
SPECIFICATION FairSpec
CONSTANTS
  Requests <- AllRequests
  Responses <- AllResponses
  MaxBodySize = 2
  MaxDiscard = 1
INVARIANTS PassesIntact SpanIsTrue ContextContinued
 
CHECK_DEADLOCK FALSE
