\* Two requests and two responses in any order, an upstream that ends the call
\* with OK or a failure at any time, and a caller that may cancel.
SPECIFICATION FairSpec
CONSTANTS
  MaxRequests = 2
  MaxResponses = 2
  Failures = {"NotFound", "Unknown"}
INVARIANTS OKMeansComplete StatusKept SpanBeforeEnd
PROPERTIES CallsEnd
CHECK_DEADLOCK FALSE
