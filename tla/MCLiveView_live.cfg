\* A ring of one slot, a page with a channel of two messages that may break
\* off, and four spans: a trace can be shown, evicted, missed and shown again.
SPECIFICATION FairLiveSpec
CONSTANTS
  TraceIDs = {t1, t2}
  NoID = NoID
  MaxTraces = 1
  Starts <- Unit
  Durations <- Instant
  Subscribers = {hub}
  Hub = hub
  ChanCap = 1
  MaxSpans = 4
  Pages = {p1}
  ClientCap = 2
  ListLimit = 2
  MayBreak = TRUE
INVARIANTS ReachedIsShown ShownWithoutGaps
PROPERTIES BroadcastEnds
CHECK_DEADLOCK FALSE
