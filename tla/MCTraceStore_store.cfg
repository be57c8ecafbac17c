\* Three trace IDs over a ring of two and up to five spans that start and end
\* in any order: the ring wraps, evicted traces come back, and children precede
\* their parents; two subscribers come, go, come back and fall behind.
SPECIFICATION Spec
CONSTANTS
  TraceIDs = {t1, t2, t3}
  NoID = NoID
  MaxTraces = 2
  Starts <- TwoTimes
  Durations <- Lengths
  Subscribers = {s1, s2}
  ChanCap = 2
  MaxSpans = 5
SYMMETRY Symmetry
CONSTRAINT PlainWhenSubscribed
INVARIANTS TypeOK RingConsistent PagesAreWindows TimingTight Delivery
PROPERTIES ImplementsTraceLog
CHECK_DEADLOCK FALSE
