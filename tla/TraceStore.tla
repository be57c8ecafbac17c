----------------------------- MODULE TraceStore -----------------------------
(***************************************************************************)
(* The in-memory trace store of internal/trace/memstore.go: a map from     *)
(* trace ID to trace, a ring of trace IDs in creation order that decides   *)
(* which trace is evicted, and a set of subscriber channels that are       *)
(* notified of every span without ever blocking the submitter.             *)
(*                                                                         *)
(* Add, Subscribe and Unsubscribe hold the store's mutex from their first  *)
(* access to their last, so each is one action; a subscriber receives from *)
(* its channel without the mutex, which is the action Receive.  (A         *)
(* receive that overtakes the end of Add commutes with what Add still has  *)
(* to do to the other channels.)                                           *)
(***************************************************************************)
EXTENDS Integers, Sequences, FiniteSets, FiniteSetsExt

CONSTANTS
  TraceIDs,     \* the trace IDs spans may carry
  NoID,         \* "": the content of a ring slot never written
  MaxTraces,    \* capacity of the ring (the flag --max-traces)
  Starts,       \* start times of spans; never the zero time
  Durations,    \* durations of spans
  Subscribers,  \* the holders of subscriber channels
  ChanCap,      \* capacity of a subscriber channel (64 in the code)
  MaxSpans      \* bound of the model: how many spans are submitted

ASSUME MaxTracesAssumption == MaxTraces \in Nat \ {0}
ASSUME NoIDAssumption      == NoID \notin TraceIDs
ASSUME TimesAssumption     == Starts \subseteq Nat \ {0} /\ Durations \subseteq Nat
ASSUME ChanCapAssumption   == ChanCap \in Nat \ {0}
ASSUME MaxSpansAssumption  == MaxSpans \in Nat

VARIABLES
  traces,       \* function: retained trace ID -> trace
  order,        \* the ring: slot -> trace ID
  pos,          \* the slot the next new trace is written to
  full,         \* the cursor has wrapped around at least once
  subscribers,  \* the subscribers registered with the store
  channel,      \* subscriber -> spans buffered in its channel
  added,        \* history: every span submitted, in order
  received,     \* history: subscriber -> spans it took from its channel
  taken,        \* history: subscriber, place in added -> how many spans it
                \* had taken from its channel when that span was submitted
  since,        \* history: subscriber -> Len(added) when it subscribed
  until         \* history: subscriber -> Len(added) when it unsubscribed

ringVars == <<traces, order, pos, full>>
subVars  == <<subscribers, channel, received, taken, since, until>>
vars     == <<ringVars, subVars, added>>

Slots == 0 .. MaxTraces - 1

(* A span; n is its place in the order of submissions and stands for the   *)
(* identity of the span and for the fields the store never looks at.       *)
Span  == [trace : TraceIDs, n : 1 .. MaxSpans, start : Starts, dur : Durations]
Trace == [id : TraceIDs, spans : Seq(Span), start : Nat, dur : Nat]

-----------------------------------------------------------------------------
(* Reading the store.  None of these changes it. *)

SpanEnds(spans)   == {spans[i].start + spans[i].dur : i \in DOMAIN spans}
SpanStarts(spans) == {spans[i].start : i \in DOMAIN spans}

(* The Mut_ operators of this module are deliberately wrong variants of the *)
(* definitions that follow them.  No definition uses them: each shows that *)
(* some property would notice the bug.                                     *)

(* Spans are taken to arrive in the order in which they started. *)
Mut_FirstSpanTiming(id, spans) ==
  [id |-> id, spans |-> spans, start |-> spans[1].start,
   dur |-> Max(SpanEnds(spans)) - spans[1].start]

(* A trace with its timing brought up to date: from the earliest start to  *)
(* the latest end over all its spans, which arrive in any order.           *)
updateTraceTiming(id, spans) ==
  [id |-> id, spans |-> spans, start |-> Min(SpanStarts(spans)),
   dur |-> Max(SpanEnds(spans)) - Min(SpanStarts(spans))]

(* How many slots hold a trace, and the i-th of them from the oldest on. *)
UsedSlots == IF full THEN MaxTraces ELSE pos

(* Reading starts at slot 0 even when the ring has wrapped. *)
Mut_SlotFromZero(i) == i

Slot(i) == IF full THEN (pos + i) % MaxTraces ELSE i

RingIDs == [i \in 1 .. UsedSlots |-> order[Slot(i - 1)]]

(* The elements of s that are in S, in their order.  (SelectSeq, as a      *)
(* recursive function: the provers know nothing of SelectSeq.)             *)
Only(s, S) ==
  LET F[i \in 0 .. Len(s)] == IF i = 0 THEN <<>>
                              ELSE IF s[i] \in S THEN Append(F[i - 1], s[i])
                              ELSE F[i - 1]
  IN  F[Len(s)]

orderedIDs == Only(RingIDs, TraceIDs)

GetTrace(id) == IF id \in DOMAIN traces THEN {traces[id]} ELSE {}

(* The limit is taken as the end of the page, not as its length. *)
Mut_ListTraces(offset, limit) ==
  LET total == Cardinality(DOMAIN traces)
      last  == IF limit > 0 /\ limit < total THEN limit ELSE total
  IN  IF total = 0 \/ offset >= total
      THEN <<>>
      ELSE LET ids == SubSeq(orderedIDs, offset + 1, last)
           IN  [i \in DOMAIN ids |-> traces[ids[i]]]

(* One page of the list, oldest trace first; limit 0 or less means all. *)
ListTraces(offset, limit) ==
  LET total == Cardinality(DOMAIN traces)
      rest  == SubSeq(orderedIDs, (IF offset > 0 THEN offset ELSE 0) + 1, Len(orderedIDs))
      page  == IF limit > 0 /\ limit < Len(rest) THEN SubSeq(rest, 1, limit) ELSE rest
      ids   == Only(page, DOMAIN traces)
  IN  IF total = 0 \/ offset >= total
      THEN <<>>
      ELSE [i \in DOMAIN ids |-> traces[ids[i]]]

-----------------------------------------------------------------------------
(* Submitting a span. *)

(* The loop over the channels ends at one that is full. *)
Mut_NotifyStops(span) ==
  /\ channel' = [s \in Subscribers |->
                   IF s \in subscribers /\ \A r \in subscribers : Len(channel[r]) < ChanCap
                   THEN Append(channel[s], span) ELSE channel[s]]
  /\ taken' = [s \in Subscribers |->
                 Append(taken[s], IF s \in subscribers THEN Len(received[s]) ELSE 0)]
  /\ UNCHANGED <<subscribers, received, since, until>>

(* Every registered channel gets the span unless its buffer is full. *)
Notify(span) ==
  /\ channel' = [s \in Subscribers |->
                   IF s \in subscribers /\ Len(channel[s]) < ChanCap
                   THEN Append(channel[s], span) ELSE channel[s]]
  /\ taken' = [s \in Subscribers |->
                 Append(taken[s], IF s \in subscribers THEN Len(received[s]) ELSE 0)]
  /\ UNCHANGED <<subscribers, received, since, until>>

(* The span belongs to a retained trace: the ring is not touched. *)
AddToKnown(span) ==
  /\ span.trace \in DOMAIN traces
  /\ traces' = [traces EXCEPT ![span.trace] =
                  updateTraceTiming(span.trace, Append(@.spans, span))]
  /\ UNCHANGED <<order, pos, full>>

(* The trace under the cursor, which a full ring gives up. *)
Evicted == IF full THEN {order[pos]} ELSE {}

(* The slot is overwritten, and its old trace stays in the map. *)
Mut_AddNewNoEvict(span) ==
  /\ span.trace \notin DOMAIN traces
  /\ traces' = [id \in DOMAIN traces \cup {span.trace} |->
                  IF id = span.trace THEN updateTraceTiming(id, <<span>>)
                                     ELSE traces[id]]
  /\ order' = [order EXCEPT ![pos] = span.trace]
  /\ pos'   = IF pos + 1 >= MaxTraces THEN 0 ELSE pos + 1
  /\ full'  = (full \/ pos + 1 >= MaxTraces)

(* The cursor runs past the end of the ring before it wraps. *)
Mut_WrapLate(span) ==
  /\ span.trace \notin DOMAIN traces
  /\ traces' = [id \in (DOMAIN traces \ Evicted) \cup {span.trace} |->
                  IF id = span.trace THEN updateTraceTiming(id, <<span>>)
                                     ELSE traces[id]]
  /\ order' = [order EXCEPT ![pos] = span.trace]
  /\ pos'   = IF pos + 1 > MaxTraces THEN 0 ELSE pos + 1
  /\ full'  = (full \/ pos + 1 > MaxTraces)

(* The span opens a trace: it takes the slot under the cursor, and the     *)
(* cursor moves on, wrapping at the end of the ring.                       *)
AddNew(span) ==
  /\ span.trace \notin DOMAIN traces
  /\ traces' = [id \in (DOMAIN traces \ Evicted) \cup {span.trace} |->
                  IF id = span.trace THEN updateTraceTiming(id, <<span>>)
                                     ELSE traces[id]]
  /\ order' = [order EXCEPT ![pos] = span.trace]
  /\ pos'   = IF pos + 1 >= MaxTraces THEN 0 ELSE pos + 1
  /\ full'  = (full \/ pos + 1 >= MaxTraces)

(* MemStore.Add, which Collector.Submit calls for every finished span. *)
Add(span) ==
  /\ added' = Append(added, span)
  /\ AddToKnown(span) \/ AddNew(span)
  /\ Notify(span)

Submit ==
  /\ Len(added) < MaxSpans
  /\ \E id \in TraceIDs, start \in Starts, dur \in Durations :
       Add([trace |-> id, n |-> Len(added) + 1, start |-> start, dur |-> dur])

-----------------------------------------------------------------------------
(* Subscriptions. *)

(* A new, empty channel is registered. *)
Subscribe(s) ==
  /\ s \notin subscribers
  /\ subscribers' = subscribers \cup {s}
  /\ channel'     = [channel EXCEPT ![s] = <<>>]
  /\ received'    = [received EXCEPT ![s] = <<>>]
  /\ taken'       = [taken EXCEPT ![s] = [n \in DOMAIN added |-> 0]]
  /\ since'       = [since EXCEPT ![s] = Len(added)]
  /\ UNCHANGED <<ringVars, added, until>>

(* The channel is taken off the list; what it buffers stays readable. *)
Unsubscribe(s) ==
  /\ s \in subscribers
  /\ until' = [until EXCEPT ![s] = Len(added)]
  /\ subscribers' = subscribers \ {s}
  /\ UNCHANGED <<ringVars, added, channel, received, taken, since>>

Receive(s) ==
  /\ channel[s] # <<>>
  /\ received' = [received EXCEPT ![s] = Append(@, Head(channel[s]))]
  /\ channel'  = [channel EXCEPT ![s] = Tail(@)]
  /\ UNCHANGED <<ringVars, added, subscribers, taken, since, until>>

-----------------------------------------------------------------------------
(* NewMemStore: an empty map, a ring of empty strings, no subscriber. *)
Init ==
  /\ traces      = [id \in {} |-> {}]
  /\ order       = [i \in Slots |-> NoID]
  /\ pos         = 0
  /\ full        = FALSE
  /\ subscribers = {}
  /\ channel     = [s \in Subscribers |-> <<>>]
  /\ added       = <<>>
  /\ received    = [s \in Subscribers |-> <<>>]
  /\ taken       = [s \in Subscribers |-> <<>>]
  /\ since       = [s \in Subscribers |-> 0]
  /\ until       = [s \in Subscribers |-> 0]

Next ==
  \/ Submit
  \/ \E s \in Subscribers : Subscribe(s) \/ Unsubscribe(s) \/ Receive(s)

Spec == Init /\ [][Next]_vars

-----------------------------------------------------------------------------
(* Properties. *)

(* Every variable of the store has the type the Go declarations give it,   *)
(* the cursor stays inside the ring, and no channel exceeds its capacity.  *)
TypeOK ==
  /\ DOMAIN traces \subseteq TraceIDs
  /\ traces = [id \in DOMAIN traces |-> traces[id]]
  /\ \A id \in DOMAIN traces : traces[id] \in Trace /\ traces[id].id = id
  /\ order \in [Slots -> TraceIDs \cup {NoID}]
  /\ pos \in Slots
  /\ full \in BOOLEAN
  /\ subscribers \subseteq Subscribers
  /\ channel \in [Subscribers -> Seq(Span)]
  /\ \A s \in Subscribers : Len(channel[s]) <= ChanCap
  /\ added \in Seq(Span)
  /\ received \in [Subscribers -> Seq(Span)]
  /\ taken \in [Subscribers -> Seq(Nat)]
  /\ \A s \in Subscribers : Len(taken[s]) = Len(added)
  /\ since \in [Subscribers -> Nat]
  /\ until \in [Subscribers -> Nat]

WrittenSlots == IF full THEN Slots ELSE 0 .. pos - 1

SlotsDistinct   == \A i, j \in WrittenSlots : order[i] = order[j] => i = j
SlotsMatchMap   == {order[i] : i \in WrittenSlots} = DOMAIN traces
RestNeverWritten == \A i \in Slots \ WrittenSlots : order[i] = NoID

(* The map and the ring of MemStore.Add never drift apart: the slots       *)
(* written so far hold exactly the IDs of the retained traces, each once,  *)
(* through any number of wrap-arounds and of traces that come back after   *)
(* they were evicted.  Otherwise delete(m.traces, oldID) would free the    *)
(* wrong trace or none, and the map would outgrow --max-traces.            *)
RingConsistent == SlotsDistinct /\ SlotsMatchMap /\ RestNeverWritten

(* The IDs retained after the first n submissions, computed from the       *)
(* submissions alone.                                                      *)
Retained ==
  LET R[n \in 0 .. Len(added)] ==
        IF n = 0 THEN <<>>
        ELSE LET before == R[n - 1]
                 id     == added[n].trace
             IN  IF \E i \in DOMAIN before : before[i] = id THEN before
                 ELSE IF Len(before) = MaxTraces THEN Append(Tail(before), id)
                 ELSE Append(before, id)
  IN  R[Len(added)]

Window(s, offset, limit) ==
  SubSeq(s, offset + 1, IF limit > 0 THEN Min({offset + limit, Len(s)}) ELSE Len(s))

(* Every page ListTraces returns is the window [offset, offset+limit) of   *)
(* the traces the history of submissions says are retained, in creation    *)
(* order, and GetTrace finds exactly those: no page skips, repeats or      *)
(* reorders a trace because the ring has wrapped.                          *)
PagesAreWindows ==
  /\ \A offset \in 0 .. MaxTraces + 1, limit \in 0 .. MaxTraces + 1 :
       LET page == ListTraces(offset, limit)
       IN  [i \in DOMAIN page |-> page[i].id] = Window(Retained, offset, limit)
  /\ \A id \in TraceIDs :
       GetTrace(id) # {} <=> \E i \in DOMAIN Retained : Retained[i] = id

Tight(t) ==
  /\ \A i \in DOMAIN t.spans :
       /\ t.start <= t.spans[i].start
       /\ t.spans[i].start + t.spans[i].dur <= t.start + t.dur
  /\ \E i \in DOMAIN t.spans : t.spans[i].start = t.start
  /\ \E i \in DOMAIN t.spans : t.spans[i].start + t.spans[i].dur = t.start + t.dur

(* The interval a trace reports (Trace.Start, Trace.Duration) covers every *)
(* span it holds and is no wider, although a child span is submitted       *)
(* before its parent, whose start is earlier and whose end is later.       *)
TimingTight == \A id \in DOMAIN traces : Tight(traces[id])

(* Everything put on the channel of s during its latest subscription. *)
Stream(s)  == received[s] \o channel[s]
Horizon(s) == IF s \in subscribers THEN Len(added) ELSE until[s]

(* A subscriber is sent spans in the order they were submitted, none       *)
(* twice, none from before Subscribe and none from after Unsubscribe.      *)
DeliveredInOrder ==
  \A s \in Subscribers :
    /\ \A i \in DOMAIN Stream(s) :
         /\ Stream(s)[i].n \in since[s] + 1 .. Horizon(s)
         /\ Stream(s)[i] = added[Stream(s)[i].n]
    /\ \A i, j \in DOMAIN Stream(s) : i < j => Stream(s)[i].n < Stream(s)[j].n

(* Spans from before the n-th that were waiting in the channel of s when   *)
(* the n-th was submitted: those sent to it, less those it had taken.      *)
Unread(s, n) == Cardinality({i \in DOMAIN Stream(s) : Stream(s)[i].n < n}) - taken[s][n]

(* A span submitted while s was subscribed and missing from its stream     *)
(* found the channel full at that moment: ChanCap spans were waiting.  So a*)
(* subscriber that takes its spans in time loses none, however many they   *)
(* are and however slow the others.                                        *)
LossNeedsFullChannel ==
  \A s \in Subscribers : \A n \in since[s] + 1 .. Horizon(s) :
    (\E i \in DOMAIN Stream(s) : Stream(s)[i].n = n) \/ Unread(s, n) >= ChanCap

(* What MemStore.Add promises a subscriber: its spans in order, and all of *)
(* them as long as it keeps up.                                            *)
Delivery == DeliveredInOrder /\ LossNeedsFullChannel

(* The retained traces in creation order, read off the ring. *)
LogView == [i \in 1 .. UsedSlots |->
              [id |-> RingIDs[i], spans |-> traces[RingIDs[i]].spans]]

Log == INSTANCE TraceLog WITH Spans <- Span, Capacity <- MaxTraces, log <- LogView

(* The ring and the map, read in creation order, are the log of TraceLog,  *)
(* and MemStore.Add is its Extend or its Open: eviction always takes the   *)
(* trace created first, and a trace that is still retained keeps every     *)
(* span it was given since it was last opened.                             *)
ImplementsTraceLog == Log!Spec
=============================================================================
