------------------------------ MODULE TraceLog ------------------------------
(***************************************************************************)
(* What a trace store promises its readers (the Store interface of         *)
(* internal/trace/store.go): a log of at most Capacity traces, oldest      *)
(* first in the order their first span arrived.  A span of a trace in the  *)
(* log joins that trace; a span of any other trace opens a new one at the  *)
(* end and, when the log is at capacity, drops the trace at the front,     *)
(* whatever spans it holds.  How the log is kept (map, ring, cursor) is    *)
(* the business of the module TraceStore, which implements this one.       *)
(***************************************************************************)
EXTENDS Naturals, Sequences

CONSTANTS
  Spans,      \* the spans that can be submitted, records with a field trace
  Capacity    \* how many traces are retained, at least one

VARIABLE log  \* sequence of [id, spans], oldest trace first

LogIDs == {log[i].id : i \in DOMAIN log}

(* A span of a retained trace is appended to that trace, in place. *)
Extend(span) ==
  \E i \in DOMAIN log :
    /\ log[i].id = span.trace
    /\ log' = [log EXCEPT ![i] = [id    |-> span.trace,
                                  spans |-> Append(log[i].spans, span)]]

Opened(span) == [id |-> span.trace, spans |-> <<span>>]

(* A span of an unknown trace opens it; the front makes room if it must. *)
Open(span) ==
  /\ span.trace \notin LogIDs
  /\ log' = IF Len(log) = Capacity
            THEN Append(Tail(log), Opened(span))
            ELSE Append(log, Opened(span))

Init == log = <<>>

Next == \E span \in Spans : Extend(span) \/ Open(span)

Spec == Init /\ [][Next]_log
=============================================================================
