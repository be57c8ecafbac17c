---------------------------- MODULE TraceContext ----------------------------
(***************************************************************************)
(* W3C traceparent headers as internal/trace/traceparent.go reads and      *)
(* writes them, and the IDs of internal/trace/model.go.  A header is the   *)
(* sequence of its parts between dashes; of a part the specification keeps *)
(* its length, the class of its characters and its identity.               *)
(***************************************************************************)
EXTENDS Naturals, Sequences

Digits == {"zeros", "lower", "upper", "other"}
Part   == [len : Nat, digits : Digits, id : STRING]

TraceID(id) == [len |-> 32, digits |-> "lower", id |-> id]
SpanID(id)  == [len |-> 16, digits |-> "lower", id |-> id]
Version     == [len |-> 2, digits |-> "zeros", id |-> "00"]
Flags       == [len |-> 2, digits |-> "lower", id |-> "01"]
NoID        == [len |-> 0, digits |-> "lower", id |-> ""]

(* What W3C Trace Context asks of an ID of n digits. *)
ValidID(p, n) == p.len = n /\ p.digits = "lower"

(* The IDs NewTraceID and NewSpanID draw: 16 and 8 random bytes in hex.    *)
(* That they are new, and not all zero, holds with high probability and is *)
(* assumed.                                                                *)
NewTraceID == TraceID("new trace")
NewSpanID  == SpanID("new span")

(* Deliberately wrong, and used by no definition: upper case passes. *)
Mut_isLowerHex(p) == p.len % 2 = 0 /\ p.digits \in {"zeros", "lower", "upper"}

isLowerHex(p) == p.len % 2 = 0 /\ p.digits \in {"zeros", "lower"}

Parsed(header) == [trace |-> header[2], span |-> header[3]]

(* The checks in the order of the code: number of parts, lengths,          *)
(* characters, all-zero IDs.                                               *)
ParseTraceparent(header) ==
  /\ Len(header) = 4
  /\ header[2].len = 32 /\ header[3].len = 16
  /\ isLowerHex(header[2]) /\ isLowerHex(header[3])
  /\ header[2].digits # "zeros" /\ header[3].digits # "zeros"

FormatTraceparent(traceID, spanID) == <<Version, traceID, spanID, Flags>>
=============================================================================
