-------------------------- MODULE HttpProxyProofs --------------------------
(***************************************************************************)
(* Theorems about HttpProxy, for every request, every response and every   *)
(* limit.  The trace context needs no invariant beside its own.  For the   *)
(* rest the inductive invariant is HttpInv: BodySound accounts for every   *)
(* byte of the request (captured, held, on the wire, thrown away, or with  *)
(* the upstream), DrainSound says when net/http throws bytes away before   *)
(* the header, and ResponseSound accounts for every part of the response,  *)
(* what the recorder made of it, and the span.                             *)
(***************************************************************************)
EXTENDS HttpProxy, SequenceTheorems, WellFoundedInduction, TLAPS

-----------------------------------------------------------------------------
(* Trace context. *)

(* A step other than Start changes neither the context nor the request,    *)
(* and does not leave the handler's first position.                        *)
LEMMA OnlyStartSetsContext ==
  ASSUME [Next]_vars, ~ Start
  PROVE  /\ UNCHANGED <<request, ids, traceparent>>
         /\ handler = "start" <=> handler' = "start"
<1>1. CASE ClientSends \/ ClientEnds \/ ClientLeaves
  BY <1>1 DEF ClientSends, ClientEnds, ClientLeaves, contextVars
<1>2. CASE CaptureReads \/ CaptureEnds \/ Probe
  BY <1>2 DEF CaptureReads, CaptureEnds, Probe, Forward, contextVars, clientVars
<1>3. CASE RelayItem \/ Flush \/ BufferSpills \/ Drain \/ DrainEnds
  BY <1>3 DEF RelayItem, Flush, BufferSpills, Send, Drain, Discard, DrainEnds,
     contextVars, clientVars
<1>4. CASE RelayEnds \/ BadGateway \/ Panic \/ CloseDiscards \/ CloseEnds
  BY <1>4 DEF RelayEnds, BadGateway, Panic, Leave, CloseDiscards, Discard, CloseEnds,
     contextVars, clientVars
<1>5. CASE Submit \/ End
  BY <1>5 DEF Submit, End, contextVars, clientVars
<1>6. CASE Pump \/ TransportDrops \/ UpstreamSays
  BY <1>6 DEF Pump, TransportDrops, UpstreamSays, contextVars, clientVars
<1>7. CASE UNCHANGED vars
  BY <1>7 DEF vars, contextVars, clientVars
<1>8. QED BY <1>1, <1>2, <1>3, <1>4, <1>5, <1>6, <1>7 DEF Next, HandlerStep

(* Start continues a valid context and replaces any other.                 *)
LEMMA StartSetsContext ==
  ASSUME Start
  PROVE  ContextContinued'
<1> DEFINE h == request.header
<1>1. /\ request' = request /\ ids' = extractOrCreate(h)
      /\ traceparent' = FormatTraceparent(ids'.trace, ids'.span)
  BY DEF Start, clientVars
<1>2. traceparent'[2] = ids'.trace /\ traceparent'[3] = ids'.span
  BY <1>1 DEF FormatTraceparent
<1>3. CASE h # <<>> /\ ParseTraceparent(h)
  <2>1. Len(h) = 4 /\ ValidID(h[2], 32) /\ ValidID(h[3], 16)
    BY <1>3 DEF ParseTraceparent, isLowerHex, ValidID
  <2>2. ids' = [trace |-> h[2], parent |-> h[3], span |-> NewSpanID]
    BY <1>1, <1>3 DEF extractOrCreate, Parsed
  <2>3. ValidID(ids'.span, 16)
    BY <2>2 DEF ValidID, NewSpanID, SpanID
  <2>4. QED BY <1>1, <1>2, <2>1, <2>2, <2>3 DEF ContextContinued
<1>4. CASE ~ (h # <<>> /\ ParseTraceparent(h))
  <2>1. ids' = [trace |-> NewTraceID, parent |-> NoID, span |-> NewSpanID]
    BY <1>1, <1>4 DEF extractOrCreate
  <2>2. ValidID(ids'.trace, 32) /\ ValidID(ids'.span, 16)
    BY <2>1 DEF ValidID, NewTraceID, NewSpanID, TraceID, SpanID
  <2>3. ~ (Len(h) = 4 /\ ValidID(h[2], 32) /\ ValidID(h[3], 16))
    <3>1. SUFFICES ASSUME Len(h) = 4, ValidID(h[2], 32), ValidID(h[3], 16)
                   PROVE  FALSE
      OBVIOUS
    <3>2. h # <<>>
      BY <3>1
    <3>3. ParseTraceparent(h)
      BY <3>1 DEF ParseTraceparent, isLowerHex, ValidID
    <3>4. QED BY <1>4, <3>2, <3>3
  <2>4. QED BY <1>1, <1>2, <2>1, <2>2, <2>3 DEF ContextContinued
<1>5. QED BY <1>3, <1>4

(* For any header: the upstream is given a valid header that names this    *)
(* request's span, a valid context of the client's is continued, and an    *)
(* invalid one never enters the store (extractOrCreate).                   *)
THEOREM ContextAlwaysContinued == Spec => []ContextContinued
<1>1. Init => ContextContinued
  BY DEF Init, ContextContinued
<1>2. ContextContinued /\ [Next]_vars => ContextContinued'
  <2>1. SUFFICES ASSUME ContextContinued, [Next]_vars PROVE ContextContinued'
    OBVIOUS
  <2>2. CASE Start
    BY <2>2, StartSetsContext
  <2>3. CASE ~ Start
    BY <2>1, <2>3, OnlyStartSetsContext DEF ContextContinued
  <2>4. QED BY <2>2, <2>3
<1>3. QED BY <1>1, <1>2, PTL DEF Spec

-----------------------------------------------------------------------------
(* Runs of consecutive bytes. *)

Run(s, a) == s = [i \in 1 .. Len(s) |-> a + i]

(* A run of no bytes. *)
LEMMA RunEmpty ==
  ASSUME NEW a \in Nat
  PROVE  Run(<<>>, a)
BY DEF Run

(* A run and the byte that comes next. *)
LEMMA RunAppend ==
  ASSUME NEW s \in Seq(Nat), NEW a \in Nat, Run(s, a)
  PROVE  Run(Append(s, a + Len(s) + 1), a)
<1> DEFINE t == Append(s, a + Len(s) + 1)
<1>1. t \in Seq(Nat) /\ Len(t) = Len(s) + 1
  OBVIOUS
<1>2. \A i \in 1 .. Len(t) : t[i] = a + i
  BY DEF Run
<1> HIDE DEF t
<1>3. t = [i \in 1 .. Len(t) |-> a + i]
  BY <1>1, <1>2
<1>4. QED BY <1>3 DEF Run, t

(* A run and the run that comes next. *)
LEMMA RunConcat ==
  ASSUME NEW s \in Seq(Nat), NEW t \in Seq(Nat), NEW a \in Nat,
         Run(s, a), Run(t, a + Len(s))
  PROVE  Run(s \o t, a)
<1> DEFINE u == s \o t
<1>1. u \in Seq(Nat) /\ Len(u) = Len(s) + Len(t)
  OBVIOUS
<1>2. \A i \in 1 .. Len(u) : u[i] = a + i
  <2> SUFFICES ASSUME NEW i \in 1 .. Len(u) PROVE u[i] = a + i
    OBVIOUS
  <2>1. CASE i <= Len(s)
    BY <2>1 DEF Run
  <2>2. CASE i > Len(s)
    <3>1. u[i] = t[i - Len(s)] /\ i - Len(s) \in 1 .. Len(t)
      BY <1>1, <2>2
    <3>2. t[i - Len(s)] = a + Len(s) + (i - Len(s))
      BY <3>1 DEF Run
    <3>3. QED BY <3>1, <3>2
  <2>3. QED BY <2>1, <2>2
<1> HIDE DEF u
<1>3. u = [i \in 1 .. Len(u) |-> a + i]
  BY <1>1, <1>2
<1>4. QED BY <1>3 DEF Run, u

(* A run in two parts. *)
LEMMA RunSplit ==
  ASSUME NEW s \in Seq(Nat), NEW a \in Nat, Run(s, a), NEW n \in 0 .. Len(s)
  PROVE  /\ SubSeq(s, 1, n) \in Seq(Nat) /\ Len(SubSeq(s, 1, n)) = n
         /\ Run(SubSeq(s, 1, n), a)
         /\ SubSeq(s, n + 1, Len(s)) \in Seq(Nat)
         /\ Len(SubSeq(s, n + 1, Len(s))) = Len(s) - n
         /\ Run(SubSeq(s, n + 1, Len(s)), a + n)
<1>1. \A i \in 1 .. Len(s) : s[i] = a + i
  BY DEF Run
<1>2. PICK t : t = SubSeq(s, 1, n)
  OBVIOUS
<1>3. PICK u : u = SubSeq(s, n + 1, Len(s))
  OBVIOUS
<1>4. /\ t \in Seq(Nat) /\ Len(t) = n
      /\ \A i \in 1 .. n : t[i] = a + i
  BY <1>1, <1>2
<1>5. /\ u \in Seq(Nat) /\ Len(u) = Len(s) - n
      /\ \A i \in 1 .. Len(s) - n : u[i] = (a + n) + i
  BY <1>1, <1>3
<1>6. Run(t, a)
  <2>1. t = [i \in 1 .. Len(t) |-> a + i]
    BY <1>4
  <2>2. QED BY <2>1 DEF Run
<1>7. Run(u, a + n)
  <2>1. u = [i \in 1 .. Len(u) |-> (a + n) + i]
    BY <1>5
  <2>2. QED BY <2>1 DEF Run
<1>8. QED BY <1>2, <1>3, <1>4, <1>5, <1>6, <1>7, Zenon

(* A run without its first byte. *)
LEMMA RunTail ==
  ASSUME NEW s \in Seq(Nat), NEW a \in Nat, Run(s, a), s # <<>>
  PROVE  /\ Head(s) = a + 1 /\ Tail(s) \in Seq(Nat)
         /\ Len(Tail(s)) = Len(s) - 1 /\ Run(Tail(s), a + 1)
<1>1. \A i \in 1 .. Len(s) : s[i] = a + i
  BY DEF Run
<1>2. PICK t : t = Tail(s)
  OBVIOUS
<1>3. /\ Head(s) = a + 1 /\ t \in Seq(Nat) /\ Len(t) = Len(s) - 1
      /\ \A i \in 1 .. Len(t) : t[i] = (a + 1) + i
  BY <1>1, <1>2
<1>4. t = [i \in 1 .. Len(t) |-> (a + 1) + i]
  BY <1>3
<1>5. QED BY <1>2, <1>3, <1>4 DEF Run

(* A run from the first byte on is a beginning of the body. *)
LEMMA RunIsBytes ==
  ASSUME NEW s \in Seq(Nat), Run(s, 0)
  PROVE  s = Bytes(Len(s))
<1>1. \A i \in 1 .. Len(s) : s[i] = i
  BY DEF Run
<1>2. s = [i \in 1 .. Len(s) |-> i]
  BY <1>1
<1>3. QED BY <1>2 DEF Bytes

(* The beginning of a sequence. *)
LEMMA TakeIs ==
  ASSUME NEW S, NEW s \in Seq(S), NEW n \in Nat
  PROVE  /\ Take(s, n) \in Seq(S)
         /\ n <= Len(s) => Len(Take(s, n)) = n
         /\ n >= Len(s) => Take(s, n) = s
         /\ \A i \in 1 .. Len(Take(s, n)) : Take(s, n)[i] = s[i]
<1>1. CASE Len(s) < n
  <2>1. Take(s, n) = SubSeq(s, 1, Len(s))
    BY <1>1 DEF Take
  <2>2. Take(s, n) = s
    BY <2>1, SubSeqFull
  <2>3. QED BY <1>1, <2>2
<1>2. CASE ~ (Len(s) < n)
  <2>1. Take(s, n) = SubSeq(s, 1, n)
    BY <1>2 DEF Take
  <2>2. n <= Len(s)
    BY <1>2
  <2>3. PICK t : t = SubSeq(s, 1, n)
    OBVIOUS
  <2>4. t \in Seq(S) /\ Len(t) = n /\ \A i \in 1 .. n : t[i] = s[i]
    BY <2>2, <2>3
  <2>5. n >= Len(s) => t = s
    BY <2>2, <2>3, SubSeqFull
  <2>6. QED BY <2>1, <2>3, <2>4, <2>5
<1>3. QED BY <1>1, <1>2

-----------------------------------------------------------------------------
(* The request. *)

Positions == {"start", "capture", "relay", "drain", "close", "unwind", "submit", "end",
              "done", "aborted"}

BodyTypes ==
  /\ request \in Requests /\ handler \in Positions
  /\ sent \in 0 .. request.length /\ body \in {"open", "eof", "broken"}
  /\ body = "eof" => sent = request.length
  /\ wire \in Seq(Nat) /\ reqBody \in Seq(Nat) /\ held \in Seq(Nat) /\ upGot \in Seq(Nat)
  /\ discarded \in Nat /\ bodyClosed \in BOOLEAN /\ lost \in BOOLEAN
  /\ Run(reqBody, 0) /\ Len(reqBody) <= MaxBodySize

(* Before ReverseProxy has the request: what was captured and what is on   *)
(* the wire is what the client has sent.                                   *)
Capturing ==
  /\ held = <<>> /\ upGot = <<>> /\ upEnd = "none" /\ cutShort = FALSE
  /\ bodyClosed = FALSE /\ lost = FALSE
  /\ Run(wire, Len(reqBody)) /\ Len(reqBody) + Len(wire) = sent

(* The body fitted, or a read error cut it short: the upstream gets what   *)
(* was captured, whose length was announced.                               *)
SendingWhole ==
  /\ contentLength = Len(reqBody) /\ Len(reqBody) <= sent
  /\ bodyClosed = TRUE /\ lost = FALSE
  /\ Run(upGot, 0) /\ Run(held, Len(upGot))
  /\ Len(upGot) + Len(held) = Len(reqBody)
  /\ body # "open"
  /\ cutShort \/ (body = "eof" /\ Len(reqBody) = sent)
  /\ upEnd = "complete" => held = <<>>

(* Bytes that have left the wire. *)
Off == sent - Len(wire)

(* Some of these may have been thrown away, or will not be read any more.  *)
Skipped == bodyClosed \/ (handler \in {"close", "unwind"} /\ discarded > 0)

(* Numbers that increase, and do not exceed a. *)
Ordered(s, a) ==
  /\ \A i \in 1 .. Len(s) : s[i] <= a
  /\ \A i, j \in 1 .. Len(s) : i < j => s[i] < s[j]

(* It begins with the numbers up to m. *)
Begins(s, m) == \A i \in 1 .. Len(s) : i <= m => s[i] = i

(* There is more.  The wire has the last bytes sent.  The captured bytes   *)
(* and the probed one go to the upstream first, and later ones in order.   *)
(* Unless bytes were thrown away before the header, these too are without  *)
(* a gap; and as long as none are thrown away at the end either, what the  *)
(* upstream has, what the proxy holds and what is on the wire is what the  *)
(* client has sent.                                                        *)
SendingRest ==
  /\ contentLength = -1 /\ Len(reqBody) = MaxBodySize
  /\ MaxBodySize < Off /\ Run(wire, Off)
  /\ Run(held, 0)
  /\ held # <<>> => Len(held) = MaxBodySize + 1 /\ upGot = <<>>
  /\ held = <<>> => Len(upGot) > MaxBodySize
  /\ Ordered(upGot, Off) /\ Begins(upGot, MaxBodySize + 1)
  /\ ~ lost => Run(upGot, 0)
  /\ ~ lost /\ ~ Skipped => Len(upGot) + Len(held) = Off
  /\ upEnd = "complete" =>
       /\ held = <<>> /\ bodyClosed = TRUE /\ body = "eof"
       /\ ~ lost => Len(upGot) = sent

BodySound ==
  /\ BodyTypes
  /\ handler \in {"start", "capture"} => Capturing
  /\ handler \notin {"start", "capture"} =>
       /\ upEnd \in {"open", "complete", "broken"}
       /\ SendingWhole \/ SendingRest

(* Nothing has been sent. *)
LEMMA BodyInit == Init => BodySound
<1> SUFFICES ASSUME Init PROVE BodySound
  OBVIOUS
<1>1. request.length \in Nat /\ MaxBodySize \in Nat
  BY RequestsAssumption, MaxBodySizeAssumption DEF Init
<1>2. Run(<<>>, 0) /\ Len(<<>>) = 0 /\ <<>> \in Seq(Nat)
  BY RunEmpty
<1>3. BodyTypes
  <2>1. bodyClosed \in BOOLEAN /\ lost \in BOOLEAN
    BY Zenon DEF Init
  <2>2. QED BY <1>1, <1>2, <2>1 DEF Init, BodyTypes, Positions
<1>4. Capturing
  BY <1>1, <1>2 DEF Init, Capturing
<1>5. QED BY <1>3, <1>4 DEF Init, BodySound

(* Types of the numbers that the steps below compute with. *)
LEMMA BodyFacts ==
  ASSUME BodySound
  PROVE  /\ request.length \in Nat /\ MaxBodySize \in Nat /\ sent \in Nat
         /\ Len(wire) \in Nat /\ Len(reqBody) \in Nat /\ Len(held) \in Nat
         /\ Len(upGot) \in Nat /\ MaxDiscard \in Nat
BY RequestsAssumption, MaxBodySizeAssumption, MaxDiscardAssumption DEF BodySound, BodyTypes

(* A run is in order. *)
LEMMA RunOrdered ==
  ASSUME NEW s \in Seq(Nat), Run(s, 0), NEW a \in Nat, Len(s) <= a, NEW m \in Nat
  PROVE  Ordered(s, a) /\ Begins(s, m)
<1>1. \A i \in 1 .. Len(s) : s[i] = i
  BY DEF Run
<1>2. QED BY <1>1 DEF Ordered, Begins

(* Later bytes behind earlier ones are in order. *)
LEMMA OrderedConcat ==
  ASSUME NEW s \in Seq(Nat), NEW t \in Seq(Nat), NEW a \in Nat, NEW m \in Nat,
         Ordered(s, a), Run(t, a), Begins(s, m), Len(s) >= m
  PROVE  Ordered(s \o t, a + Len(t)) /\ Begins(s \o t, m)
<1>1. PICK u \in Seq(Nat) : u = s \o t
  BY ConcatProperties
<1>2. /\ Len(s) \in Nat /\ Len(t) \in Nat /\ Len(u) = Len(s) + Len(t)
      /\ \A i \in 1 .. Len(s) : u[i] = s[i]
      /\ \A i \in 1 .. Len(t) : u[Len(s) + i] = t[i]
  BY <1>1
<1>3. ASSUME NEW i \in 1 .. Len(u), i <= Len(s)
      PROVE  /\ i \in 1 .. Len(s) /\ u[i] = s[i] /\ u[i] \in Nat /\ u[i] <= a
  <2>1. i \in 1 .. Len(s)
    BY <1>2, <1>3
  <2>2. s[i] \in Nat /\ s[i] <= a
    BY <2>1 DEF Ordered
  <2>3. QED BY <1>2, <2>1, <2>2
<1>4. ASSUME NEW i \in 1 .. Len(u), i > Len(s)
      PROVE  u[i] = a + (i - Len(s)) /\ i - Len(s) \in 1 .. Len(t)
  <2>1. i - Len(s) \in 1 .. Len(t) /\ Len(s) + (i - Len(s)) = i
    BY <1>2, <1>4
  <2>2. u[i] = t[i - Len(s)]
    BY <1>2, <2>1
  <2>3. QED BY <2>1, <2>2 DEF Run
<1>5. \A i \in 1 .. Len(u) : u[i] <= a + Len(t)
  <2> SUFFICES ASSUME NEW i \in 1 .. Len(u) PROVE u[i] <= a + Len(t)
    OBVIOUS
  <2>1. CASE i <= Len(s)
    BY <1>2, <1>3, <2>1
  <2>2. CASE i > Len(s)
    BY <1>2, <1>4, <2>2
  <2>3. QED BY <1>2, <2>1, <2>2
<1>6. \A i, j \in 1 .. Len(u) : i < j => u[i] < u[j]
  <2> SUFFICES ASSUME NEW i \in 1 .. Len(u), NEW j \in 1 .. Len(u), i < j PROVE u[i] < u[j]
    OBVIOUS
  <2>1. CASE j <= Len(s)
    <3>1. i \in 1 .. Len(s) /\ j \in 1 .. Len(s) /\ u[i] = s[i] /\ u[j] = s[j]
      BY <1>2, <1>3, <2>1, SMTT(30)
    <3>2. QED BY <3>1 DEF Ordered
  <2>2. CASE i <= Len(s) /\ j > Len(s)
    <3>1. u[i] \in Nat /\ u[i] <= a
      BY <1>3, <2>2
    <3>2. u[j] = a + (j - Len(s)) /\ j - Len(s) >= 1
      BY <1>4, <2>2
    <3>3. QED BY <1>2, <3>1, <3>2
  <2>3. CASE i > Len(s)
    <3>1. u[i] = a + (i - Len(s)) /\ u[j] = a + (j - Len(s))
      BY <1>2, <1>4, <2>3
    <3>2. QED BY <1>2, <3>1
  <2>4. QED BY <1>2, <2>1, <2>2, <2>3
<1>7. \A i \in 1 .. Len(u) : i <= m => u[i] = i
  <2> SUFFICES ASSUME NEW i \in 1 .. Len(u), i <= m PROVE u[i] = i
    OBVIOUS
  <2>1. i \in 1 .. Len(s) /\ u[i] = s[i]
    BY <1>2, <1>3
  <2>2. QED BY <2>1 DEF Begins
<1>8. QED BY <1>1, <1>5, <1>6, <1>7 DEF Ordered, Begins

(* Steps that touch nothing of the request's body. *)
BodyIdle ==
  /\ UNCHANGED <<request, sent, body, wire, reqBody, contentLength, held, cutShort,
                 upGot, lost>>
  /\ upEnd' = upEnd \/ (upEnd = "open" /\ upEnd' = "broken")
  /\ discarded' \in Nat /\ bodyClosed' \in BOOLEAN
  /\ bodyClosed => bodyClosed'
  /\ Skipped => Skipped'
  /\ handler' \in Positions
  /\ handler \in {"start", "capture"} <=> handler' \in {"start", "capture"}
  /\ handler \in {"start", "capture"} => bodyClosed' = bodyClosed

(* A step that leaves the body alone. *)
LEMMA BodyKept ==
  ASSUME BodySound, BodyIdle
  PROVE  BodySound'
<1>1. BodyTypes'
  BY DEF BodySound, BodyTypes, BodyIdle
<1>2. CASE handler \in {"start", "capture"}
  BY <1>1, <1>2 DEF BodySound, BodyIdle, Capturing
<1>3. CASE handler \notin {"start", "capture"}
  <2>1. upEnd' \in {"open", "complete", "broken"} /\ (upEnd' = "complete" => upEnd = "complete")
    BY <1>3 DEF BodySound, BodyIdle
  <2>2. CASE SendingWhole
    <3>1. SendingWhole'
      BY <2>1, <2>2 DEF SendingWhole, BodyIdle
    <3>2. QED BY <1>1, <1>3, <2>1, <3>1 DEF BodySound, BodyIdle
  <2>3. CASE SendingRest
    <3>1. Off' = Off /\ (bodyClosed = TRUE => bodyClosed' = TRUE)
      BY DEF Off, BodyIdle
    <3>2. SendingRest'
      BY <2>1, <2>3, <3>1 DEF SendingRest, BodyIdle
    <3>3. QED BY <1>1, <1>3, <2>1, <3>2 DEF BodySound, BodyIdle
  <2>4. QED BY <1>3, <2>2, <2>3 DEF BodySound
<1>4. QED BY <1>2, <1>3

(* What is sent, or drained first. *)
SendSteps == Flush \/ BufferSpills

(* These steps leave the body alone. *)
LEMMA IdleSteps ==
  ASSUME BodySound,
         \/ Start \/ UpstreamSays \/ TransportDrops \/ SendSteps \/ DrainEnds \/ RelayItem
         \/ RelayEnds \/ BadGateway \/ Panic \/ CloseEnds \/ Submit \/ End \/ UNCHANGED vars
  PROVE  BodyIdle
<1>1. handler \in Positions /\ discarded \in Nat /\ bodyClosed \in BOOLEAN
  BY DEF BodySound, BodyTypes
<1>2. CASE Start \/ UpstreamSays \/ RelayItem \/ Submit \/ End \/ UNCHANGED vars
  BY <1>1, <1>2 DEF Start, UpstreamSays, RelayItem, Submit, End, vars, BodyIdle, Skipped,
     Positions, clientVars, captureVars, bodyVars, discardVars
<1>3. CASE SendSteps
  BY <1>1, <1>3 DEF SendSteps, Flush, BufferSpills, Send, Deliver, BodyIdle, Skipped,
     Positions, clientVars, captureVars, bodyVars, discardVars
<1>4. CASE TransportDrops
  <2>1. handler \notin {"start", "capture"}
    BY <1>4 DEF TransportDrops, BodySound, Capturing
  <2>2. QED BY <1>1, <1>4, <2>1 DEF TransportDrops, BodyIdle, Skipped,
     Positions, clientVars, captureVars, discardVars
<1>5. CASE DrainEnds
  BY <1>1, <1>5 DEF DrainEnds, Deliver, BodyIdle, Skipped,
     Positions, clientVars, captureVars, discardVars
<1>6. CASE RelayEnds \/ BadGateway \/ Panic
  BY <1>1, <1>6 DEF RelayEnds, BadGateway, Panic, Leave, BodyIdle, Skipped,
     Positions, clientVars, captureVars, bodyVars
<1>7. CASE CloseEnds
  BY <1>1, <1>7 DEF CloseEnds, BodyIdle, Skipped,
     Positions, clientVars, captureVars, discardVars
<1>8. QED BY <1>2, <1>3, <1>4, <1>5, <1>6, <1>7

(* The client: a further byte, the end of the body, or its departure. *)
LEMMA BodyClientSends ==
  ASSUME BodySound, ClientSends
  PROVE  BodySound'
<1>1. /\ body = "open" /\ sent < request.length
      /\ sent' = sent + 1 /\ wire' = Append(wire, sent + 1)
      /\ UNCHANGED <<request, body, handler, reqBody, contentLength, held, cutShort, upGot,
                     upEnd, bodyClosed, discarded, lost>>
  BY DEF ClientSends, captureVars, discardVars
<1>2. BodyTypes'
  BY <1>1, BodyFacts DEF BodySound, BodyTypes
<1>3. CASE handler \in {"start", "capture"}
  <2>1. Capturing
    BY <1>3 DEF BodySound
  <2>2. Run(wire', Len(reqBody)) /\ Len(wire') = Len(wire) + 1
    <3>1. sent + 1 = Len(reqBody) + Len(wire) + 1
      BY <2>1, BodyFacts DEF Capturing
    <3>2. wire \in Seq(Nat)
      BY DEF BodySound, BodyTypes
    <3>3. QED BY <1>1, <2>1, <3>1, <3>2, BodyFacts, RunAppend DEF Capturing
  <2>3. Capturing'
    BY <1>1, <2>1, <2>2, BodyFacts DEF Capturing
  <2>4. QED BY <1>1, <1>2, <1>3, <2>3 DEF BodySound
<1>4. CASE handler \notin {"start", "capture"}
  <2>1. CASE SendingWhole
    BY <1>1, <2>1 DEF SendingWhole
  <2>2. CASE SendingRest
    <3>1. Off \in Nat /\ sent + 1 = Off + Len(wire) + 1
      BY <2>2, BodyFacts DEF SendingRest, Off
    <3>2. wire \in Seq(Nat)
      BY DEF BodySound, BodyTypes
    <3>3. Run(wire', Off) /\ Len(wire') = Len(wire) + 1
      BY <1>1, <2>2, <3>1, <3>2, RunAppend DEF SendingRest
    <3>4. Off' = Off /\ Skipped' = Skipped
      BY <1>1, <3>3, BodyFacts DEF Off, Skipped
    <3>5. SendingRest'
      BY <1>1, <2>2, <3>3, <3>4 DEF SendingRest
    <3>6. QED BY <1>1, <1>2, <1>4, <3>5 DEF BodySound
  <2>3. QED BY <1>4, <2>1, <2>2 DEF BodySound
<1>5. QED BY <1>3, <1>4

(* The end of the body is no byte. *)
LEMMA BodyClientEnds ==
  ASSUME BodySound, ClientEnds
  PROVE  BodySound'
<1>1. /\ body = "open" /\ sent = request.length /\ body' = "eof"
      /\ UNCHANGED <<request, sent, wire, handler, reqBody, contentLength, held, cutShort,
                     upGot, upEnd, bodyClosed, discarded, lost>>
  BY DEF ClientEnds, captureVars, bodyVars, discardVars
<1>2. BodyTypes'
  BY <1>1 DEF BodySound, BodyTypes
<1>3. Capturing => Capturing'
  BY <1>1 DEF Capturing
<1>4. SendingRest => SendingRest'
  <2>1. Off' = Off /\ Skipped' = Skipped
    BY <1>1 DEF Off, Skipped
  <2>2. QED BY <1>1, <2>1 DEF SendingRest
<1>5. ~ SendingWhole
  BY <1>1 DEF SendingWhole
<1>6. QED BY <1>1, <1>2, <1>3, <1>4, <1>5 DEF BodySound

(* Nor is its breaking off. *)
LEMMA BodyClientLeaves ==
  ASSUME BodySound, ClientLeaves
  PROVE  BodySound'
<1>1. /\ body' = IF body = "open" THEN "broken" ELSE body
      /\ UNCHANGED <<request, sent, wire, handler, reqBody, contentLength, held, cutShort,
                     upGot, upEnd, bodyClosed, discarded, lost>>
  BY DEF ClientLeaves, captureVars, bodyVars, discardVars
<1>2. BodyTypes'
  BY <1>1 DEF BodySound, BodyTypes
<1>3. Capturing => Capturing'
  BY <1>1 DEF Capturing
<1>4. SendingRest => SendingRest'
  <2>1. Off' = Off /\ Skipped' = Skipped
    BY <1>1 DEF Off, Skipped
  <2>2. QED BY <1>1, <2>1 DEF SendingRest
<1>5. SendingWhole => SendingWhole'
  BY <1>1 DEF SendingWhole
<1>6. QED BY <1>1, <1>2, <1>3, <1>4, <1>5 DEF BodySound

(* io.ReadAll moves a beginning of what is on the wire into the capture. *)
LEMMA BodyCaptureReads ==
  ASSUME BodySound, CaptureReads
  PROVE  BodySound'
<1> DEFINE room == MaxBodySize - Len(reqBody)
<1>1. /\ handler = "capture" /\ Len(reqBody) < MaxBodySize
      /\ UNCHANGED <<request, sent, body, handler, contentLength, held, cutShort, upGot, upEnd,
                     bodyClosed, discarded, lost>>
  BY DEF CaptureReads, clientVars, discardVars
<1>2. Capturing /\ BodyTypes
  BY <1>1 DEF BodySound
<1>3. PICK n \in 0 .. Len(wire) :
        /\ n <= room
        /\ reqBody' = reqBody \o SubSeq(wire, 1, n)
        /\ wire' = SubSeq(wire, n + 1, Len(wire))
  <2>1. room \in Nat /\ Len(wire) \in Nat
    BY <1>1, BodyFacts
  <2>2. PICK k \in 0 .. Len(wire) :
           k <= room /\ k = IF Len(wire) < room THEN Len(wire) ELSE room
    BY <2>1
  <2>3. Take(wire, room) = SubSeq(wire, 1, k)
    BY <2>2 DEF Take
  <2>4. Len(SubSeq(wire, 1, k)) = k
    BY <1>2, <2>2, RunSplit, BodyFacts DEF Capturing, BodyTypes
  <2>5. Take(wire, k) = SubSeq(wire, 1, k)
    BY <2>2 DEF Take
  <2>6. QED BY <2>2, <2>3, <2>4, <2>5 DEF CaptureReads
<1>4. /\ SubSeq(wire, 1, n) \in Seq(Nat) /\ Len(SubSeq(wire, 1, n)) = n
      /\ Run(SubSeq(wire, 1, n), Len(reqBody))
      /\ wire' \in Seq(Nat) /\ Len(wire') = Len(wire) - n /\ Run(wire', Len(reqBody) + n)
  BY <1>2, <1>3, RunSplit, BodyFacts DEF Capturing, BodyTypes
<1>5. PICK t \in Seq(Nat) : t = SubSeq(wire, 1, n)
  BY <1>4
<1>6. Run(t, 0 + Len(reqBody)) /\ Len(t) = n /\ reqBody' = reqBody \o t
  BY <1>3, <1>4, <1>5, BodyFacts
<1>7. Run(reqBody', 0) /\ reqBody' \in Seq(Nat) /\ Len(reqBody') = Len(reqBody) + n
  <2>1. reqBody \in Seq(Nat) /\ Run(reqBody, 0)
    BY <1>2 DEF BodyTypes
  <2>2. Run(reqBody \o t, 0)
    BY <1>6, <2>1, RunConcat
  <2>3. Run(reqBody', 0)
    BY <1>6, <2>2, Zenon
  <2>4. reqBody' \in Seq(Nat) /\ Len(reqBody') = Len(reqBody) + n
    <3>1. t \in Seq(Nat)
      BY <1>5
    <3>2. reqBody \o t \in Seq(Nat) /\ Len(reqBody \o t) = Len(reqBody) + Len(t)
      BY <2>1, <3>1
    <3>3. QED BY <1>6, <3>2, Zenon
  <2>5. QED BY <2>3, <2>4
<1>8. BodyTypes'
  <2>1. Len(reqBody') <= MaxBodySize
    BY <1>3, <1>7, BodyFacts
  <2>2. QED BY <1>1, <1>2, <1>4, <1>7, <2>1 DEF BodyTypes
<1>9. Capturing'
  <2>1. Len(reqBody') + Len(wire') = sent
    BY <1>2, <1>4, <1>7, BodyFacts DEF Capturing
  <2>2. QED BY <1>1, <1>2, <1>4, <1>7, <2>1 DEF Capturing
<1>10. QED BY <1>1, <1>8, <1>9 DEF BodySound

(* The end comes within the limit: what was captured is the whole body, or *)
(* was cut short.                                                          *)
LEMMA BodyCaptureEnds ==
  ASSUME BodySound, CaptureEnds
  PROVE  BodySound'
<1>1. /\ handler = "capture" /\ wire = <<>> /\ body # "open"
      /\ cutShort' = (body = "broken") /\ held' = reqBody /\ contentLength' = Len(reqBody)
      /\ handler' = "relay" /\ upEnd' = "open"
      /\ bodyClosed' = TRUE
      /\ UNCHANGED <<request, sent, body, wire, reqBody, upGot, discarded, lost>>
  BY DEF CaptureEnds, Forward, clientVars, discardVars
<1>2. Capturing /\ BodyTypes
  BY <1>1 DEF BodySound
<1>3. cutShort' \/ (body = "eof" /\ Len(reqBody) = sent)
  <2>1. CASE body = "eof"
    BY <1>1, <1>2, <2>1, BodyFacts DEF Capturing
  <2>2. CASE body = "broken"
    BY <1>1, <2>2
  <2>3. QED BY <1>1, <1>2, <2>1, <2>2 DEF BodyTypes
<1>4. upGot = <<>> /\ Len(upGot) = 0 /\ Run(upGot, 0) /\ Run(reqBody, 0)
  BY <1>2, RunEmpty DEF Capturing, BodyTypes
<1>5. SendingWhole'
  BY <1>1, <1>2, <1>3, <1>4, BodyFacts DEF SendingWhole, Capturing
<1>6. BodyTypes'
  BY <1>1, <1>2 DEF BodyTypes, Positions
<1>7. QED BY <1>1, <1>5, <1>6 DEF BodySound

(* The probed byte follows the captured ones, and the rest follows it. *)
LEMMA BodyProbe ==
  ASSUME BodySound, Probe
  PROVE  BodySound'
<1>1. /\ handler = "capture" /\ wire # <<>> /\ Len(reqBody) = MaxBodySize
      /\ held' = Append(reqBody, Head(wire)) /\ contentLength' = -1
      /\ wire' = Tail(wire) /\ handler' = "relay" /\ upEnd' = "open"
      /\ UNCHANGED <<request, sent, body, reqBody, cutShort, upGot, bodyClosed,
                     discarded, lost>>
  BY DEF Probe, Forward, clientVars, discardVars
<1>2. Capturing /\ BodyTypes
  BY <1>1 DEF BodySound
<1>3. /\ Head(wire) = Len(reqBody) + 1 /\ wire' \in Seq(Nat)
      /\ Len(wire') = Len(wire) - 1 /\ Run(wire', Len(reqBody) + 1)
  BY <1>1, <1>2, RunTail, BodyFacts DEF Capturing, BodyTypes
<1>4. Head(wire) = 0 + Len(reqBody) + 1
  BY <1>3, BodyFacts
<1>5. /\ held' \in Seq(Nat) /\ Len(held') = Len(reqBody) + 1 /\ Run(held', 0)
  <2>1. reqBody \in Seq(Nat) /\ Run(reqBody, 0)
    BY <1>2 DEF BodyTypes
  <2>2. QED BY <1>1, <1>3, <1>4, <2>1, RunAppend, BodyFacts
<1>6. bodyClosed' = FALSE
  BY <1>1, <1>2 DEF Capturing
<1>7. BodyTypes'
  BY <1>1, <1>2, <1>3, <1>5, <1>6 DEF BodyTypes, Positions
<1>8. Off' = Len(reqBody) + 1
  BY <1>1, <1>2, <1>3, BodyFacts DEF Off, Capturing
<1>9. upGot' = <<>> /\ Len(upGot') = 0 /\ Run(upGot', 0) /\ held' # <<>>
  BY <1>1, <1>2, <1>5, RunEmpty, BodyFacts DEF Capturing
<1>10. Ordered(upGot', Off') /\ Begins(upGot', MaxBodySize + 1)
  BY <1>9 DEF Ordered, Begins
<1>11. SendingRest'
  BY <1>1, <1>3, <1>5, <1>8, <1>9, <1>10, BodyFacts DEF SendingRest
<1>12. QED BY <1>1, <1>7, <1>11 DEF BodySound

(* The pump: what is held, then what arrives, then the end. *)
LEMMA BodyPump ==
  ASSUME BodySound, Pump
  PROVE  BodySound'
<1>1. /\ upEnd = "open"
      /\ UNCHANGED <<request, sent, body, handler, reqBody, contentLength, cutShort,
                     discarded, lost>>
  BY DEF Pump, clientVars, captureVars, discardVars
<1>2. BodyTypes /\ (SendingWhole \/ SendingRest) /\ handler \notin {"start", "capture"}
  BY <1>1 DEF BodySound, Capturing
<1>3. CASE /\ held # <<>> /\ held' = <<>> /\ upGot' = upGot \o held
           /\ UNCHANGED <<wire, upEnd, bodyClosed>>
  <2>1. upGot' \in Seq(Nat) /\ Len(upGot') = Len(upGot) + Len(held)
    BY <1>2, <1>3 DEF BodyTypes
  <2>2. BodyTypes'
    BY <1>1, <1>2, <1>3, <2>1 DEF BodyTypes
  <2>3. held' = <<>> /\ Len(held') = 0 /\ Run(held', Len(upGot'))
    BY <1>3, <2>1, RunEmpty
  <2>4. SendingWhole => SendingWhole'
    <3> SUFFICES ASSUME SendingWhole PROVE SendingWhole'
      OBVIOUS
    <3>1. Run(upGot, 0) /\ Run(held, 0 + Len(upGot))
      BY BodyFacts DEF SendingWhole
    <3>2. Run(upGot', 0)
      BY <1>2, <1>3, <3>1, RunConcat DEF BodyTypes
    <3>3. QED BY <1>1, <1>3, <2>1, <2>3, <3>2, BodyFacts DEF SendingWhole
  <2>5. SendingRest => SendingRest'
    <3> SUFFICES ASSUME SendingRest PROVE SendingRest'
      OBVIOUS
    <3>1. upGot' = held /\ Len(held) = MaxBodySize + 1 /\ Run(held, 0) /\ Len(upGot) = 0
      BY <1>2, <1>3, BodyFacts DEF SendingRest, BodyTypes
    <3>2. Off' = Off /\ Skipped' = Skipped /\ Off \in Nat /\ MaxBodySize < Off
      BY <1>1, <1>3, BodyFacts DEF Off, Skipped, SendingRest
    <3>3. Ordered(upGot', Off') /\ Begins(upGot', MaxBodySize + 1)
      <4>1. held \in Seq(Nat) /\ Len(held) <= Off /\ MaxBodySize + 1 \in Nat
        BY <1>2, <3>1, <3>2, BodyFacts DEF BodyTypes
      <4>2. Ordered(held, Off) /\ Begins(held, MaxBodySize + 1)
        BY <3>1, <3>2, <4>1, RunOrdered
      <4>3. QED BY <3>1, <3>2, <4>2
    <3>4. Run(held', 0)
      BY <2>3, RunEmpty
    <3>5. Run(upGot', 0) /\ Len(upGot') = MaxBodySize + 1
      BY <3>1
    <3>6. ~ lost' /\ ~ Skipped' => Len(upGot') + Len(held') = Off'
      BY <1>1, <2>3, <3>1, <3>2, BodyFacts DEF SendingRest
    <3>7. QED BY <1>1, <1>3, <2>3, <3>2, <3>3, <3>4, <3>5, <3>6, BodyFacts DEF SendingRest
  <2>6. QED BY <1>1, <1>2, <1>3, <2>2, <2>4, <2>5 DEF BodySound
<1>4. CASE /\ held = <<>> /\ contentLength = -1 /\ wire # <<>> /\ ~ bodyClosed
           /\ handler \in {"close", "unwind"} => discarded = 0
           /\ upGot' = upGot \o wire /\ wire' = <<>> /\ UNCHANGED <<held, upEnd, bodyClosed>>
  <2>1. SendingRest
    BY <1>2, <1>4 DEF SendingWhole
  <2>2. /\ Ordered(upGot, Off) /\ Begins(upGot, MaxBodySize + 1) /\ Run(wire, Off)
        /\ Off \in Nat /\ Len(upGot) >= MaxBodySize + 1 /\ Len(held) = 0
        /\ MaxBodySize < Off
    BY <1>4, <2>1, BodyFacts DEF SendingRest, Off
  <2>3. upGot' \in Seq(Nat) /\ Len(upGot') = Len(upGot) + Len(wire)
    BY <1>2, <1>4 DEF BodyTypes
  <2>4. wire' = <<>> /\ Len(wire') = 0 /\ Off' = Off + Len(wire) /\ Off' = sent
    BY <1>1, <1>4, BodyFacts DEF Off
  <2>5. Ordered(upGot', Off') /\ Begins(upGot', MaxBodySize + 1)
    BY <1>2, <1>4, <2>2, <2>4, OrderedConcat, BodyFacts DEF BodyTypes
  <2>6. ~ Skipped /\ ~ Skipped'
    BY <1>1, <1>2, <1>4, BodyFacts DEF Skipped, BodyTypes
  <2>7. ~ lost => Run(upGot', 0) /\ Len(upGot') + Len(held') = Off'
    <3> SUFFICES ASSUME ~ lost PROVE Run(upGot', 0) /\ Len(upGot') + Len(held') = Off'
      OBVIOUS
    <3>1. Run(upGot, 0) /\ Len(upGot) = Off
      BY <2>1, <2>2, <2>6, BodyFacts DEF SendingRest
    <3>2. Run(wire, 0 + Len(upGot))
      BY <2>2, <3>1
    <3>3. Run(upGot', 0)
      BY <1>2, <1>4, <3>1, <3>2, RunConcat DEF BodyTypes
    <3>4. QED BY <1>4, <2>2, <2>3, <2>4, <3>1, <3>3, BodyFacts
  <2>8. Run(wire', Off') /\ MaxBodySize < Off' /\ Len(upGot') > MaxBodySize
    BY <2>2, <2>3, <2>4, RunEmpty, BodyFacts
  <2>9. BodyTypes'
    BY <1>1, <1>2, <1>4, <2>3, <2>4 DEF BodyTypes
  <2>10. SendingRest'
    BY <1>1, <1>4, <2>1, <2>5, <2>7, <2>8 DEF SendingRest
  <2>11. QED BY <1>1, <1>2, <1>4, <2>9, <2>10 DEF BodySound
<1>5. CASE /\ held = <<>> /\ contentLength = -1 /\ BodyOver
           /\ handler \in {"close", "unwind"} => discarded = 0 \/ bodyClosed
           /\ upEnd' = (IF body = "eof" /\ ~ bodyClosed THEN "complete" ELSE "broken")
           /\ bodyClosed' = TRUE /\ UNCHANGED <<held, wire, upGot>>
  <2>1. SendingRest
    BY <1>2, <1>5, BodyFacts DEF SendingWhole
  <2>2. Off' = Off /\ Skipped'
    BY <1>1, <1>5 DEF Off, Skipped
  <2>3. ASSUME upEnd' = "complete", ~ lost PROVE Len(upGot) = sent
    <3>1. body = "eof" /\ ~ bodyClosed /\ wire = <<>>
      BY <1>5, <2>3 DEF BodyOver
    <3>2. ~ Skipped
      BY <1>2, <1>5, <3>1 DEF Skipped, BodyTypes
    <3>3. Len(upGot) + Len(held) = Off /\ Len(held) = 0 /\ Off = sent
      BY <1>5, <2>1, <2>3, <3>1, <3>2, BodyFacts DEF SendingRest, Off
    <3>4. QED BY <3>3, BodyFacts
  <2>4. upEnd' = "complete" => body = "eof"
    BY <1>5
  <2>5. SendingRest'
    BY <1>1, <1>5, <2>1, <2>2, <2>3, <2>4 DEF SendingRest
  <2>6. BodyTypes'
    BY <1>1, <1>2, <1>5 DEF BodyTypes
  <2>7. QED BY <1>1, <1>2, <1>5, <2>5, <2>6 DEF BodySound
<1>6. CASE /\ held = <<>> /\ contentLength >= 0
           /\ upEnd' = "complete" /\ UNCHANGED <<held, wire, upGot, bodyClosed>>
  <2>1. ~ SendingRest
    BY <1>6 DEF SendingRest
  <2>2. SendingWhole'
    BY <1>1, <1>2, <1>6, <2>1 DEF SendingWhole
  <2>3. BodyTypes'
    BY <1>1, <1>2, <1>6 DEF BodyTypes
  <2>4. QED BY <1>1, <1>2, <1>6, <2>2, <2>3 DEF BodySound
<1>7. QED BY <1>3, <1>4, <1>5, <1>6 DEF Pump

(* What is thrown away is a beginning of what is on the wire. *)
LEMMA BodyDiscards ==
  ASSUME BodySound, handler \notin {"start", "capture"}, NEW n \in Nat, Discard(n),
         handler' = handler, lost' = TRUE \/ (lost' = lost /\ Skipped')
  PROVE  BodySound'
<1>1. /\ ~ bodyClosed
      /\ UNCHANGED <<request, sent, body, reqBody, contentLength, cutShort, held, upGot,
                     upEnd, bodyClosed>>
  BY DEF Discard, clientVars, captureVars
<1>2. BodyTypes /\ SendingRest /\ upEnd \in {"open", "complete", "broken"}
  BY <1>1 DEF BodySound, SendingWhole
<1>3. PICK k \in 0 .. Len(wire) :
         discarded' = discarded + k /\ wire' = SubSeq(wire, k + 1, Len(wire))
  <2>1. n - discarded \in Nat /\ Len(wire) \in Nat
    BY <1>2, BodyFacts DEF Discard, BodyTypes
  <2>2. PICK t : t = Take(wire, n - discarded)
    OBVIOUS
  <2>3. t \in Seq(Nat) /\ Len(t) \in 0 .. Len(wire)
    <3>1. wire \in Seq(Nat)
      BY <1>2 DEF BodyTypes
    <3>2. /\ n - discarded >= Len(wire) => t = wire
          /\ n - discarded <= Len(wire) => Len(t) = n - discarded
      BY <2>1, <2>2, <3>1, TakeIs
    <3>3. t \in Seq(Nat)
      BY <2>1, <2>2, <3>1, TakeIs
    <3>4. QED BY <2>1, <3>2, <3>3
  <2>4. discarded' = discarded + Len(t) /\ wire' = SubSeq(wire, Len(t) + 1, Len(wire))
    BY <2>2 DEF Discard
  <2>5. QED BY <2>3, <2>4
<1>4. Off \in Nat /\ Run(wire, Off) /\ MaxBodySize < Off
  BY <1>2, BodyFacts DEF SendingRest, Off
<1>5. wire' \in Seq(Nat) /\ Len(wire') = Len(wire) - k /\ Run(wire', Off + k)
  BY <1>2, <1>3, <1>4, RunSplit DEF BodyTypes
<1>6. Off' = Off + k
  BY <1>1, <1>3, <1>5, BodyFacts DEF Off
<1>7. Ordered(upGot', Off')
  <2>1. \A i \in 1 .. Len(upGot) : upGot[i] \in Nat /\ upGot[i] <= Off
    BY <1>2, SMTT(30) DEF SendingRest, Ordered, BodyTypes
  <2>2. QED BY <1>1, <1>2, <1>3, <1>4, <1>6, <2>1 DEF SendingRest, Ordered
<1>8. BodyTypes'
  <2>1. discarded' \in Nat /\ lost' \in BOOLEAN
    <3>1. discarded' \in Nat
      BY <1>2, <1>3, BodyFacts DEF BodyTypes
    <3>2. lost' \in BOOLEAN
      BY <1>2, Zenon DEF BodyTypes
    <3>3. QED BY <3>1, <3>2
  <2>2. QED BY <1>1, <1>2, <1>5, <2>1 DEF BodyTypes
<1>9. MaxBodySize < Off' /\ Run(wire', Off')
  BY <1>3, <1>4, <1>5, <1>6, BodyFacts
<1>10. (~ lost' => ~ lost) /\ (~ lost' => Skipped') /\ upEnd # "complete"
  BY <1>1, <1>2 DEF SendingRest
<1>11. SendingRest'
  BY <1>1, <1>2, <1>7, <1>9, <1>10 DEF SendingRest
<1>12. QED BY <1>1, <1>2, <1>8, <1>11 DEF BodySound

(* Before the header, and when ReverseProxy closes the body. *)
LEMMA BodyDrains ==
  ASSUME BodySound, Drain \/ CloseDiscards
  PROVE  BodySound'
<1>1. MaxDiscard \in Nat /\ MaxDiscard + 1 \in Nat /\ handler' = handler
  BY MaxDiscardAssumption DEF Drain, CloseDiscards, Discard
<1>2. CASE Drain
  BY <1>1, <1>2, BodyDiscards DEF Drain
<1>3. CASE CloseDiscards
  <2>1. Discard(MaxDiscard) /\ handler \in {"close", "unwind"} /\ lost' = lost
    BY <1>3 DEF CloseDiscards
  <2>2. discarded' > 0
    <3>1. wire \in Seq(Nat) /\ wire # <<>> /\ discarded \in Nat /\ MaxDiscard - discarded \in Nat
          /\ MaxDiscard - discarded > 0
      BY <1>1, <2>1 DEF Discard, BodySound, BodyTypes
    <3>2. PICK t : t = Take(wire, MaxDiscard - discarded)
      OBVIOUS
    <3>3. Len(t) \in Nat /\ Len(t) > 0
      <4>1. /\ MaxDiscard - discarded >= Len(wire) => t = wire
            /\ MaxDiscard - discarded <= Len(wire) => Len(t) = MaxDiscard - discarded
        BY <3>1, <3>2, TakeIs
      <4>2. QED BY <3>1, <4>1
    <3>4. discarded' = discarded + Len(t)
      BY <2>1, <3>2 DEF Discard
    <3>5. QED BY <3>1, <3>3, <3>4
  <2>3. Skipped'
    BY <1>1, <2>1, <2>2 DEF Skipped
  <2>4. QED BY <1>1, <2>1, <2>3, BodyDiscards
<1>4. QED BY <1>2, <1>3

(* Every byte stays accounted for. *)
LEMMA BodyStep == BodySound /\ [Next]_vars => BodySound'
<1> SUFFICES ASSUME BodySound, [Next]_vars PROVE BodySound'
  OBVIOUS
<1>1. CASE ClientSends \/ ClientEnds \/ ClientLeaves
  BY <1>1, BodyClientSends, BodyClientEnds, BodyClientLeaves
<1>2. CASE CaptureReads \/ CaptureEnds \/ Probe
  BY <1>2, BodyCaptureReads, BodyCaptureEnds, BodyProbe
<1>3. CASE Pump \/ Drain \/ CloseDiscards
  BY <1>3, BodyPump, BodyDrains
<1>4. CASE \/ Start \/ UpstreamSays \/ TransportDrops \/ SendSteps \/ DrainEnds \/ RelayItem
           \/ RelayEnds \/ BadGateway \/ Panic \/ CloseEnds \/ Submit \/ End \/ UNCHANGED vars
  BY <1>4, IdleSteps, BodyKept
<1>5. QED BY <1>1, <1>2, <1>3, <1>4 DEF Next, HandlerStep, SendSteps

-----------------------------------------------------------------------------
(* What net/http throws away before the header. *)

Early == {"start", "capture", "relay", "drain"}

(* If the body is still to be read when there is something to be sent to   *)
(* the client, the upstream has answered early; and only then is it thrown *)
(* away, on a connection that is to be used again.                         *)
DrainSound ==
  /\ said \in Nat /\ relayed \in Nat
  /\ said > 0 => response.early \/ bodyClosed
  /\ handler \in Early /\ buffered # <<>> => said > 0
  /\ handler = "drain" \/ lost => response.early /\ ~ request.closes

(* Nothing has been said. *)
LEMMA DrainInit == Init => DrainSound
BY DEF Init, DrainSound

(* Steps that lead to nothing new to be sent. *)
LEMMA DrainKept ==
  ASSUME DrainSound, UNCHANGED <<request, response, said, lost>>, relayed' \in Nat,
         bodyClosed => bodyClosed',
         handler' \in Early /\ buffered' # <<>> => handler \in Early /\ buffered # <<>>,
         handler' = "drain" => handler = "drain"
  PROVE  DrainSound'
BY DEF DrainSound

(* An answer before the end of the request is an early one, and nothing is *)
(* drained without an answer.                                              *)
LEMMA DrainStep == BodySound /\ DrainSound /\ [Next]_vars => DrainSound'
<1> SUFFICES ASSUME BodySound, DrainSound, [Next]_vars PROVE DrainSound'
  OBVIOUS
<1>1. CASE ClientSends \/ ClientEnds \/ ClientLeaves \/ Start \/ CaptureReads
  <2>1. /\ UNCHANGED <<request, response, said, lost, relayed, bodyClosed, buffered>>
        /\ handler' \in Early => handler \in Early
        /\ handler' = "drain" => handler = "drain"
    BY <1>1 DEF ClientSends, ClientEnds, ClientLeaves, Start, CaptureReads, clientVars,
       bodyVars, discardVars, upstreamVars, relayVars, outVars, Early
  <2>2. QED BY <2>1, DrainKept DEF DrainSound
<1>2. CASE CaptureEnds \/ Probe
  <2>1. /\ UNCHANGED <<request, response, said, lost, relayed, buffered>>
        /\ handler \in Early /\ handler' # "drain" /\ ~ bodyClosed
    BY <1>2 DEF CaptureEnds, Probe, Forward, clientVars, discardVars, upstreamVars,
       relayVars, outVars, Early, BodySound, Capturing
  <2>2. QED BY <2>1, DrainKept DEF DrainSound
<1>3. CASE Pump \/ TransportDrops \/ CloseDiscards \/ Submit \/ UNCHANGED vars
  <2>1. /\ UNCHANGED <<request, response, said, lost, relayed, buffered>>
        /\ bodyClosed => bodyClosed'
        /\ handler' \in Early => handler \in Early
        /\ handler' = "drain" => handler = "drain"
    BY <1>3 DEF Pump, TransportDrops, CloseDiscards, Discard, Submit, vars, clientVars,
       bodyVars, discardVars, upstreamVars, relayVars, outVars, Early
  <2>2. QED BY <2>1, DrainKept DEF DrainSound
<1>4. CASE UpstreamSays
  <2>1. /\ UNCHANGED <<request, response, lost, relayed, buffered, bodyClosed, handler>>
        /\ said' = said + 1
        /\ upEnd = "complete" \/ (upEnd = "open" /\ response.early)
    BY <1>4 DEF UpstreamSays, clientVars, bodyVars, discardVars, relayVars, outVars
  <2>2. upEnd = "complete" => bodyClosed
    BY DEF BodySound, Capturing, SendingWhole, SendingRest
  <2>3. QED BY <2>1, <2>2 DEF DrainSound
<1>5. CASE RelayItem
  <2>1. /\ UNCHANGED <<request, response, lost, said, bodyClosed, handler>>
        /\ said > relayed /\ relayed' = relayed + 1
    BY <1>5 DEF RelayItem, clientVars, bodyVars, discardVars, upstreamVars
  <2>2. QED BY <2>1 DEF DrainSound
<1>6. CASE SendSteps
  <2>1. /\ handler = "relay" /\ buffered # <<>>
        /\ UNCHANGED <<request, response, lost, said, relayed, bodyClosed>>
        /\ \/ handler' = "drain" /\ DrainsFirst /\ UNCHANGED buffered
           \/ handler' = handler /\ buffered' = <<>>
    BY <1>6 DEF SendSteps, Flush, BufferSpills, Send, Deliver, clientVars, bodyVars,
       discardVars, upstreamVars
  <2>2. said > 0
    BY <2>1 DEF DrainSound, Early
  <2>3. QED BY <2>1, <2>2 DEF DrainSound, DrainsFirst
<1>7. CASE Drain
  <2>1. /\ handler = "drain" /\ lost' = TRUE
        /\ UNCHANGED <<request, response, said, relayed, bodyClosed, buffered, handler>>
    BY <1>7 DEF Drain, Discard, clientVars, upstreamVars, relayVars, outVars
  <2>2. QED BY <2>1 DEF DrainSound
<1>8. CASE DrainEnds \/ End
  <2>1. /\ UNCHANGED <<request, response, said, lost, relayed>>
        /\ bodyClosed => bodyClosed'
        /\ buffered' = <<>> /\ handler' # "drain"
    <3>1. CASE DrainEnds
      BY <3>1 DEF DrainEnds, Deliver, clientVars, discardVars, upstreamVars
    <3>2. CASE End
      BY <3>2 DEF End, clientVars, bodyVars, discardVars, upstreamVars
    <3>3. QED BY <1>8, <3>1, <3>2
  <2>2. QED BY <2>1, DrainKept DEF DrainSound
<1>9. CASE RelayEnds \/ BadGateway \/ Panic \/ CloseEnds
  <2>1. /\ UNCHANGED <<request, response, said, lost, relayed>>
        /\ bodyClosed => bodyClosed'
        /\ handler' \notin Early /\ handler' # "drain"
    BY <1>9 DEF RelayEnds, BadGateway, Panic, CloseEnds, Leave, clientVars, bodyVars,
       discardVars, upstreamVars, relayVars, Early
  <2>2. QED BY <2>1, DrainKept DEF DrainSound
<1>10. QED BY <1>1, <1>2, <1>3, <1>4, <1>5, <1>6, <1>7, <1>8, <1>9
        DEF Next, HandlerStep, SendSteps

(* The request passes intact whenever the accounting of bytes holds. *)
LEMMA BodyIntact == BodySound /\ DrainSound => RequestIntact
<1> SUFFICES ASSUME BodySound, DrainSound PROVE RequestIntact
  OBVIOUS
<1>1. upGot \in Seq(Nat) /\ DOMAIN upGot = 1 .. Len(upGot)
  BY DEF BodySound, BodyTypes
<1>2. SUFFICES /\ Ordered(upGot, sent) /\ Begins(upGot, MaxBodySize + 1)
               /\ upEnd = "complete" => contentLength \in {-1, Len(upGot)}
               /\ lost => contentLength = -1
               /\ ~ lost => /\ Run(upGot, 0)
                            /\ upEnd = "complete" => Len(upGot) = request.length \/ cutShort
  <2>1. ~ lost => upGot = Bytes(Len(upGot))
    BY <1>1, <1>2, RunIsBytes
  <2>2. QED BY <1>1, <1>2, <2>1 DEF RequestIntact, Ordered, Begins, DrainSound
<1>3. CASE handler \in {"start", "capture"}
  <2>1. upGot = <<>> /\ upEnd = "none" /\ lost = FALSE
    BY <1>3 DEF BodySound, Capturing
  <2>2. QED BY <2>1, RunEmpty DEF Ordered, Begins
<1>4. CASE handler \notin {"start", "capture"} /\ SendingWhole
  <2>1. Run(upGot, 0) /\ Len(upGot) <= sent /\ sent \in Nat /\ MaxBodySize + 1 \in Nat
    BY <1>4, BodyFacts DEF SendingWhole
  <2>2. Ordered(upGot, sent) /\ Begins(upGot, MaxBodySize + 1)
    BY <1>1, <2>1, RunOrdered
  <2>3. ASSUME upEnd = "complete"
        PROVE  contentLength = Len(upGot) /\ (Len(upGot) = request.length \/ cutShort)
    <3>1. Len(held) = 0
      BY <1>4, <2>3 DEF SendingWhole
    <3>2. Len(upGot) = Len(reqBody)
      BY <1>4, <3>1, BodyFacts DEF SendingWhole
    <3>3. QED BY <1>4, <3>2 DEF SendingWhole, BodySound, BodyTypes
  <2>4. QED BY <1>4, <2>1, <2>2, <2>3 DEF SendingWhole
<1>5. CASE handler \notin {"start", "capture"} /\ SendingRest
  <2>1. Off <= sent /\ Off \in Int
    BY BodyFacts DEF Off
  <2>2. Ordered(upGot, sent)
    <3>1. \A i \in 1 .. Len(upGot) : upGot[i] \in Nat
      BY <1>1
    <3>2. QED BY <1>5, <2>1, <3>1, BodyFacts DEF SendingRest, Ordered
  <2>3. ~ lost /\ upEnd = "complete" => Len(upGot) = request.length
    BY <1>5 DEF SendingRest, BodySound, BodyTypes
  <2>4. QED BY <1>5, <2>2, <2>3 DEF SendingRest
<1>6. QED BY <1>3, <1>4, <1>5 DEF BodySound

-----------------------------------------------------------------------------
(* Parts of a response. *)

(* Induction, about the set of the numbers that have a property.  (The     *)
(* library states it for an operator.)                                     *)
LEMMA SetInduction ==
  ASSUME NEW S, 0 \in S, \A n \in Nat : n \in S => n + 1 \in S
  PROVE  Nat \subseteq S
<1> DEFINE R == {p \in Nat \X Nat : p[1] < p[2]}
           T == Nat \ S
<1> SUFFICES ASSUME T # {} PROVE FALSE
  OBVIOUS
<1>1. IsWellFoundedOn(R, Nat)
  BY NatLessThanWellFounded DEF OpToRel
<1>2. T \subseteq Nat
  OBVIOUS
<1> HIDE DEF R
<1>3. \E x \in T : \A y \in T : <<y, x>> \notin R
  BY <1>1, <1>2, WFMin
<1>4. PICK x \in T : \A y \in T : ~ (y < x)
  BY <1>3 DEF R
<1>5. x - 1 \in Nat /\ x - 1 < x /\ (x - 1) + 1 = x
  OBVIOUS
<1>6. QED BY <1>4, <1>5

(* What the recursion in FlattenSeq asks of its function. *)
Flattens(f, seqs, n) ==
  f = [i \in 1 .. n |-> IF i = 1 THEN seqs[i] ELSE f[i - 1] \o seqs[i]]

(* The recursion of FlattenSeq has a solution for each sequence. *)
LEMMA FlattensExists ==
  ASSUME NEW seqs \in Seq(Seq(Nat))
  PROVE  \E f : Flattens(f, seqs, Len(seqs))
<1> DEFINE T == {n \in Nat : n <= Len(seqs) => \E f : Flattens(f, seqs, n)}
<1>1. 0 \in T
  <2>1. Flattens([i \in 1 .. 0 |-> <<>>], seqs, 0)
    BY DEF Flattens
  <2>2. QED BY <2>1
<1>2. ASSUME NEW n \in Nat, n \in T PROVE n + 1 \in T
  <2> SUFFICES ASSUME n + 1 <= Len(seqs) PROVE \E f : Flattens(f, seqs, n + 1)
    OBVIOUS
  <2>1. PICK f : Flattens(f, seqs, n)
    BY <1>2
  <2> DEFINE g == [i \in 1 .. n + 1 |->
                     IF i <= n THEN f[i] ELSE IF i = 1 THEN seqs[i] ELSE f[i - 1] \o seqs[i]]
  <2>2. \A i \in 1 .. n : f[i] = IF i = 1 THEN seqs[i] ELSE f[i - 1] \o seqs[i]
    BY <2>1 DEF Flattens
  <2>3. \A i \in 1 .. n : g[i] = f[i]
    OBVIOUS
  <2>4. \A i \in 1 .. n + 1 : i # 1 => i - 1 \in 1 .. n /\ g[i - 1] = f[i - 1]
    BY <2>3
  <2>5. \A i \in 1 .. n + 1 : g[i] = IF i = 1 THEN seqs[i] ELSE g[i - 1] \o seqs[i]
    <3> SUFFICES ASSUME NEW i \in 1 .. n + 1
                 PROVE  g[i] = IF i = 1 THEN seqs[i] ELSE g[i - 1] \o seqs[i]
      OBVIOUS
    <3>1. g[i] = IF i = 1 THEN seqs[i] ELSE f[i - 1] \o seqs[i]
      BY <2>2
    <3>2. QED BY <2>4, <3>1
  <2>6. DOMAIN g = 1 .. n + 1 /\ g = [i \in 1 .. n + 1 |-> g[i]]
    OBVIOUS
  <2> HIDE DEF g
  <2>7. g = [i \in 1 .. n + 1 |-> IF i = 1 THEN seqs[i] ELSE g[i - 1] \o seqs[i]]
    BY <2>5, <2>6
  <2>8. QED BY <2>7 DEF Flattens
<1>3. Nat \subseteq T
  <2> HIDE DEF T
  <2>1. QED BY <1>1, <1>2, SetInduction
<1>4. QED BY <1>3

(* FlattenSeq is the last value of such a function; all its values are     *)
(* sequences of bytes.                                                     *)
LEMMA FlattenFunction ==
  ASSUME NEW seqs \in Seq(Seq(Nat)), seqs # <<>>
  PROVE  \E f : /\ FlattenSeq(seqs) = f[Len(seqs)]
                /\ \A i \in 1 .. Len(seqs) :
                     f[i] = IF i = 1 THEN seqs[i] ELSE f[i - 1] \o seqs[i]
                /\ \A i \in 1 .. Len(seqs) : f[i] \in Seq(Nat)
<1> DEFINE f == CHOOSE f : Flattens(f, seqs, Len(seqs))
<1>1. Flattens(f, seqs, Len(seqs))
  BY FlattensExists, Zenon
<1>2. Len(seqs) # 0
  OBVIOUS
<1>3. FlattenSeq(seqs) = f[Len(seqs)]
  BY <1>2, Zenon DEF FlattenSeq, Flattens
<1> HIDE DEF f
<1>4. \A i \in 1 .. Len(seqs) : f[i] = IF i = 1 THEN seqs[i] ELSE f[i - 1] \o seqs[i]
  BY <1>1 DEF Flattens
<1> DEFINE T == {n \in Nat : n \in 1 .. Len(seqs) => f[n] \in Seq(Nat)}
<1>5. 0 \in T
  OBVIOUS
<1>6. ASSUME NEW n \in Nat, n \in T PROVE n + 1 \in T
  <2> SUFFICES ASSUME n + 1 \in 1 .. Len(seqs) PROVE f[n + 1] \in Seq(Nat)
    OBVIOUS
  <2>1. seqs[n + 1] \in Seq(Nat)
    OBVIOUS
  <2>2. CASE n = 0
    BY <1>4, <2>1, <2>2
  <2>3. CASE n # 0
    <3>1. n \in 1 .. Len(seqs) /\ (n + 1) - 1 = n /\ n + 1 # 1
      BY <2>3
    <3>2. f[n] \in Seq(Nat)
      BY <1>6, <3>1
    <3>3. f[n + 1] = f[n] \o seqs[n + 1]
      BY <1>4, <3>1
    <3>4. QED BY <2>1, <3>2, <3>3
  <2>4. QED BY <2>2, <2>3
<1>7. Nat \subseteq T
  <2> HIDE DEF T
  <2>1. QED BY <1>5, <1>6, SetInduction
<1>8. \A i \in 1 .. Len(seqs) : f[i] \in Seq(Nat)
  BY <1>7
<1>9. QED BY <1>3, <1>4, <1>8

(* What FlattenSeq makes of one more sequence. *)
LEMMA FlattenAppend ==
  ASSUME NEW seqs \in Seq(Seq(Nat)), NEW x \in Seq(Nat)
  PROVE  /\ FlattenSeq(seqs) \in Seq(Nat)
         /\ FlattenSeq(Append(seqs, x)) = FlattenSeq(seqs) \o x
<1> DEFINE S == Seq(Nat)
<1>1. PICK longer \in Seq(S) : longer = Append(seqs, x)
  <2> HIDE DEF S
  <2>1. seqs \in Seq(S) /\ x \in S
    BY DEF S
  <2>2. QED BY <2>1, AppendProperties
<1>2. /\ Len(longer) = Len(seqs) + 1 /\ longer # <<>>
      /\ \A i \in 1 .. Len(seqs) : longer[i] = seqs[i]
      /\ longer[Len(seqs) + 1] = x
  BY <1>1
<1>3. PICK g : /\ FlattenSeq(longer) = g[Len(longer)]
               /\ \A i \in 1 .. Len(longer) :
                    g[i] = IF i = 1 THEN longer[i] ELSE g[i - 1] \o longer[i]
               /\ \A i \in 1 .. Len(longer) : g[i] \in Seq(Nat)
  BY <1>2, FlattenFunction
<1>4. CASE seqs = <<>>
  <2>1. FlattenSeq(seqs) = <<>>
    BY <1>4 DEF FlattenSeq
  <2>2. FlattenSeq(longer) = x
    BY <1>2, <1>3, <1>4
  <2>3. QED BY <1>1, <2>1, <2>2
<1>5. CASE seqs # <<>>
  <2>1. PICK f : /\ FlattenSeq(seqs) = f[Len(seqs)]
                 /\ \A i \in 1 .. Len(seqs) :
                      f[i] = IF i = 1 THEN seqs[i] ELSE f[i - 1] \o seqs[i]
                 /\ \A i \in 1 .. Len(seqs) : f[i] \in Seq(Nat)
    BY <1>5, FlattenFunction
  <2> DEFINE T == {n \in Nat : n \in 1 .. Len(seqs) => f[n] = g[n]}
  <2>2. 0 \in T
    OBVIOUS
  <2>3. ASSUME NEW n \in Nat, n \in T PROVE n + 1 \in T
    <3> SUFFICES ASSUME n + 1 \in 1 .. Len(seqs) PROVE f[n + 1] = g[n + 1]
      OBVIOUS
    <3>1. n + 1 \in 1 .. Len(longer) /\ longer[n + 1] = seqs[n + 1]
      BY <1>2
    <3>2. CASE n = 0
      <4>1. n + 1 = 1 /\ 1 \in 1 .. Len(seqs) /\ 1 \in 1 .. Len(longer)
        BY <3>1, <3>2
      <4>2. f[1] = seqs[1]
        BY <2>1, <4>1
      <4>3. g[1] = longer[1]
        BY <1>3, <4>1
      <4>4. QED BY <3>1, <4>1, <4>2, <4>3, Zenon
    <3>3. CASE n # 0
      <4>1. n \in 1 .. Len(seqs) /\ (n + 1) - 1 = n /\ n + 1 # 1
        BY <3>3
      <4>2. f[n] = g[n]
        BY <2>3, <4>1
      <4>3. f[n + 1] = f[n] \o seqs[n + 1]
        BY <2>1, <4>1
      <4>4. g[n + 1] = g[n] \o longer[n + 1]
        BY <1>3, <3>1, <4>1
      <4>5. QED BY <3>1, <4>2, <4>3, <4>4
    <3>4. QED BY <3>2, <3>3
  <2>4. Nat \subseteq T
    <3> HIDE DEF T
    <3>1. QED BY <2>2, <2>3, SetInduction
  <2>5. Len(seqs) \in 1 .. Len(seqs) /\ Len(seqs) \in Nat
    BY <1>5
  <2>6. f[Len(seqs)] = g[Len(seqs)]
    BY <2>4, <2>5
  <2>7. FlattenSeq(longer) = g[Len(seqs)] \o x
    <3>1. Len(longer) \in 1 .. Len(longer) /\ Len(longer) # 1 /\ Len(longer) - 1 = Len(seqs)
      BY <1>2, <2>5
    <3>2. QED BY <1>2, <1>3, <3>1
  <2>8. QED BY <1>1, <2>1, <2>5, <2>6, <2>7
<1>6. QED BY <1>4, <1>5

(* The bytes a part of a response carries. *)
Payload(item) == IF item.type = "chunk" THEN item.bytes ELSE <<>>

(* The body of one more part. *)
LEMMA BodyOfAppend ==
  ASSUME NEW S, NEW s \in Seq(S), NEW x \in S, \A p \in S : Payload(p) \in Seq(Nat)
  PROVE  /\ BodyOf(s) \in Seq(Nat)
         /\ BodyOf(Append(s, x)) = BodyOf(s) \o Payload(x)
<1> DEFINE B == Seq(Nat)
           seqs == [i \in 1 .. Len(s) |-> Payload(s[i])]
<1>1. seqs \in Seq(B)
  <2>1. \A i \in 1 .. Len(s) : s[i] \in S
    OBVIOUS
  <2>2. \A i \in 1 .. Len(s) : Payload(s[i]) \in B
    BY <2>1
  <2> HIDE DEF B
  <2>3. QED BY <2>2
<1>2. PICK t \in Seq(S) : t = Append(s, x)
  BY AppendProperties
<1>3. /\ Len(t) = Len(s) + 1 /\ t[Len(s) + 1] = x
      /\ \A i \in 1 .. Len(s) : t[i] = s[i]
  BY <1>2
<1>4. [i \in 1 .. Len(t) |-> Payload(t[i])] = Append(seqs, Payload(x))
  <2> DEFINE u == [i \in 1 .. Len(t) |-> Payload(t[i])]
             v == Append(seqs, Payload(x))
  <2>1. Len(seqs) = Len(s) /\ \A i \in 1 .. Len(s) : seqs[i] = Payload(s[i])
    OBVIOUS
  <2>2. v \in Seq(B) /\ Len(v) = Len(s) + 1 /\ v[Len(s) + 1] = Payload(x)
        /\ \A i \in 1 .. Len(s) : v[i] = Payload(s[i])
    <3>1. PICK y \in B : y = Payload(x)
      OBVIOUS
    <3> HIDE DEF seqs, B
    <3>2. /\ Append(seqs, y) \in Seq(B) /\ Len(Append(seqs, y)) = Len(s) + 1
          /\ Append(seqs, y)[Len(s) + 1] = y
          /\ \A i \in 1 .. Len(s) : Append(seqs, y)[i] = seqs[i]
      BY <1>1, <2>1, AppendProperties
    <3>3. QED BY <2>1, <3>1, <3>2
  <2> HIDE DEF v
  <2>3. v = [i \in 1 .. Len(s) + 1 |-> v[i]]
    <3> HIDE DEF B
    <3>1. QED BY <2>2
  <2>4. \A i \in 1 .. Len(s) + 1 : v[i] = Payload(t[i])
    <3> SUFFICES ASSUME NEW i \in 1 .. Len(s) + 1 PROVE v[i] = Payload(t[i])
      OBVIOUS
    <3>1. CASE i = Len(s) + 1
      BY <1>3, <2>2, <3>1
    <3>2. CASE i # Len(s) + 1
      <4>1. i \in 1 .. Len(s)
        BY <3>2
      <4>2. QED BY <1>3, <2>2, <4>1
    <3>3. QED BY <3>1, <3>2
  <2>5. QED BY <1>3, <2>3, <2>4
<1>5. BodyOf(s) = FlattenSeq(seqs)
  BY DEF BodyOf, Payload
<1>6. BodyOf(t) = FlattenSeq([i \in 1 .. Len(t) |-> Payload(t[i])])
  BY DEF BodyOf, Payload
<1>7. /\ FlattenSeq(seqs) \in Seq(Nat)
      /\ FlattenSeq(Append(seqs, Payload(x))) = FlattenSeq(seqs) \o Payload(x)
  <2> HIDE DEF seqs
  <2>1. seqs \in Seq(Seq(Nat)) /\ Payload(x) \in Seq(Nat)
    BY <1>1
  <2>2. QED BY <2>1, FlattenAppend
<1>8. QED BY <1>2, <1>4, <1>5, <1>6, <1>7, Zenon

(* A beginning that is longer by one. *)
LEMMA TakeNext ==
  ASSUME NEW S, NEW s \in Seq(S), NEW n \in Nat, n < Len(s)
  PROVE  Take(s, n + 1) = Append(Take(s, n), s[n + 1])
<1>1. PICK t : t = Take(s, n)
  OBVIOUS
<1>2. PICK u : u = Take(s, n + 1)
  OBVIOUS
<1>3. t \in Seq(S) /\ Len(t) = n /\ \A i \in 1 .. n : t[i] = s[i]
  <2>1. n <= Len(s) /\ n \in Nat
    OBVIOUS
  <2>2. /\ Take(s, n) \in Seq(S) /\ Len(Take(s, n)) = n
        /\ \A i \in 1 .. Len(Take(s, n)) : Take(s, n)[i] = s[i]
    BY <2>1, TakeIs
  <2>3. QED BY <1>1, <2>2, Zenon
<1>4. u \in Seq(S) /\ Len(u) = n + 1 /\ \A i \in 1 .. n + 1 : u[i] = s[i]
  <2>1. n + 1 <= Len(s) /\ n + 1 \in Nat
    OBVIOUS
  <2>2. /\ Take(s, n + 1) \in Seq(S) /\ Len(Take(s, n + 1)) = n + 1
        /\ \A i \in 1 .. Len(Take(s, n + 1)) : Take(s, n + 1)[i] = s[i]
    BY <2>1, TakeIs
  <2>3. QED BY <1>2, <2>2, Zenon
<1>5. s[n + 1] \in S
  OBVIOUS
<1>6. u = Append(t, s[n + 1])
  BY <1>3, <1>4, <1>5
<1>7. QED BY <1>1, <1>2, <1>6

(* Recording the bytes that still fit, write by write, records the first   *)
(* bytes of the whole.                                                     *)
LEMMA TakeConcat ==
  ASSUME NEW b \in Seq(Nat), NEW c \in Seq(Nat), NEW m \in Nat
  PROVE  Take(b \o c, m) = IF Len(Take(b, m)) < m
                           THEN Take(b, m) \o Take(c, m - Len(Take(b, m)))
                           ELSE Take(b, m)
<1>1. PICK d \in Seq(Nat) : d = b \o c
  BY ConcatProperties
<1>2. /\ Len(d) = Len(b) + Len(c)
      /\ \A i \in 1 .. Len(b) : d[i] = b[i]
      /\ \A i \in 1 .. Len(c) : d[Len(b) + i] = c[i]
  BY <1>1
<1>3. PICK e : e = Take(d, m)
  OBVIOUS
<1>4. e \in Seq(Nat) /\ (\A i \in 1 .. Len(e) : e[i] = d[i])
      /\ (m <= Len(d) => Len(e) = m) /\ (m >= Len(d) => e = d)
  BY <1>3, TakeIs
<1>5. PICK t : t = Take(b, m)
  OBVIOUS
<1>6. t \in Seq(Nat) /\ (\A i \in 1 .. Len(t) : t[i] = b[i])
      /\ (m <= Len(b) => Len(t) = m) /\ (m >= Len(b) => t = b)
  BY <1>5, TakeIs
<1>7. CASE Len(b) < m
  <2>1. t = b /\ m - Len(b) \in Nat
    BY <1>6, <1>7
  <2>2. PICK u : u = Take(c, m - Len(b))
    OBVIOUS
  <2>3. u \in Seq(Nat) /\ (\A i \in 1 .. Len(u) : u[i] = c[i])
        /\ (m - Len(b) <= Len(c) => Len(u) = m - Len(b))
        /\ (m - Len(b) >= Len(c) => u = c)
    BY <2>1, <2>2, TakeIs
  <2>4. Len(e) = Len(b) + Len(u)
    BY <1>2, <1>4, <2>3
  <2>5. Len(u) <= Len(c)
    BY <2>1, <2>3
  <2>6. e = b \o u
    <3>1. \A i \in 1 .. Len(b) : e[i] = b[i]
      BY <1>2, <1>4, <2>3, <2>4
    <3>2. \A i \in 1 .. Len(u) : e[Len(b) + i] = u[i]
      <4> SUFFICES ASSUME NEW i \in 1 .. Len(u) PROVE e[Len(b) + i] = u[i]
        OBVIOUS
      <4>1. i \in 1 .. Len(c) /\ Len(b) + i \in 1 .. Len(e)
        BY <2>3, <2>4, <2>5
      <4>2. QED BY <1>2, <1>4, <2>3, <4>1
    <3>3. PICK w \in Seq(Nat) : w = b \o u
      BY <2>3, ConcatProperties
    <3>4. /\ Len(w) = Len(b) + Len(u)
          /\ \A i \in 1 .. Len(b) : w[i] = b[i]
          /\ \A i \in 1 .. Len(u) : w[Len(b) + i] = u[i]
      BY <2>3, <3>3
    <3>5. \A i \in 1 .. Len(e) : e[i] = w[i]
      <4> SUFFICES ASSUME NEW i \in 1 .. Len(e) PROVE e[i] = w[i]
        OBVIOUS
      <4>1. CASE i <= Len(b)
        <5>1. i \in 1 .. Len(b)
          BY <2>3, <2>4, <4>1
        <5>2. QED BY <3>1, <3>4, <5>1
      <4>2. CASE i > Len(b)
        <5>1. i - Len(b) \in 1 .. Len(u) /\ Len(b) + (i - Len(b)) = i
          BY <2>3, <2>4, <4>2
        <5>2. QED BY <3>2, <3>4, <5>1
      <4>3. QED BY <4>1, <4>2
    <3>6. e = w
      BY <1>4, <2>4, <3>4, <3>5
    <3>7. QED BY <3>3, <3>6
  <2>7. QED BY <1>1, <1>3, <1>5, <1>7, <2>1, <2>2, <2>6
<1>8. CASE ~ (Len(b) < m)
  <2>1. Len(t) = m /\ Len(e) = m /\ m <= Len(b)
    BY <1>2, <1>4, <1>6, <1>8
  <2>2. \A i \in 1 .. m : e[i] = t[i]
    <3> SUFFICES ASSUME NEW i \in 1 .. m PROVE e[i] = t[i]
      OBVIOUS
    <3>1. i \in 1 .. Len(b) /\ i \in 1 .. Len(e) /\ i \in 1 .. Len(t)
      BY <2>1
    <3>2. QED BY <1>2, <1>4, <1>6, <3>1
  <2>3. e = t
    BY <1>4, <1>6, <2>1, <2>2
  <2>4. QED BY <1>1, <1>3, <1>5, <2>1, <2>3
<1>9. QED BY <1>7, <1>8

-----------------------------------------------------------------------------
(* The response. *)

Items == response.items
Out   == clientGot \o buffered
Parts == {Items[i] : i \in DOMAIN Items} \cup {Head_(502)}
After == {"close", "submit", "end", "done"}

(* How ReverseProxy returns: with the response, or with 502. *)
Whole  == relayed = Total /\ ~ response.dies /\ Out = Take(Items, relayed)
Failed == Heads(Take(Items, relayed)) = {} /\ Out = Append(Take(Items, relayed), Head_(502))

OutTypes ==
  /\ response \in Responses /\ relayed \in 0 .. Total
  /\ clientGot \in Seq(Parts) /\ buffered \in Seq(Parts)
  /\ rec \in [statusCode : Nat, wroteHeader : BOOLEAN, body : Seq(Nat)]

(* Nothing but informational headers has been relayed. *)
OnlyInfos == \A i \in 1 .. relayed : Items[i].type = "info"

(* The client has been given what was relayed; after ReverseProxy, the     *)
(* whole of the response, or 502.  Informational headers are not buffered. *)
OutSound ==
  /\ handler \notin After => Out = Take(Items, relayed) /\ (OnlyInfos => buffered = <<>>)
  /\ handler \in After => Whole \/ Failed
  /\ clientEnd = "complete" => handler = "done"

(* The recorder has the first bytes of what was relayed, and the first     *)
(* status of all.                                                          *)
RecSound ==
  /\ rec.body = Take(BodyOf(Take(Items, relayed)), MaxBodySize)
  /\ relayed > 0 => rec.wroteHeader /\ rec.statusCode = Items[1].code
  /\ handler \notin After /\ relayed = 0 => ~ rec.wroteHeader
  /\ handler \in After /\ relayed = 0 => rec.statusCode = 502

(* The span tells what was captured and recorded. *)
SpanSound ==
  span # NoSpan =>
    /\ handler \in {"end", "done"}
    /\ span = IF isConnectRequest(request) THEN submitConnectSpan ELSE submitHTTPSpan

ResponseSound == OutTypes /\ OutSound /\ RecSound /\ SpanSound

(* What the assumptions say of a response. *)
LEMMA ResponseShape ==
  ASSUME response \in Responses
  PROVE  /\ Items \in Seq(Parts) /\ Total \in Nat /\ Total = Len(Items)
         /\ DOMAIN Items = 1 .. Total
         /\ \A i \in 1 .. Total :
              \/ /\ Items[i].type = "chunk" /\ Items[i].bytes \in Seq(Nat)
                 /\ \E j \in 1 .. i - 1 : Items[j].type = "head"
              \/ /\ Items[i].type \in {"info", "head"} /\ Items[i].code \in Nat
                 /\ Items[i] = [type |-> Items[i].type, code |-> Items[i].code]
                 /\ \A j \in 1 .. i - 1 : Items[j].type = "info"
         /\ ~ response.dies => \E i \in 1 .. Total : Items[i].type = "head"
<1>1. IsResponse(Items) /\ (~ response.dies => \E i \in DOMAIN Items : Items[i].type = "head")
  BY ResponsesAssumption DEF Items
<1>2. Items \in Seq({Items[i] : i \in DOMAIN Items})
  BY <1>1 DEF IsResponse
<1>3. Total \in Nat /\ DOMAIN Items = 1 .. Total /\ Total = Len(Items)
  BY <1>2 DEF Total, Items
<1>4. Items \in Seq(Parts)
  <2>1. PICK s : s = Items
    OBVIOUS
  <2>2. s \in Seq({s[i] : i \in DOMAIN s})
    BY <1>2, <2>1, Zenon
  <2>3. \A i \in 1 .. Len(s) : s[i] \in Parts
    BY <2>1, <1>3 DEF Parts, Total, Items
  <2> DEFINE P == Parts
  <2>4. s \in Seq(P)
    <3> HIDE DEF P
    <3>1. \A i \in 1 .. Len(s) : s[i] \in P
      BY <2>3 DEF P
    <3>2. Len(s) \in Nat /\ s = [i \in 1 .. Len(s) |-> s[i]]
      BY <2>2
    <3>3. QED BY <3>1, <3>2
  <2>5. QED BY <2>1, <2>4
<1>5. QED BY <1>1, <1>3, <1>4 DEF IsResponse

(* The payload of a part is a sequence of bytes. *)
LEMMA PartPayload ==
  ASSUME response \in Responses
  PROVE  \A p \in Parts : Payload(p) \in Seq(Nat)
<1> SUFFICES ASSUME NEW p \in Parts PROVE Payload(p) \in Seq(Nat)
  OBVIOUS
<1>1. CASE p = Head_(502)
  BY <1>1 DEF Payload, Head_
<1>2. CASE p # Head_(502)
  <2>1. PICK i \in 1 .. Total : p = Items[i]
    BY <1>2, ResponseShape DEF Parts
  <2>2. p.type = "chunk" => p.bytes \in Seq(Nat)
    BY <2>1, ResponseShape
  <2>3. QED BY <2>2 DEF Payload
<1>3. QED BY <1>1, <1>2

(* Facts about the part of the response that has been relayed. *)
LEMMA RelayedFacts ==
  ASSUME OutTypes
  PROVE  /\ Take(Items, relayed) \in Seq(Parts) /\ Len(Take(Items, relayed)) = relayed
         /\ relayed \in Nat /\ Total \in Nat /\ MaxBodySize \in Nat
         /\ \A i \in 1 .. relayed : Take(Items, relayed)[i] = Items[i]
         /\ BodyOf(Take(Items, relayed)) \in Seq(Nat)
         /\ Head_(502) \in Parts
         /\ Out \in Seq(Parts)
<1>1. /\ Items \in Seq(Parts) /\ Total \in Nat /\ Total = Len(Items)
      /\ relayed \in 0 .. Total
  BY ResponseShape DEF OutTypes
<1>2. relayed \in Nat /\ relayed <= Len(Items)
  BY <1>1
<1>3. /\ Take(Items, relayed) \in Seq(Parts) /\ Len(Take(Items, relayed)) = relayed
      /\ \A i \in 1 .. Len(Take(Items, relayed)) : Take(Items, relayed)[i] = Items[i]
  BY <1>1, <1>2, TakeIs
<1>4. Head_(502) \in Parts
  BY DEF Parts
<1>5. BodyOf(Take(Items, relayed)) \in Seq(Nat)
  BY <1>3, <1>4, PartPayload, BodyOfAppend DEF OutTypes
<1>6. Out \in Seq(Parts)
  BY ConcatProperties DEF OutTypes, Out
<1>7. QED BY <1>1, <1>2, <1>3, <1>4, <1>5, <1>6, MaxBodySizeAssumption

(* Nothing has been relayed. *)
LEMMA ResponseInit == Init => ResponseSound
<1> SUFFICES ASSUME Init PROVE ResponseSound
  OBVIOUS
<1>1. /\ response \in Responses /\ relayed = 0 /\ clientGot = <<>> /\ buffered = <<>>
      /\ rec = [statusCode |-> 0, wroteHeader |-> FALSE, body |-> <<>>]
      /\ handler = "start" /\ body = "open" /\ upEnd = "none" /\ clientEnd = "none"
      /\ span = NoSpan
  BY DEF Init
<1>2. Items \in Seq(Parts) /\ Total \in Nat
  BY <1>1, ResponseShape
<1>3. OutTypes
  BY <1>1, <1>2 DEF OutTypes
<1>4. Take(Items, 0) = <<>>
  <2>1. 0 <= Len(Items) /\ 0 \in Nat
    BY <1>2
  <2>2. Take(Items, 0) \in Seq(Parts) /\ Len(Take(Items, 0)) = 0
    BY <1>2, <2>1, TakeIs
  <2>3. QED BY <2>2
<1>5. BodyOf(<<>>) = <<>>
  <2>1. FlattenSeq([i \in 1 .. 0 |-> <<>>]) = <<>>
    BY DEF FlattenSeq
  <2>2. QED BY <2>1 DEF BodyOf
<1>6. Take(<<>>, MaxBodySize) = <<>>
  <2>1. <<>> \in Seq(Nat) /\ MaxBodySize \in Nat /\ MaxBodySize >= Len(<<>>)
    BY MaxBodySizeAssumption
  <2>2. QED BY <2>1, TakeIs
<1>7. OutSound
  <2>1. Out = <<>>
    BY <1>1 DEF Out
  <2>2. QED BY <1>1, <1>4, <2>1 DEF OutSound, After
<1>8. RecSound
  BY <1>1, <1>4, <1>5, <1>6 DEF RecSound, After
<1>9. QED BY <1>1, <1>3, <1>7, <1>8 DEF ResponseSound, SpanSound

(* A step after which the client has been given what it had been given.    *)
LEMMA ResponseKept ==
  ASSUME ResponseSound, UNCHANGED <<response, relayed, rec, span>>,
         Out' = Out, clientGot' \in Seq(Parts'), buffered' \in Seq(Parts'),
         buffered = <<>> => buffered' = <<>>,
         handler \in After <=> handler' \in After,
         clientEnd' = "complete" => handler' = "done",
         span # NoSpan => handler' \in {"end", "done"} /\ UNCHANGED <<request, reqBody, ids>>
  PROVE  ResponseSound'
<1>1. Items' = Items /\ Total' = Total /\ Take(Items, relayed)' = Take(Items, relayed)
  BY DEF Items, Total, Take
<1>2. OutTypes'
  BY <1>1 DEF ResponseSound, OutTypes
<1>3. OutSound'
  <2>1. (Whole => Whole') /\ (Failed => Failed') /\ (OnlyInfos' => OnlyInfos)
    BY <1>1 DEF Whole, Failed, OnlyInfos
  <2>2. QED BY <1>1, <2>1 DEF ResponseSound, OutSound
<1>4. RecSound'
  BY <1>1 DEF ResponseSound, RecSound
<1>5. SpanSound'
  <2>1. CASE span = NoSpan
    BY <2>1 DEF SpanSound
  <2>2. CASE span # NoSpan
    BY <2>2 DEF ResponseSound, SpanSound, submitConnectSpan, submitHTTPSpan, parseConnectError
  <2>3. QED BY <2>1, <2>2
<1>6. QED BY <1>2, <1>3, <1>4, <1>5 DEF ResponseSound

(* A step that does not touch the response. *)
LEMMA ResponseQuiet ==
  ASSUME ResponseSound, UNCHANGED <<response, relayed, rec, span, clientGot, buffered>>,
         handler \in After <=> handler' \in After,
         clientEnd' = "complete" => handler' = "done",
         span # NoSpan => handler' \in {"end", "done"} /\ UNCHANGED <<request, reqBody, ids>>
  PROVE  ResponseSound'
<1>1. Out' = Out /\ Parts' = Parts
  BY DEF Out, Parts, Items
<1>2. clientGot' \in Seq(Parts') /\ buffered' \in Seq(Parts')
  BY <1>1 DEF ResponseSound, OutTypes
<1>3. QED BY <1>1, <1>2, ResponseKept

(* The steps of the request do not touch the response, nor does a panic.   *)
LEMMA ResponseOther ==
  ASSUME ResponseSound, BodySound,
         \/ Start \/ ClientSends \/ ClientEnds \/ ClientLeaves \/ CaptureReads
         \/ CaptureEnds \/ Probe \/ Pump \/ TransportDrops \/ UpstreamSays \/ Drain
         \/ Panic \/ CloseDiscards \/ CloseEnds \/ UNCHANGED vars
  PROVE  ResponseSound'
<1>1. (clientEnd = "complete" => handler = "done") /\ (span # NoSpan => handler \in {"end", "done"})
  BY DEF ResponseSound, OutSound, SpanSound
<1>2. CASE ClientSends \/ ClientEnds \/ ClientLeaves \/ UpstreamSays \/ UNCHANGED vars
  <2>1. UNCHANGED <<request, response, relayed, clientGot, buffered, rec, clientEnd, span,
                    reqBody, ids, handler>>
    BY <1>2 DEF ClientSends, ClientEnds, ClientLeaves, UpstreamSays, vars,
       clientVars, contextVars, captureVars, upstreamVars, relayVars, outVars
  <2>2. QED BY <1>1, <2>1, ResponseQuiet
<1>3. CASE Pump \/ TransportDrops \/ Drain \/ CloseDiscards
  <2>1. UNCHANGED <<request, response, relayed, clientGot, buffered, rec, clientEnd, span,
                    reqBody, ids, handler>>
    BY <1>3 DEF Pump, TransportDrops, Drain, CloseDiscards, Discard,
       clientVars, contextVars, captureVars, upstreamVars, relayVars, outVars
  <2>2. QED BY <1>1, <2>1, ResponseQuiet
<1>4. CASE Start \/ CaptureReads \/ CaptureEnds \/ Probe
  <2>1. /\ UNCHANGED <<response, relayed, clientGot, buffered, rec, clientEnd, span>>
        /\ handler \in {"start", "capture"} /\ handler' \in {"capture", "relay"}
    BY <1>4 DEF Start, CaptureReads, CaptureEnds, Probe, Forward,
       clientVars, upstreamVars, relayVars, outVars
  <2>2. QED BY <1>1, <2>1, ResponseQuiet DEF After
<1>5. CASE Panic
  <2>1. /\ UNCHANGED <<response, relayed, clientGot, buffered, rec, clientEnd, span>>
        /\ handler = "relay" /\ handler' = "unwind"
    BY <1>5 DEF Panic, Leave, upstreamVars, relayVars, outVars
  <2>2. QED BY <1>1, <2>1, ResponseQuiet DEF After
<1>6. CASE CloseEnds
  <2>1. /\ UNCHANGED <<response, relayed, clientGot, buffered, rec, span>>
        /\ \/ handler = "close" /\ handler' = "submit" /\ clientEnd' = clientEnd
           \/ handler = "unwind" /\ handler' = "aborted" /\ clientEnd' = "broken"
    BY <1>6 DEF CloseEnds, upstreamVars
  <2>2. QED BY <1>1, <2>1, ResponseQuiet DEF After
<1>7. QED BY <1>2, <1>3, <1>4, <1>5, <1>6

(* What PassOn gives to the client comes behind what was given before. *)
LEMMA PassOnAppends ==
  ASSUME OutTypes, UNCHANGED response, NEW item \in Parts, PassOn(item),
         item.type = "info" => buffered = <<>>
  PROVE  /\ Out' = Append(Out, item)
         /\ clientGot' \in Seq(Parts') /\ buffered' \in Seq(Parts')
<1> DEFINE P == Parts
<1>1. Parts' = P
  BY DEF Parts, Items
<1>2. clientGot \in Seq(P) /\ buffered \in Seq(P) /\ item \in P
  BY DEF OutTypes
<1>3. PICK a \in Seq(P) : a = Append(buffered, item)
  BY <1>2, AppendProperties
<1>4. \/ clientGot' = Append(clientGot, item) /\ buffered' = <<>> /\ buffered = <<>>
      \/ clientGot' = clientGot /\ buffered' = a
  BY <1>3 DEF PassOn
<1> HIDE DEF P
<1>5. clientGot \o a = Append(clientGot \o buffered, item)
  <2>1. PICK u \in Seq(P) : u = clientGot \o a
    BY <1>2, ConcatProperties
  <2>2. PICK w \in Seq(P) : w = clientGot \o buffered
    BY <1>2, ConcatProperties
  <2>3. PICK v \in Seq(P) : v = Append(w, item)
    BY <1>2, AppendProperties
  <2>4. /\ Len(a) = Len(buffered) + 1 /\ a[Len(buffered) + 1] = item
        /\ \A i \in 1 .. Len(buffered) : a[i] = buffered[i]
    BY <1>2, <1>3
  <2>5. /\ Len(u) = Len(clientGot) + Len(a)
        /\ \A i \in 1 .. Len(clientGot) : u[i] = clientGot[i]
        /\ \A i \in 1 .. Len(a) : u[Len(clientGot) + i] = a[i]
    BY <1>2, <2>1
  <2>6. /\ Len(w) = Len(clientGot) + Len(buffered)
        /\ \A i \in 1 .. Len(clientGot) : w[i] = clientGot[i]
        /\ \A i \in 1 .. Len(buffered) : w[Len(clientGot) + i] = buffered[i]
    BY <1>2, <2>2
  <2>7. /\ Len(v) = Len(w) + 1 /\ v[Len(w) + 1] = item
        /\ \A i \in 1 .. Len(w) : v[i] = w[i]
    BY <1>2, <2>3
  <2>8. Len(u) = Len(v)
    BY <1>2, <2>4, <2>5, <2>6, <2>7
  <2>9. \A i \in 1 .. Len(v) : u[i] = v[i]
    <3> SUFFICES ASSUME NEW i \in 1 .. Len(v) PROVE u[i] = v[i]
      OBVIOUS
    <3>1. CASE i <= Len(clientGot)
      <4>1. i \in 1 .. Len(clientGot) /\ i \in 1 .. Len(w)
        BY <1>2, <2>6, <2>7, <3>1
      <4>2. QED BY <2>5, <2>6, <2>7, <4>1
    <3>2. CASE i > Len(clientGot) /\ i <= Len(w)
      <4>1. PICK k \in 1 .. Len(buffered) : i = Len(clientGot) + k
        <5>1. i - Len(clientGot) \in 1 .. Len(buffered)
          BY <1>2, <2>6, <2>7, <3>2
        <5>2. i = Len(clientGot) + (i - Len(clientGot))
          BY <1>2, <2>7
        <5>3. QED BY <5>1, <5>2
      <4>2. k \in 1 .. Len(a) /\ i \in 1 .. Len(w)
        BY <1>2, <2>4, <2>6, <2>7, <3>2
      <4>3. QED BY <2>4, <2>5, <2>6, <2>7, <4>1, <4>2
    <3>3. CASE i > Len(w)
      <4>1. Len(clientGot) \in Nat /\ Len(buffered) \in Nat
        BY <1>2
      <4>2. i = Len(w) + 1
        <5>1. Len(w) \in Nat
          BY <4>1, <2>6
        <5>2. i \in 1 .. Len(w) + 1
          BY <2>7
        <5>3. QED BY <3>3, <5>1, <5>2
      <4>3. Len(w) = Len(clientGot) + Len(buffered) /\ Len(a) = Len(buffered) + 1
        BY <2>4, <2>6
      <4>4. /\ i = Len(clientGot) + (Len(buffered) + 1)
            /\ Len(buffered) + 1 \in 1 .. Len(a)
        BY <4>1, <4>2, <4>3
      <4>5. QED BY <2>4, <2>5, <2>7, <4>2, <4>4
    <3>4. QED BY <1>2, <2>6, <2>7, <3>1, <3>2, <3>3
  <2>10. u = v
    BY <2>8, <2>9
  <2>11. QED BY <2>1, <2>2, <2>3, <2>10
<1>6. PICK g \in Seq(P) : g = Append(clientGot, item)
  BY <1>2, AppendProperties
<1>7. g \o <<>> = g /\ clientGot \o <<>> = clientGot /\ <<>> \in Seq(P)
  BY <1>2
<1>8. Out' = Append(Out, item)
  <2>1. CASE clientGot' = g /\ buffered' = <<>> /\ buffered = <<>>
    <3>1. Out' = g /\ Out = clientGot
      BY <1>7, <2>1 DEF Out
    <3>2. QED BY <1>6, <3>1
  <2>2. CASE clientGot' = clientGot /\ buffered' = a
    BY <1>5, <2>2 DEF Out
  <2>3. QED BY <1>4, <1>6, <2>1, <2>2
<1>9. QED BY <1>1, <1>2, <1>3, <1>4, <1>6, <1>7, <1>8

(* A write or a header of the upstream's, recorded and passed on. *)
LEMMA ResponseRelayItem ==
  ASSUME ResponseSound, RelayItem
  PROVE  ResponseSound'
<1> DEFINE item == Items[relayed + 1]
           T    == Take(Items, relayed)
           T1   == Take(Items, relayed + 1)
<1>1. /\ handler = "relay" /\ relayed < Total /\ relayed' = relayed + 1
      /\ IF item.type = "chunk" THEN Write(item.bytes) ELSE WriteHeader(item.code)
      /\ PassOn(item)
      /\ UNCHANGED <<request, response, clientEnd, handler, span>>
  BY DEF RelayItem, clientVars, upstreamVars, Items
<1>2. OutTypes /\ response \in Responses
  BY DEF ResponseSound, OutTypes
<1>3. Items' = Items /\ Total' = Total /\ Parts' = Parts
  BY <1>1 DEF Items, Total, Parts
<1>4. /\ relayed \in Nat /\ Total \in Nat /\ relayed + 1 \in 1 .. Total
      /\ T \in Seq(Parts) /\ Len(T) = relayed /\ Items \in Seq(Parts) /\ Total = Len(Items)
      /\ DOMAIN Items = 1 .. Total /\ MaxBodySize \in Nat /\ BodyOf(T) \in Seq(Nat)
  BY <1>1, <1>2, RelayedFacts, ResponseShape
<1>5. item \in Parts
  BY <1>4 DEF Parts
<1>6. /\ Out' = Append(Out, item) /\ clientGot' \in Seq(Parts') /\ buffered' \in Seq(Parts')
  <2>1. item.type = "info" => \A i \in 1 .. relayed : Items[i].type = "info"
    <3> SUFFICES ASSUME item.type = "info", NEW i \in 1 .. relayed
                 PROVE  Items[i].type = "info"
      OBVIOUS
    <3>1. relayed + 1 \in 1 .. Total /\ i \in 1 .. (relayed + 1) - 1
      BY <1>4
    <3>2. QED BY <1>2, <3>1, ResponseShape
  <2>2. item.type = "info" => buffered = <<>>
    BY <1>1, <2>1 DEF ResponseSound, OutSound, OnlyInfos, After
  <2>3. QED BY <1>1, <1>2, <1>5, <2>2, PassOnAppends
<1>7. T1 = Append(T, item) /\ Take(Items, relayed)' = T1
  <2>1. T1 = Append(T, item)
    BY <1>4, TakeNext
  <2>2. Take(Items, relayed)' = T1
    BY <1>1, <1>3, Zenon DEF Take
  <2>3. QED BY <2>1, <2>2
<1>8. BodyOf(T1) = BodyOf(T) \o Payload(item) /\ Payload(item) \in Seq(Nat)
  <2>1. \A p \in Parts : Payload(p) \in Seq(Nat)
    BY <1>2, PartPayload
  <2> DEFINE P == Parts
  <2>2. T \in Seq(P) /\ item \in P /\ \A p \in P : Payload(p) \in Seq(Nat)
    BY <1>4, <1>5, <2>1
  <2> HIDE DEF P, T, item
  <2>3. BodyOf(Append(T, item)) = BodyOf(T) \o Payload(item)
    BY <2>2, BodyOfAppend
  <2>4. QED BY <1>7, <2>2, <2>3
<1>9. rec \in [statusCode : Nat, wroteHeader : BOOLEAN, body : Seq(Nat)]
  BY <1>2 DEF OutTypes
<1>10. rec.body = Take(BodyOf(T), MaxBodySize)
  BY DEF ResponseSound, RecSound
<1>11. ASSUME item.type = "chunk"
       PROVE  /\ rec' \in [statusCode : Nat, wroteHeader : BOOLEAN, body : Seq(Nat)]
              /\ rec'.body = Take(BodyOf(T1), MaxBodySize)
              /\ rec'.wroteHeader /\ rec'.statusCode = Items[1].code
  <2>1. /\ Write(item.bytes) /\ Payload(item) = item.bytes /\ item.bytes \in Seq(Nat)
    BY <1>1, <1>8, <1>11 DEF Payload
  <2>2. relayed > 0 /\ relayed # 0
    <3>1. \E j \in 1 .. (relayed + 1) - 1 : Items[j].type = "head"
      BY <1>2, <1>4, <1>11, ResponseShape
    <3>2. QED BY <1>4, <3>1
  <2>3. rec.wroteHeader /\ rec.statusCode = Items[1].code
    BY <2>2 DEF ResponseSound, RecSound
  <2>4. rec' = [statusCode |-> rec.statusCode, wroteHeader |-> TRUE,
                body |-> IF Len(rec.body) < MaxBodySize
                         THEN rec.body \o Take(item.bytes, MaxBodySize - Len(rec.body))
                         ELSE rec.body]
    BY <2>1, <2>3 DEF Write
  <2>5. rec'.body = Take(BodyOf(T) \o item.bytes, MaxBodySize)
    <3>1. Take(BodyOf(T) \o item.bytes, MaxBodySize)
            = IF Len(rec.body) < MaxBodySize
              THEN rec.body \o Take(item.bytes, MaxBodySize - Len(rec.body))
              ELSE rec.body
      BY <1>4, <1>10, <2>1, TakeConcat
    <3>2. QED BY <2>4, <3>1
  <2>6. rec'.body \in Seq(Nat)
    <3>1. BodyOf(T) \o item.bytes \in Seq(Nat)
      BY <1>4, <2>1
    <3>2. Take(BodyOf(T) \o item.bytes, MaxBodySize) \in Seq(Nat)
      BY <1>4, <3>1, TakeIs
    <3>3. QED BY <2>5, <3>2
  <2>7. rec' \in [statusCode : Nat, wroteHeader : BOOLEAN, body : Seq(Nat)]
    BY <1>9, <2>4, <2>6
  <2>8. rec'.wroteHeader /\ rec'.statusCode = Items[1].code
    BY <2>3, <2>4
  <2>9. rec'.body = Take(BodyOf(T1), MaxBodySize)
    BY <1>8, <2>1, <2>5
  <2> HIDE DEF item, T, T1
  <2>10. QED BY <2>7, <2>8, <2>9
<1>12. ASSUME item.type # "chunk"
       PROVE  /\ rec' \in [statusCode : Nat, wroteHeader : BOOLEAN, body : Seq(Nat)]
              /\ rec'.body = Take(BodyOf(T1), MaxBodySize)
              /\ rec'.wroteHeader /\ rec'.statusCode = Items[1].code
  <2>1. /\ WriteHeader(item.code) /\ Payload(item) = <<>> /\ item.code \in Nat
    BY <1>1, <1>2, <1>4, <1>12, ResponseShape DEF Payload
  <2>2. rec' = IF rec.wroteHeader THEN rec
               ELSE [rec EXCEPT !.statusCode = item.code, !.wroteHeader = TRUE]
    BY <2>1 DEF WriteHeader
  <2>3. /\ rec' \in [statusCode : Nat, wroteHeader : BOOLEAN, body : Seq(Nat)]
        /\ rec'.wroteHeader /\ rec'.body = rec.body
        /\ (rec.wroteHeader => rec'.statusCode = rec.statusCode)
        /\ (~ rec.wroteHeader => rec'.statusCode = item.code)
    <3> HIDE DEF item
    <3>1. QED BY <1>9, <2>1, <2>2
  <2>4. rec'.statusCode = Items[1].code
    <3>1. CASE relayed = 0
      <4>1. ~ rec.wroteHeader /\ relayed + 1 = 1
        BY <1>1, <1>4, <3>1 DEF ResponseSound, RecSound, After
      <4>2. QED BY <2>3, <4>1
    <3>2. CASE relayed # 0
      <4>1. rec.wroteHeader /\ rec.statusCode = Items[1].code
        BY <1>4, <3>2 DEF ResponseSound, RecSound
      <4>2. QED BY <2>3, <4>1
    <3>3. QED BY <3>1, <3>2
  <2>5. BodyOf(T1) = BodyOf(T)
    <3>1. BodyOf(T) \o <<>> = BodyOf(T)
      BY <1>4
    <3>2. QED BY <1>8, <2>1, <3>1
  <2>6. rec'.body = Take(BodyOf(T1), MaxBodySize)
    BY <1>10, <2>3, <2>5
  <2> HIDE DEF item, T, T1
  <2>7. QED BY <2>3, <2>4, <2>6
<1>13. /\ rec' \in [statusCode : Nat, wroteHeader : BOOLEAN, body : Seq(Nat)]
       /\ rec'.body = Take(BodyOf(T1), MaxBodySize)
       /\ rec'.wroteHeader /\ rec'.statusCode = Items[1].code
  BY <1>11, <1>12
<1>14. OutTypes'
  <2>1. relayed' \in 0 .. Total'
    BY <1>1, <1>3, <1>4
  <2>2. QED BY <1>1, <1>2, <1>6, <1>13, <2>1 DEF OutTypes
<1>15. OutSound'
  <2>1. Out = T /\ handler \notin After /\ clientEnd # "complete"
    BY <1>1 DEF ResponseSound, OutSound, After
  <2>2. Out' = T1
    BY <1>6, <1>7, <2>1
  <2>3. OnlyInfos' => buffered' = <<>>
    <3> SUFFICES ASSUME OnlyInfos' PROVE buffered' = <<>>
      OBVIOUS
    <3>1. item.type = "info" /\ OnlyInfos
      BY <1>1, <1>3, <1>4 DEF OnlyInfos
    <3>2. buffered = <<>>
      BY <1>1, <3>1 DEF ResponseSound, OutSound, After
    <3>3. QED BY <1>1, <3>1, <3>2 DEF PassOn
  <2>4. QED BY <1>1, <1>7, <2>1, <2>2, <2>3 DEF OutSound
<1>16. RecSound'
  <2>1. relayed' # 0
    BY <1>1, <1>4
  <2>2. QED BY <1>3, <1>7, <1>13, <2>1 DEF RecSound
<1>17. SpanSound'
  <2>1. span = NoSpan
    BY <1>1 DEF ResponseSound, SpanSound
  <2>2. QED BY <1>1, <2>1 DEF SpanSound
<1>18. QED BY <1>14, <1>15, <1>16, <1>17 DEF ResponseSound

(* What is buffered goes to the client, at any time or at the end. *)
LEMMA FlushKeepsOut ==
  ASSUME OutTypes, UNCHANGED response,
         clientGot' = clientGot \o buffered, buffered' = <<>>
  PROVE  Out' = Out /\ clientGot' \in Seq(Parts') /\ buffered' \in Seq(Parts')
<1> DEFINE P == Parts
<1>1. Parts' = P
  BY DEF Parts, Items
<1>2. clientGot \in Seq(P) /\ buffered \in Seq(P)
  BY DEF OutTypes
<1> HIDE DEF P
<1>3. PICK u \in Seq(P) : u = clientGot \o buffered
  BY <1>2, ConcatProperties
<1>4. u \o <<>> = u /\ <<>> \in Seq(P)
  OBVIOUS
<1>5. QED BY <1>1, <1>3, <1>4 DEF Out

(* What net/http sends stays in its order, whether it is sent at once, or  *)
(* after the body of the request has been discarded.                       *)
LEMMA ResponseSends ==
  ASSUME ResponseSound, SendSteps \/ DrainEnds
  PROVE  ResponseSound'
<1>1. /\ UNCHANGED <<request, response, relayed, rec, clientEnd, span, reqBody, ids>>
      /\ handler \in {"relay", "drain"} /\ handler' \in {"relay", "drain"}
      /\ \/ UNCHANGED <<clientGot, buffered>>
         \/ clientGot' = clientGot \o buffered /\ buffered' = <<>>
  <2>1. CASE SendSteps
    BY <2>1 DEF SendSteps, Flush, BufferSpills, Send, Deliver, clientVars, contextVars,
       captureVars, upstreamVars
  <2>2. CASE DrainEnds
    BY <2>2 DEF DrainEnds, Deliver, clientVars, contextVars, captureVars, upstreamVars
  <2>3. QED BY <2>1, <2>2
<1>2. OutTypes /\ clientEnd # "complete" /\ span = NoSpan
  BY <1>1 DEF ResponseSound, OutSound, SpanSound
<1>3. handler \notin After /\ handler' \notin After
  BY <1>1 DEF After
<1>4. CASE UNCHANGED <<clientGot, buffered>>
  BY <1>1, <1>2, <1>3, <1>4, ResponseQuiet
<1>5. CASE clientGot' = clientGot \o buffered /\ buffered' = <<>>
  <2>1. Out' = Out /\ clientGot' \in Seq(Parts') /\ buffered' \in Seq(Parts')
    BY <1>1, <1>2, <1>5, FlushKeepsOut
  <2>2. QED BY <1>1, <1>2, <1>3, <1>5, <2>1, ResponseKept
<1>6. QED BY <1>1, <1>4, <1>5

(* ReverseProxy has relayed all of the response. *)
LEMMA ResponseRelayEnds ==
  ASSUME ResponseSound, RelayEnds
  PROVE  ResponseSound'
<1>1. /\ handler = "relay" /\ relayed = Total /\ ~ response.dies /\ handler' = "close"
      /\ UNCHANGED <<response, relayed, clientGot, buffered, rec, clientEnd, span>>
  BY DEF RelayEnds, Leave, UpstreamOver, upstreamVars, relayVars, outVars
<1>2. /\ Items' = Items /\ Total' = Total /\ Out' = Out
      /\ Take(Items, relayed)' = Take(Items, relayed)
  BY <1>1 DEF Items, Total, Take, Out
<1>3. OutTypes'
  BY <1>1 DEF ResponseSound, OutTypes, Parts, Items, Total
<1>4. OutSound'
  <2>1. Out = Take(Items, relayed) /\ clientEnd # "complete"
    BY <1>1 DEF ResponseSound, OutSound, After
  <2>2. Whole'
    BY <1>1, <1>2, <2>1 DEF Whole
  <2>3. QED BY <1>1, <2>1, <2>2 DEF OutSound, After
<1>5. relayed # 0
  <2>1. \E i \in 1 .. Total : Items[i].type = "head"
    BY <1>1, ResponseShape DEF ResponseSound, OutTypes
  <2>2. QED BY <1>1, <2>1
<1>6. RecSound'
  BY <1>1, <1>2, <1>5 DEF ResponseSound, RecSound
<1>7. SpanSound'
  BY <1>1 DEF ResponseSound, SpanSound
<1>8. QED BY <1>3, <1>4, <1>6, <1>7 DEF ResponseSound

(* 502, when the final header cannot come any more or is refused. *)
LEMMA ResponseBadGateway ==
  ASSUME ResponseSound, BadGateway
  PROVE  ResponseSound'
<1> DEFINE T == Take(Items, relayed)
<1>1. /\ handler = "relay" /\ Heads(T) = {}
      /\ WriteHeader(502) /\ PassOn(Head_(502)) /\ handler' = "close"
      /\ UNCHANGED <<response, relayed, clientEnd, span>>
  BY DEF BadGateway, Headed, Leave, upstreamVars, Items
<1>2. OutTypes
  BY DEF ResponseSound
<1>3. Items' = Items /\ Total' = Total /\ T' = T /\ Parts' = Parts
  BY <1>1 DEF Items, Total, Take, Parts
<1>4. /\ Out' = Append(Out, Head_(502))
      /\ clientGot' \in Seq(Parts') /\ buffered' \in Seq(Parts')
  <2>1. Head_(502).type # "info" /\ Head_(502) \in Parts
    BY <1>2, RelayedFacts DEF Head_
  <2>2. QED BY <1>1, <1>2, <2>1, PassOnAppends
<1>5. rec \in [statusCode : Nat, wroteHeader : BOOLEAN, body : Seq(Nat)]
  BY <1>2 DEF OutTypes
<1>6. /\ rec' \in [statusCode : Nat, wroteHeader : BOOLEAN, body : Seq(Nat)]
      /\ rec'.wroteHeader /\ rec'.body = rec.body
      /\ (rec.wroteHeader => rec'.statusCode = rec.statusCode)
      /\ (~ rec.wroteHeader => rec'.statusCode = 502)
  <2>1. rec' = IF rec.wroteHeader THEN rec
               ELSE [rec EXCEPT !.statusCode = 502, !.wroteHeader = TRUE]
    BY <1>1 DEF WriteHeader
  <2>2. CASE rec.wroteHeader
    BY <1>5, <2>1, <2>2
  <2>3. CASE ~ rec.wroteHeader
    <3>1. rec' = [statusCode |-> 502, wroteHeader |-> TRUE, body |-> rec.body]
      BY <1>5, <2>1, <2>3, ZenonT(40)
    <3>2. QED BY <1>5, <2>3, <3>1
  <2>4. QED BY <2>2, <2>3
<1>7. OutTypes'
  <2>1. relayed' \in 0 .. Total'
    BY <1>1, <1>2, <1>3 DEF OutTypes
  <2>2. QED BY <1>1, <1>2, <1>4, <1>6, <2>1 DEF OutTypes
<1>8. OutSound'
  <2>1. Out = T /\ clientEnd # "complete"
    BY <1>1 DEF ResponseSound, OutSound, After
  <2>2. Failed'
    BY <1>1, <1>3, <1>4, <2>1 DEF Failed
  <2>3. QED BY <1>1, <2>1, <2>2 DEF OutSound, After
<1>9. RecSound'
  <2>1. /\ rec.body = Take(BodyOf(T), MaxBodySize)
        /\ relayed > 0 => rec.wroteHeader /\ rec.statusCode = Items[1].code
        /\ relayed = 0 => ~ rec.wroteHeader
    BY <1>1 DEF ResponseSound, RecSound, After
  <2>2. handler' \in After
    BY <1>1 DEF After
  <2>3. QED BY <1>1, <1>3, <1>6, <2>1, <2>2 DEF RecSound
<1>10. SpanSound'
  <2>1. span = NoSpan
    BY <1>1 DEF ResponseSound, SpanSound
  <2>2. QED BY <1>1, <2>1 DEF SpanSound
<1>11. QED BY <1>7, <1>8, <1>9, <1>10 DEF ResponseSound

(* The span is made of what the recorder has. *)
LEMMA ResponseSubmit ==
  ASSUME ResponseSound, Submit
  PROVE  ResponseSound'
<1>1. /\ handler = "submit" /\ handler' = "end"
      /\ span' = IF isConnectRequest(request) THEN submitConnectSpan ELSE submitHTTPSpan
      /\ UNCHANGED <<request, response, relayed, clientGot, buffered, rec, clientEnd,
                     reqBody, ids>>
  BY DEF Submit, clientVars, contextVars, captureVars, upstreamVars, relayVars, outVars
<1>2. /\ Items' = Items /\ Total' = Total /\ Out' = Out
      /\ Take(Items, relayed)' = Take(Items, relayed)
  BY <1>1 DEF Items, Total, Take, Out
<1>3. OutTypes'
  BY <1>1 DEF ResponseSound, OutTypes, Parts, Items, Total
<1>4. OutSound'
  <2>1. (Whole \/ Failed) /\ clientEnd # "complete"
    BY <1>1 DEF ResponseSound, OutSound, After
  <2>2. Whole' \/ Failed'
    BY <1>1, <1>2, <2>1 DEF Whole, Failed
  <2>3. QED BY <1>1, <2>1, <2>2 DEF OutSound, After
<1>5. RecSound'
  BY <1>1, <1>2 DEF ResponseSound, RecSound, After
<1>6. SpanSound'
  <2>1. /\ submitConnectSpan' = submitConnectSpan /\ submitHTTPSpan' = submitHTTPSpan
        /\ isConnectRequest(request)' = isConnectRequest(request)
    BY <1>1 DEF submitConnectSpan, submitHTTPSpan, parseConnectError
  <2>2. QED BY <1>1, <2>1 DEF SpanSound
<1>7. QED BY <1>3, <1>4, <1>5, <1>6 DEF ResponseSound

(* net/http flushes the rest when ServeHTTP returns. *)
LEMMA ResponseEnd ==
  ASSUME ResponseSound, End
  PROVE  ResponseSound'
<1>1. /\ handler = "end" /\ handler' = "done"
      /\ clientGot' = clientGot \o buffered /\ buffered' = <<>>
      /\ UNCHANGED <<request, response, relayed, rec, span, reqBody, ids>>
  BY DEF End, clientVars, captureVars, upstreamVars
<1>2. Out' = Out /\ clientGot' \in Seq(Parts') /\ buffered' \in Seq(Parts')
  BY <1>1, FlushKeepsOut DEF ResponseSound
<1>3. QED BY <1>1, <1>2, ResponseKept DEF After

(* The inductive invariant: the accounting of the request's bytes and of   *)
(* the parts of the response.                                              *)
HttpInv == BodySound /\ DrainSound /\ ResponseSound

(* All of it together. *)
LEMMA HttpStep == HttpInv /\ [Next]_vars => HttpInv'
<1> SUFFICES ASSUME HttpInv, [Next]_vars PROVE HttpInv'
  OBVIOUS
<1>1. BodySound /\ DrainSound /\ ResponseSound
  BY DEF HttpInv
<1>2. BodySound' /\ DrainSound'
  BY <1>1, BodyStep, DrainStep
<1>3. CASE \/ Start \/ ClientSends \/ ClientEnds \/ ClientLeaves \/ CaptureReads
           \/ CaptureEnds \/ Probe \/ Pump \/ TransportDrops \/ UpstreamSays \/ Drain
           \/ Panic \/ CloseDiscards \/ CloseEnds \/ UNCHANGED vars
  BY <1>1, <1>2, <1>3, ResponseOther DEF HttpInv
<1>4. CASE RelayItem \/ RelayEnds \/ BadGateway
  BY <1>1, <1>2, <1>4, ResponseRelayItem, ResponseRelayEnds, ResponseBadGateway DEF HttpInv
<1>5. CASE SendSteps \/ DrainEnds \/ Submit \/ End
  BY <1>1, <1>2, <1>5, ResponseSends, ResponseSubmit, ResponseEnd DEF HttpInv
<1>6. QED BY <1>3, <1>4, <1>5 DEF Next, HandlerStep, SendSteps

(* The invariant. *)
LEMMA HttpHolds == Spec => []HttpInv
<1>1. Init => HttpInv
  BY BodyInit, DrainInit, ResponseInit DEF HttpInv
<1>2. QED BY <1>1, HttpStep, PTL DEF Spec

-----------------------------------------------------------------------------
(* What follows. *)

(* The client gets a beginning of the response, or 502; the whole of it if *)
(* it ends properly.                                                       *)
LEMMA OutIntact == HttpInv => ResponseIntact
<1> SUFFICES ASSUME HttpInv PROVE ResponseIntact
  OBVIOUS
<1> DEFINE T == Take(Items, relayed)
<1>1. ResponseSound /\ OutTypes /\ response \in Responses
  BY DEF HttpInv, ResponseSound, OutTypes
<1>2. /\ T \in Seq(Parts) /\ Len(T) = relayed /\ relayed \in Nat /\ relayed <= Total
      /\ Items \in Seq(Parts) /\ Total = Len(Items) /\ Total \in Nat
      /\ Head_(502) \in Parts
  BY <1>1, RelayedFacts, ResponseShape DEF OutTypes
<1>3. PICK out : out = Out
  OBVIOUS
<1> DEFINE badGateway == /\ Len(out) > 0
                         /\ out = Append(Take(Items, Len(out) - 1), Head_(502))
                         /\ Heads(Take(Items, Len(out) - 1)) = {}
<1>4. SUFFICES /\ out = Take(Items, Len(out)) \/ badGateway
               /\ clientEnd = "complete" => badGateway \/ (out = Items /\ ~ response.dies)
  BY <1>3, Zenon DEF ResponseIntact, Out, Items
<1>5. CASE handler \notin After
  <2>1. out = T /\ clientEnd # "complete"
    BY <1>1, <1>3, <1>5 DEF ResponseSound, OutSound, After
  <2>2. Len(out) = relayed
    BY <1>2, <2>1
  <2>3. QED BY <2>1, <2>2
<1>6. CASE Whole
  <2>1. out = T /\ relayed = Total /\ ~ response.dies
    BY <1>3, <1>6 DEF Whole
  <2>2. Len(out) = relayed
    BY <1>2, <2>1
  <2>3. T = Items
    BY <1>2, <2>1, TakeIs
  <2>4. QED BY <2>1, <2>2, <2>3
<1>7. CASE Failed
  <2>1. Heads(T) = {} /\ out = Append(T, Head_(502))
    BY <1>3, <1>7 DEF Failed
  <2> DEFINE P == Parts
  <2>2. Len(out) = relayed + 1
    <3>1. T \in Seq(P) /\ Head_(502) \in P
      BY <1>2
    <3> HIDE DEF P, T
    <3>2. QED BY <1>2, <2>1, <3>1
  <2>3. Len(out) > 0 /\ Len(out) - 1 = relayed
    BY <1>2, <2>2
  <2>4. badGateway
    BY <2>1, <2>3
  <2>5. QED BY <2>4
<1>8. QED BY <1>1, <1>5, <1>6, <1>7 DEF ResponseSound, OutSound

(* For every body and every limit: the upstream gets the client's bytes,   *)
(* in order, each once, beginning with those captured, with a true length  *)
(* and whole if it sees their end, unless net/http has thrown some away,   *)
(* which an early answer alone can bring about; the client gets the        *)
(* response in order, or 502 in place of its header, and one that ends     *)
(* properly is whole (captureBody, responseRecorder).                      *)
THEOREM AlwaysPassesIntact == Spec => []PassesIntact
<1>1. HttpInv => PassesIntact
  BY OutIntact, BodyIntact DEF HttpInv, PassesIntact
<1>2. QED BY <1>1, HttpHolds, PTL

-----------------------------------------------------------------------------
(* The span. *)

(* Before the first final header there are only informational ones, after  *)
(* it only the body.                                                       *)
LEMMA HeaderFirst ==
  ASSUME response \in Responses, NEW n \in 0 .. Total,
         \A i \in 1 .. n : Items[i].type # "info"
  PROVE  /\ n > 0 => /\ Items[1].type = "head" /\ Items[1] = Head_(Items[1].code)
         /\ \A i \in 2 .. n : Items[i].type = "chunk"
<1>1. Total \in Nat
  BY ResponseShape
<1>2. ASSUME n > 0 PROVE Items[1].type = "head" /\ Items[1] = Head_(Items[1].code)
  <2>1. 1 \in 1 .. n /\ 1 \in 1 .. Total
    BY <1>1, <1>2
  <2>2. Items[1].type # "chunk"
    <3>1. ~ \E j \in 1 .. 1 - 1 : Items[j].type = "head"
      OBVIOUS
    <3>2. QED BY <2>1, <3>1, ResponseShape DEF Head_
  <2>3. QED BY <2>1, <2>2, ResponseShape DEF Head_
<1>3. ASSUME NEW i \in 2 .. n PROVE Items[i].type = "chunk"
  <2>1. i \in 1 .. Total /\ 1 \in 1 .. i - 1 /\ 1 \in 1 .. n
    BY <1>1
  <2>2. Items[1].type # "info"
    BY <2>1
  <2>3. QED BY <2>1, <2>2, ResponseShape
<1>4. QED BY <1>2, <1>3

(* After ReverseProxy the client has been given one final header, of the   *)
(* recorded status, unless an informational one was recorded first.        *)
LEMMA RecordedStatus ==
  ASSUME HttpInv, handler \in After, ~ Informed
  PROVE  /\ OnlyHead(Out, rec.statusCode)
         /\ Failed => rec.statusCode = 502
<1> DEFINE T == Take(Items, relayed)
<1>1. ResponseSound /\ OutTypes /\ response \in Responses
  BY DEF HttpInv, ResponseSound, OutTypes
<1>2. /\ T \in Seq(Parts) /\ Len(T) = relayed /\ relayed \in Nat /\ relayed \in 0 .. Total
      /\ Items \in Seq(Parts) /\ Total = Len(Items) /\ Total \in Nat
      /\ Head_(502) \in Parts
      /\ \A i \in 1 .. relayed : T[i] = Items[i]
  BY <1>1, RelayedFacts, ResponseShape DEF OutTypes
<1>3. \A i \in 1 .. relayed : Items[i].type # "info"
  BY DEF Informed, Items
<1>4. /\ relayed > 0 => /\ Items[1].type = "head" /\ Items[1] = Head_(Items[1].code)
      /\ \A i \in 2 .. relayed : Items[i].type = "chunk"
  BY <1>1, <1>2, <1>3, HeaderFirst
<1>5. ASSUME Whole PROVE OnlyHead(Out, rec.statusCode)
  <2>1. Out = T /\ relayed = Total /\ ~ response.dies
    BY <1>5 DEF Whole
  <2>2. relayed > 0
    <3>1. \E i \in 1 .. Total : Items[i].type = "head"
      BY <1>1, <2>1, ResponseShape
    <3>2. QED BY <1>2, <2>1, <3>1
  <2>3. rec.statusCode = Items[1].code
    BY <1>1, <2>2 DEF ResponseSound, RecSound
  <2>4. DOMAIN T = 1 .. relayed /\ 1 \in 1 .. relayed
    BY <1>2, <2>2
  <2>5. Heads(T) = {1}
    <3>1. \A i \in 1 .. relayed : T[i].type = "head" <=> i = 1
      <4> SUFFICES ASSUME NEW i \in 1 .. relayed PROVE T[i].type = "head" <=> i = 1
        OBVIOUS
      <4>1. CASE i = 1
        BY <1>2, <1>4, <2>2, <4>1
      <4>2. CASE i # 1
        <5>1. i \in 2 .. relayed
          BY <1>2, <4>2
        <5>2. T[i].type = "chunk"
          BY <1>2, <1>4, <5>1
        <5>3. QED BY <4>2, <5>2
      <4>3. QED BY <4>1, <4>2
    <3> HIDE DEF T
    <3>2. QED BY <2>4, <3>1 DEF Heads
  <2>6. T[1] = Head_(rec.statusCode)
    BY <1>2, <1>4, <2>2, <2>3, <2>4
  <2> HIDE DEF T
  <2>7. QED BY <2>1, <2>4, <2>5, <2>6 DEF OnlyHead
<1>6. ASSUME Failed PROVE rec.statusCode = 502 /\ OnlyHead(Out, rec.statusCode)
  <2>1. Heads(T) = {} /\ Out = Append(T, Head_(502))
    BY <1>6 DEF Failed
  <2>2. relayed = 0
    <3>1. SUFFICES ASSUME relayed # 0 PROVE FALSE
      OBVIOUS
    <3>2. 1 \in DOMAIN T /\ T[1].type = "head"
      BY <1>2, <1>4, <3>1
    <3>3. QED BY <2>1, <3>2 DEF Heads
  <2>3. rec.statusCode = 502
    BY <1>1, <2>2 DEF ResponseSound, RecSound
  <2>4. T = <<>>
    BY <1>2, <2>2
  <2>5. Out = <<Head_(502)>>
    BY <2>1, <2>4
  <2>6. Heads(Out) = {1} /\ 1 \in DOMAIN Out /\ Out[1] = Head_(502)
    BY <2>5 DEF Heads, Head_
  <2>7. QED BY <2>3, <2>6 DEF OnlyHead
<1>7. Whole \/ Failed
  BY <1>1 DEF ResponseSound, OutSound
<1>8. QED BY <1>5, <1>6, <1>7

(* The fields of the span, of either kind. *)
LEMMA SpanFields ==
  ASSUME HttpInv, span # NoSpan
  PROVE  /\ handler \in After
         /\ span.request = reqBody /\ span.response = rec.body
         /\ span.status = rec.statusCode /\ span.failed = (rec.statusCode >= 400)
         /\ isConnectRequest(request)
              => span.error = (rec.statusCode >= 400 /\ parseConnectError(rec.body))
<1>1. /\ handler \in {"end", "done"}
      /\ span = IF isConnectRequest(request) THEN submitConnectSpan ELSE submitHTTPSpan
  BY DEF HttpInv, ResponseSound, SpanSound
<1>2. CASE isConnectRequest(request)
  <2>1. span = submitConnectSpan
    BY <1>1, <1>2
  <2>2. QED BY <1>1, <2>1 DEF submitConnectSpan, After
<1>3. CASE ~ isConnectRequest(request)
  <2>1. span = submitHTTPSpan
    BY <1>1, <1>3
  <2>2. QED BY <1>1, <1>3, <2>1 DEF submitHTTPSpan, After
<1>4. QED BY <1>2, <1>3

(* The bytes of what the client was given are those of what was relayed. *)
LEMMA BodyOfOut ==
  ASSUME HttpInv
  PROVE  BodyOf(Out) = BodyOf(Take(Items, relayed))
<1> DEFINE T == Take(Items, relayed)
<1>1. ResponseSound /\ OutTypes /\ response \in Responses
  BY DEF HttpInv, ResponseSound, OutTypes
<1>2. T \in Seq(Parts) /\ Head_(502) \in Parts /\ BodyOf(T) \in Seq(Nat)
  BY <1>1, RelayedFacts
<1>3. Out = T \/ Out = Append(T, Head_(502))
  BY <1>1 DEF ResponseSound, OutSound, Whole, Failed
<1>4. BodyOf(Append(T, Head_(502))) = BodyOf(T)
  <2> DEFINE P == Parts
             x == Head_(502)
  <2>1. T \in Seq(P) /\ x \in P /\ \A p \in P : Payload(p) \in Seq(Nat)
    BY <1>1, <1>2, PartPayload
  <2>2. Payload(x) = <<>>
    BY DEF Payload, Head_
  <2> HIDE DEF P, x, T
  <2>3. BodyOf(Append(T, x)) = BodyOf(T) \o Payload(x)
    BY <2>1, BodyOfAppend
  <2>4. BodyOf(T) \o <<>> = BodyOf(T)
    BY <1>2
  <2>5. BodyOf(Append(T, x)) = BodyOf(T)
    BY <2>2, <2>3, <2>4
  <2>6. QED BY <2>5 DEF x
<1>5. QED BY <1>3, <1>4

(* The bodies in the span are beginnings of the bodies. *)
LEMMA CaptureTrue == HttpInv => CapturedIsPrefix
<1> SUFFICES ASSUME HttpInv, span # NoSpan
             PROVE  /\ span.request = Bytes(Len(span.request))
                    /\ span.request = Take(Bytes(sent), MaxBodySize) \/ cutShort \/ body = "open"
                    /\ span.response = Take(BodyOf(clientGot \o buffered), MaxBodySize)
  BY DEF CapturedIsPrefix
<1>1. /\ handler \in After /\ span.request = reqBody /\ span.response = rec.body
  BY SpanFields
<1>2. BodySound /\ BodyTypes /\ handler \notin {"start", "capture"}
  BY <1>1 DEF HttpInv, BodySound, After
<1>3. reqBody = Bytes(Len(reqBody))
  BY <1>2, RunIsBytes DEF BodyTypes
<1>4. rec.body = Take(BodyOf(Out), MaxBodySize)
  BY BodyOfOut DEF HttpInv, ResponseSound, RecSound
<1>5. Bytes(sent) \in Seq(Nat) /\ Len(Bytes(sent)) = sent /\ sent \in Nat /\ MaxBodySize \in Nat
  BY <1>2, BodyFacts DEF Bytes
<1>6. CASE SendingWhole
  <2>1. cutShort \/ (body = "eof" /\ Len(reqBody) = sent)
    BY <1>6 DEF SendingWhole
  <2>2. ASSUME Len(reqBody) = sent PROVE reqBody = Take(Bytes(sent), MaxBodySize)
    <3>1. sent <= MaxBodySize
      BY <1>2, <2>2 DEF BodyTypes
    <3>2. Take(Bytes(sent), MaxBodySize) = Bytes(sent)
      BY <1>5, <3>1, TakeIs
    <3>3. QED BY <1>3, <2>2, <3>2
  <2>3. QED BY <1>1, <1>3, <1>4, <2>1, <2>2 DEF Out
<1>7. CASE SendingRest
  <2>1. Len(reqBody) = MaxBodySize /\ MaxBodySize <= sent
    BY <1>2, <1>5, <1>7, BodyFacts DEF SendingRest, Off
  <2>2. PICK t : t = Take(Bytes(sent), MaxBodySize)
    OBVIOUS
  <2>3. t \in Seq(Nat) /\ Len(t) = MaxBodySize /\ \A i \in 1 .. Len(t) : t[i] = Bytes(sent)[i]
    BY <1>5, <2>1, <2>2, TakeIs
  <2>4. \A i \in 1 .. MaxBodySize : t[i] = i
    <3>1. \A i \in 1 .. sent : Bytes(sent)[i] = i
      BY DEF Bytes
    <3>2. \A i \in 1 .. MaxBodySize : i \in 1 .. sent
      BY <1>5, <2>1
    <3>3. QED BY <2>3, <3>1, <3>2
  <2>5. t = Bytes(MaxBodySize)
    BY <1>5, <2>3, <2>4 DEF Bytes
  <2>6. QED BY <1>1, <1>3, <1>4, <2>1, <2>2, <2>5 DEF Out
<1>8. QED BY <1>2, <1>6, <1>7 DEF BodySound

(* The status in the span is that of the header the client got. *)
LEMMA StatusTrue == HttpInv => StatusRecorded
<1> SUFFICES ASSUME HttpInv, span # NoSpan, ~ Informed
             PROVE  /\ OnlyHead(clientGot \o buffered, span.status)
                    /\ span.failed = (span.status >= 400)
  BY DEF StatusRecorded
<1>1. handler \in After /\ span.status = rec.statusCode /\ span.failed = (rec.statusCode >= 400)
  BY SpanFields
<1>2. OnlyHead(Out, rec.statusCode)
  BY <1>1, RecordedStatus
<1>3. QED BY <1>1, <1>2 DEF Out

(* The Connect error is found when its body fits in the capture. *)
LEMMA ErrorTrue == HttpInv => ConnectErrorKept
<1> SUFFICES ASSUME HttpInv, span # NoSpan, isConnectRequest(request), ~ Informed,
                    OnlyHead(clientGot \o buffered, 500), response.json
             PROVE  span.error <=> Len(BodyOf(response.items)) \in 1 .. MaxBodySize
  BY DEF ConnectErrorKept
<1>1. /\ handler \in After
      /\ span.error = (rec.statusCode >= 400 /\ parseConnectError(rec.body))
  BY SpanFields
<1>2. rec.statusCode = 500 /\ ~ Failed
  <2>1. OnlyHead(Out, rec.statusCode) /\ (Failed => rec.statusCode = 502)
    BY <1>1, RecordedStatus
  <2>2. OnlyHead(Out, 500)
    BY DEF Out
  <2>3. rec.statusCode = 500
    BY <2>1, <2>2, SMTT(30) DEF OnlyHead, Head_
  <2>4. QED BY <2>1, <2>3
<1>3. Whole
  BY <1>1, <1>2 DEF HttpInv, ResponseSound, OutSound
<1>4. Take(Items, relayed) = Items
  <2>1. Items \in Seq(Parts) /\ Total = Len(Items) /\ Total \in Nat
    BY ResponseShape DEF HttpInv, ResponseSound, OutTypes
  <2>2. relayed = Total
    BY <1>3 DEF Whole
  <2>3. QED BY <2>1, <2>2, TakeIs
<1>5. PICK b : b = BodyOf(Items)
  OBVIOUS
<1>6. b \in Seq(Nat) /\ MaxBodySize \in Nat
  BY <1>4, <1>5, RelayedFacts DEF HttpInv, ResponseSound
<1>7. rec.body = Take(b, MaxBodySize)
  BY <1>4, <1>5 DEF HttpInv, ResponseSound, RecSound
<1>8. parseConnectError(rec.body) <=> (rec.body # <<>> /\ rec.body = b)
  BY <1>4, <1>5 DEF parseConnectError, Items
<1>9. (rec.body # <<>> /\ rec.body = b) <=> Len(b) \in 1 .. MaxBodySize
  <2>1. PICK t : t = Take(b, MaxBodySize)
    OBVIOUS
  <2>2. /\ t \in Seq(Nat)
        /\ MaxBodySize <= Len(b) => Len(t) = MaxBodySize
        /\ MaxBodySize >= Len(b) => t = b
    BY <1>6, <2>1, TakeIs
  <2>3. (t # <<>> /\ t = b) <=> Len(b) \in 1 .. MaxBodySize
    BY <1>6, <2>2
  <2>4. QED BY <1>7, <2>1, <2>3
<1>10. rec.statusCode >= 400
  BY <1>2
<1>11. parseConnectError(rec.body) <=> Len(b) \in 1 .. MaxBodySize
  BY <1>8, <1>9
<1>12. span.error <=> Len(b) \in 1 .. MaxBodySize
  BY <1>1, <1>10, <1>11, Zenon
<1>13. QED BY <1>5, <1>12, Zenon DEF Items

(* The span holds the first bytes of both bodies, the status the client    *)
(* sees, and the Connect error whenever it fits, for every limit and every *)
(* way the response is cut into writes (submitHTTPSpan, submitConnectSpan).*)
THEOREM SpanAlwaysTrue == Spec => []SpanIsTrue
<1>1. HttpInv => SpanIsTrue
  BY CaptureTrue, StatusTrue, ErrorTrue DEF SpanIsTrue
<1>2. QED BY <1>1, HttpHolds, PTL
=============================================================================
