--------------------------- MODULE LiveViewProofs ---------------------------
(***************************************************************************)
(* Theorems about LiveView, for any number of pages, traces and spans and  *)
(* any capacities of the channels and the ring.                            *)
(*                                                                         *)
(* The live view only uses the store, so what is proved of the store holds *)
(* in it (LiveUsesStore).  What a page gets to see of a trace is a reading *)
(* of the store, whole when it was made.  A reading that announces span n  *)
(* was made when n had been submitted, so it holds every span up to n that *)
(* the store still holds (Fresh): if the trace has been evicted since, the *)
(* store holds none of them.  As the hub announces spans in their order    *)
(* (Ordered), a later message never takes back what an earlier one has     *)
(* shown, and a span that reached a page is shown or waits in its channel  *)
(* (Arrivals).                                                             *)
(***************************************************************************)
EXTENDS LiveView, TraceStoreProofs

Nums(spans) == {spans[i].n : i \in DOMAIN spans}
OfTrace(id) == {n \in DOMAIN added : added[n].trace = id}

(* N is all that H has between two numbers of N. *)
Gapless(N, H) ==
  /\ N # {} /\ N \subseteq H
  /\ \A a, b \in N : \A n \in H : a <= n /\ n <= b => n \in N

Reading(id, spans) == Gapless(Nums(spans), OfTrace(id))

(* The store holds of a trace what was submitted from some span on. *)
Holds(id) ==
  /\ Stored(id) # {} /\ Stored(id) \subseteq OfTrace(id)
  /\ \A a \in Stored(id), n \in OfTrace(id) : a <= n => n \in Stored(id)

StoreHolds == \A id \in DOMAIN traces : Holds(id)

(* spans has all that the store holds of trace id up to span n. *)
Fresh(id, spans, n) ==
  id \in DOMAIN traces => \A s \in Stored(id) : s <= n => s \in Nums(spans)

(* The span the hub took from its channel last. *)
LastN == IF received[Hub] = <<>> THEN 0 ELSE received[Hub][Len(received[Hub])].n

(* What a trace message says, of a span the hub has taken. *)
Sound(m) ==
  /\ m.n \in OfTrace(m.trace) /\ m.n <= LastN
  /\ Reading(m.trace, m.spans) /\ Fresh(m.trace, m.spans, m.n)

(* The trace messages of a channel announce spans in their order. *)
Traces(st)  == {i \in DOMAIN st : st[i].type = "trace"}
Ordered(st) == \A i, j \in Traces(st) : i < j => st[i].n <= st[j].n

Messages == [type : {"span", "trace"}, trace : TraceIDs, n : Nat, spans : Seq(Span)]

LiveTypes ==
  /\ hub.pc \in {"off", "recv", "have", "lock", "locked", "stopped"}
  /\ hub = [pc |-> hub.pc, span |-> hub.span, snap |-> hub.snap]
  /\ clients \subseteq Pages
  /\ stream \in [Pages -> Seq(Messages)]
  /\ reached \in [Pages -> SUBSET Nat]
  /\ DOMAIN list = Pages /\ DOMAIN fetch = Pages
  /\ \A p \in Pages : p \notin clients => stream[p] = <<>>
  /\ hub.pc = "off" => \A p \in Pages : stream[p] = <<>> /\ reached[p] = {}

HubSound ==
  /\ hub.pc \in {"have", "lock", "locked"} =>
       hub.span \in Span /\ hub.span.n = LastN /\ LastN \in OfTrace(hub.span.trace)
  /\ hub.pc \in {"lock", "locked"} =>
       /\ hub.snap \in Seq(Span)
       /\ Reading(hub.span.trace, hub.snap) /\ Fresh(hub.span.trace, hub.snap, LastN)

StreamsSound ==
  \A p \in Pages : Ordered(stream[p]) /\ \A i \in Traces(stream[p]) : Sound(stream[p][i])

ListsSound ==
  \A p \in Pages :
    /\ \A id \in DOMAIN list[p] : Reading(id, list[p][id])
    /\ \A id \in DOMAIN fetch[p].reply : Reading(id, fetch[p].reply[id])

(* Span n has arrived on page p and, if the store still holds it, is shown.*)
Arrived(p, n) ==
  /\ \A i \in Traces(stream[p]) : n <= stream[p][i].n
  /\ \A id \in DOMAIN traces :
       n \in Stored(id) => id \in DOMAIN list[p] /\ n \in Nums(list[p][id])

Arrivals ==
  \A p \in Pages : \A n \in reached[p] : n <= LastN /\ (n \in Waiting(p) \/ Arrived(p, n))

LiveInv == StoreHolds /\ LiveTypes /\ HubSound /\ StreamsSound /\ ListsSound /\ Arrivals

-----------------------------------------------------------------------------
(* The store below the live view. *)

(* Every step of the live view is a step of the store or leaves it alone.  *)
LEMMA LiveStep == [LiveNext]_liveVars => [Next]_vars
<1> SUFFICES ASSUME [LiveNext]_liveVars PROVE [Next]_vars
  OBVIOUS
<1>1. CASE Submit
  BY <1>1 DEF Next
<1>2. CASE HubStart
  BY <1>2, HubAssumption DEF HubStart, Next
<1>3. CASE HubReceive
  BY <1>3, HubAssumption DEF HubReceive, Next
<1>4. CASE HubStop
  BY <1>4, HubAssumption DEF HubStop, Next
<1>5. CASE HubGetTrace \/ HubSendSpan \/ HubSendTrace
  BY <1>5 DEF HubGetTrace, HubSendSpan, HubSendTrace, storeVars
<1>6. ASSUME NEW p \in Pages,
             \/ Connect(p) \/ Disconnect(p) \/ Handle(p)
             \/ AnswerList(p) \/ ListArrives(p) \/ ListFails(p)
      PROVE  UNCHANGED vars
  BY <1>6 DEF Connect, Disconnect, Handle, AnswerList, ListArrives, ListFails, storeVars
<1>7. CASE UNCHANGED liveVars
  BY <1>7 DEF liveVars, storeVars
<1>8. QED BY <1>1, <1>2, <1>3, <1>4, <1>5, <1>6, <1>7 DEF LiveNext, HubStep

(* Whatever the store promises, it promises to the live view: the hub and  *)
(* the pages do nothing to it but what its interface offers.               *)
THEOREM LiveUsesStore == LiveSpec => Spec
<1>1. LiveInit => Init
  BY DEF LiveInit
<1>2. QED BY <1>1, LiveStep, PTL DEF LiveSpec, Spec

(* A submission adds its number to what the store holds of its trace, and  *)
(* to nothing else that the store holds.                                   *)
LEMMA SubmitHolds ==
  ASSUME Inv, StoreHolds, NEW span \in Span, Add(span), span.n = Len(added) + 1
  PROVE  /\ StoreHolds'
         /\ \A id \in DOMAIN traces' : \A n \in Stored(id)' :
              n <= Len(added) => id \in DOMAIN traces /\ n \in Stored(id)
         /\ \A id : OfTrace(id) \subseteq OfTrace(id)'
         /\ \A id : \A n \in OfTrace(id)' : n \in OfTrace(id) \/ n = Len(added) + 1
         /\ \A id : \A n \in OfTrace(id) : n \in Nat /\ n <= Len(added)
<1> DEFINE t == span.trace
           L == Len(added) + 1
<1>1. /\ added \in Seq(Span) /\ added' = Append(added, span) /\ Len(added) \in Nat
      /\ t \in TraceIDs
  BY SpanNumbers DEF Inv, TypeOK, Add
<1>2. /\ DOMAIN added = 1 .. L - 1 /\ DOMAIN added' = 1 .. L /\ added'[L] = span
      /\ \A n \in 1 .. L - 1 : added'[n] = added[n]
  BY <1>1
<1>3. /\ \A id : OfTrace(id) \subseteq OfTrace(id)'
      /\ \A id : \A n \in OfTrace(id)' : n \in OfTrace(id) \/ (n = L /\ id = t)
      /\ \A id : \A n \in OfTrace(id) : n \in Nat /\ n <= Len(added)
      /\ L \in OfTrace(t)'
  BY <1>1, <1>2 DEF OfTrace
<1>4. /\ \A id \in DOMAIN traces : traces[id] \in Trace
      /\ \A id \in DOMAIN traces : Holds(id)
  BY DEF Inv, TypeOK, StoreHolds
<1>5. /\ t \in DOMAIN traces'
      /\ \A id \in DOMAIN traces' : id # t => id \in DOMAIN traces /\ traces'[id] = traces[id]
      /\ \A n \in Stored(t)' : n = L \/ (t \in DOMAIN traces /\ n \in Stored(t))
      /\ t \in DOMAIN traces => \A n \in Stored(t) : n \in Stored(t)'
      /\ L \in Stored(t)'
  <2>1. CASE AddToKnown(span)
    <3>1. /\ t \in DOMAIN traces /\ DOMAIN traces' = DOMAIN traces
          /\ \A id \in DOMAIN traces : id # t => traces'[id] = traces[id]
          /\ traces'[t] = updateTraceTiming(t, Append(traces[t].spans, span))
      BY <2>1, <1>1 DEF AddToKnown, Inv, TypeOK
    <3>2. traces'[t].spans = Append(traces[t].spans, span)
      BY <3>1 DEF updateTraceTiming
    <3>3. PICK old \in Seq(Span) : old = traces[t].spans
      BY <1>4, <3>1 DEF Trace
    <3>4. Stored(t)' = {Append(old, span)[i].n : i \in DOMAIN Append(old, span)}
      BY <3>2, <3>3 DEF Stored
    <3>5. Stored(t) = {old[i].n : i \in DOMAIN old}
      BY <3>3 DEF Stored
    <3>6. PICK new : new = Append(old, span)
      OBVIOUS
    <3>12. /\ Len(new) = Len(old) + 1 /\ Len(old) \in Nat
           /\ DOMAIN new = 1 .. Len(old) + 1 /\ DOMAIN old = 1 .. Len(old)
           /\ new[Len(old) + 1] = span
           /\ \A i \in 1 .. Len(old) : new[i] = old[i]
      BY <3>6
    <3>7. Stored(t)' = {new[i].n : i \in DOMAIN new}
      BY <3>4, <3>6, Zenon
    <3>8. \A n \in Stored(t)' : n = L \/ n \in Stored(t)
      BY <3>5, <3>7, <3>12
    <3>9. \A n \in Stored(t) : n \in Stored(t)'
      BY <3>5, <3>7, <3>12
    <3>10. L \in Stored(t)'
      BY <3>7, <3>12
    <3> HIDE DEF t, L
    <3>11. QED BY <3>1, <3>8, <3>9, <3>10, Zenon
  <2>2. CASE AddNew(span)
    <3>1. /\ t \notin DOMAIN traces /\ t \in DOMAIN traces'
          /\ \A id \in DOMAIN traces' : id # t => id \in DOMAIN traces /\ traces'[id] = traces[id]
          /\ traces'[t] = updateTraceTiming(t, <<span>>)
      BY <2>2 DEF AddNew
    <3>2. traces'[t].spans = <<span>>
      BY <3>1 DEF updateTraceTiming
    <3>3. Stored(t)' = {<<span>>[i].n : i \in DOMAIN <<span>>}
      BY <3>2 DEF Stored
    <3>4. Stored(t)' = {L}
      BY <3>3
    <3> HIDE DEF t, L
    <3>5. QED BY <3>1, <3>4, Zenon
  <2>3. QED BY <2>1, <2>2 DEF Add
<1> HIDE DEF t, L
<1>6. \A id \in DOMAIN traces' : id # t => Stored(id)' = Stored(id)
  BY <1>5 DEF Stored
<1>7. L \in Nat /\ \A n \in Nat : n <= Len(added) => n < L
  BY <1>1 DEF L
<1>8. ASSUME NEW id \in DOMAIN traces' PROVE Holds(id)'
  <2>1. CASE id # t
    <3>1. Holds(id) /\ Stored(id)' = Stored(id)
      BY <1>4, <1>5, <1>6, <2>1
    <3>2. OfTrace(id)' = OfTrace(id)
      <4>1. \A n \in OfTrace(id)' : n \in OfTrace(id)
        BY <1>3, <2>1
      <4>2. \A n \in OfTrace(id) : n \in OfTrace(id)'
        BY <1>3
      <4>3. QED BY <4>1, <4>2, Zenon
    <3>3. QED BY <3>1, <3>2 DEF Holds
  <2>2. CASE id = t
    <3>1. \A n \in Stored(t)' : n \in OfTrace(t)'
      BY <1>3, <1>4, <1>5 DEF Holds
    <3>2. ASSUME NEW a \in Stored(t)', NEW n \in OfTrace(t)', a <= n
          PROVE  n \in Stored(t)'
      <4>1. CASE n = L
        BY <1>5, <4>1
      <4>2. CASE n # L
        <5>1. n \in OfTrace(t) /\ n \in Nat /\ n < L
          BY <1>3, <1>7, <4>2
        <5>2. a # L
          BY <1>7, <3>2, <5>1
        <5>3. t \in DOMAIN traces /\ a \in Stored(t)
          BY <1>5, <5>2
        <5>4. QED BY <1>4, <1>5, <3>2, <5>1, <5>3 DEF Holds
      <4>3. QED BY <4>1, <4>2
    <3>3. QED BY <1>5, <2>2, <3>1, <3>2 DEF Holds
  <2>3. QED BY <2>1, <2>2
<1>9. ASSUME NEW id \in DOMAIN traces', NEW n \in Stored(id)', n <= Len(added)
      PROVE  id \in DOMAIN traces /\ n \in Stored(id)
  <2>1. n # L
    BY <1>1, <1>9 DEF L
  <2>2. QED BY <1>5, <1>6, <2>1
<1>10. QED BY <1>3, <1>8, <1>9 DEF StoreHolds, L

(* The hub takes its spans from the store in the order of their numbers,   *)
(* so far up to LastN.                                                     *)
LEMMA LastBound ==
  ASSUME Inv, DeliveryInv
  PROVE  LastN \in Nat /\ LastN <= Len(added)
<1>1. CASE received[Hub] = <<>>
  BY <1>1 DEF LastN, Inv, TypeOK
<1>2. CASE received[Hub] # <<>>
  <2>1. PICK st \in Seq(Span) : st = Stream(Hub)
    BY HubAssumption, StreamType DEF Inv
  <2>2. PICK rec \in Seq(Span) : rec = received[Hub]
    BY HubAssumption DEF Inv, TypeOK
  <2>3. PICK ch \in Seq(Span) : ch = channel[Hub]
    BY HubAssumption DEF Inv, TypeOK
  <2>4. st = rec \o ch
    BY <2>1, <2>2, <2>3, Zenon DEF Stream
  <2>5. Len(rec) \in DOMAIN rec /\ Len(rec) \in DOMAIN st /\ st[Len(rec)] = rec[Len(rec)]
    BY <1>2, <2>2, <2>4
  <2>6. LastN = st[Len(rec)].n
    BY <1>2, <2>2, <2>5 DEF LastN
  <2>7. /\ Horizon(Hub) <= Len(added) /\ Horizon(Hub) \in Nat /\ since[Hub] \in Nat
        /\ \A i \in DOMAIN st : st[i].n \in since[Hub] + 1 .. Horizon(Hub)
    BY <2>1, HubAssumption, StreamType, Zenon DEF DeliveryInv, Delivered, InHistory, Inv
  <2>8. QED BY <2>5, <2>6, <2>7, StreamType, HubAssumption DEF Inv
<1>3. QED BY <1>1, <1>2

(* The next span the hub takes was submitted, and after the last.          *)
LEMMA NextTaken ==
  ASSUME Inv, DeliveryInv, channel[Hub] # <<>>
  PROVE  /\ Head(channel[Hub]) \in Span
         /\ Head(channel[Hub]).n \in OfTrace(Head(channel[Hub]).trace)
         /\ LastN <= Head(channel[Hub]).n
<1>1. PICK st \in Seq(Span) : st = Stream(Hub)
  BY HubAssumption, StreamType DEF Inv
<1>2. PICK rec \in Seq(Span) : rec = received[Hub]
  BY HubAssumption DEF Inv, TypeOK
<1>3. PICK ch \in Seq(Span) : ch = channel[Hub]
  BY HubAssumption DEF Inv, TypeOK
<1>4. st = rec \o ch
  BY <1>1, <1>2, <1>3, Zenon DEF Stream
<1>5. PICK span \in Span : span = Head(ch)
  BY <1>3
<1>6. /\ Len(rec) \in Nat /\ Len(rec) + 1 \in DOMAIN st /\ st[Len(rec) + 1] = span
      /\ \A i \in 1 .. Len(rec) : i \in DOMAIN st /\ st[i] = rec[i]
  <2>1. ch # <<>> /\ Len(ch) \in Nat /\ Len(ch) # 0 /\ span = ch[1]
    BY <1>3, <1>5
  <2>2. /\ Len(st) = Len(rec) + Len(ch) /\ Len(rec) \in Nat /\ DOMAIN st = 1 .. Len(st)
        /\ \A i \in 1 .. Len(st) : st[i] = IF i <= Len(rec) THEN rec[i] ELSE ch[i - Len(rec)]
    BY <1>4
  <2>3. Len(rec) + 1 \in 1 .. Len(st) /\ ~ (Len(rec) + 1 <= Len(rec)) /\ (Len(rec) + 1) - Len(rec) = 1
    BY <2>1, <2>2
  <2>4. \A i \in 1 .. Len(rec) : i \in 1 .. Len(st) /\ i <= Len(rec)
    BY <2>1, <2>2
  <2>5. QED BY <2>1, <2>2, <2>3, <2>4
<1>7. /\ \A i \in DOMAIN st : st[i].n \in since[Hub] + 1 .. Horizon(Hub) /\ st[i] = added[st[i].n]
      /\ \A i, j \in DOMAIN st : i < j => st[i].n < st[j].n
      /\ Horizon(Hub) <= Len(added) /\ Horizon(Hub) \in Nat /\ since[Hub] \in Nat
      /\ added \in Seq(Span)
  BY <1>1, HubAssumption, StreamType, Zenon DEF DeliveryInv, Delivered, InHistory, Increasing, Inv
<1>8. span.n \in 1 .. Len(added) /\ added[span.n] = span
  <2>1. Len(added) \in Nat
    BY <1>7
  <2>2. span.n \in since[Hub] + 1 .. Horizon(Hub) /\ added[span.n] = span
    BY <1>6, <1>7
  <2>3. QED BY <1>7, <2>1, <2>2
<1>9. span.n \in OfTrace(span.trace)
  <2>1. DOMAIN added = 1 .. Len(added)
    BY <1>7
  <2>2. QED BY <1>8, <2>1, Zenon DEF OfTrace
<1>10. LastN <= span.n
  <2>1. CASE rec = <<>>
    BY <1>2, <1>7, <1>8, <2>1 DEF LastN
  <2>2. CASE rec # <<>>
    <3>1. Len(rec) \in DOMAIN st /\ st[Len(rec)] = rec[Len(rec)] /\ Len(rec) < Len(rec) + 1
      <4>1. Len(rec) \in 1 .. Len(rec) /\ Len(rec) < Len(rec) + 1
        BY <2>2
      <4>2. QED BY <1>6, <4>1
    <3>2. rec[Len(rec)].n < span.n
      BY <1>6, <1>7, <3>1
    <3>3. LastN = rec[Len(rec)].n
      BY <1>2, <2>2 DEF LastN
    <3>4. LastN \in Nat
      BY LastBound
    <3>5. QED BY <1>8, <3>2, <3>3, <3>4
  <2>3. QED BY <2>1, <2>2
<1>11. QED BY <1>3, <1>5, <1>9, <1>10

(* A reading of a trace stays one when spans are submitted.                *)
LEMMA GaplessMore ==
  ASSUME NEW N, NEW H, NEW K, NEW last \in Nat, Gapless(N, H), H \subseteq K,
         \A n \in K : n \in H \/ n = last + 1, \A n \in H : n \in Nat /\ n <= last
  PROVE  Gapless(N, K)
<1> SUFFICES ASSUME NEW a \in N, NEW b \in N, NEW n \in K, a <= n, n <= b PROVE n \in N
  BY DEF Gapless
<1>1. b \in Nat /\ b <= last
  BY DEF Gapless
<1>2. n # last + 1
  BY <1>1
<1>3. QED BY <1>2 DEF Gapless

-----------------------------------------------------------------------------
(* Steps of the live view. *)

(* A page shows, waits for and has been sent what it was before a span was *)
(* submitted; the store may hold less of that.                             *)
LEMMA LiveSubmit ==
  ASSUME LiveInv, Inv, DeliveryInv, Submit,
         UNCHANGED <<hub, clients, stream, list, fetch, reached>>
  PROVE  LiveInv'
<1>1. PICK span \in Span : Add(span) /\ span.n = Len(added) + 1
  <2>1. PICK id \in TraceIDs, start \in Starts, dur \in Durations :
          Add([trace |-> id, n |-> Len(added) + 1, start |-> start, dur |-> dur])
    BY DEF Submit
  <2>2. Len(added) \in Nat /\ Len(added) + 1 \in 1 .. MaxSpans
    BY MaxSpansAssumption DEF Submit, Inv, TypeOK
  <2>3. [trace |-> id, n |-> Len(added) + 1, start |-> start, dur |-> dur] \in Span
    BY <2>2 DEF Span
  <2>4. QED BY <2>1, <2>3
<1>2. /\ StoreHolds'
      /\ \A id \in DOMAIN traces' : \A n \in Stored(id)' :
           n <= Len(added) => id \in DOMAIN traces /\ n \in Stored(id)
      /\ \A id : OfTrace(id) \subseteq OfTrace(id)'
      /\ \A id : \A n \in OfTrace(id)' : n \in OfTrace(id) \/ n = Len(added) + 1
      /\ \A id : \A n \in OfTrace(id) : n \in Nat /\ n <= Len(added)
  BY <1>1, SubmitHolds DEF LiveInv
<1>3. LastN' = LastN /\ LastN \in Nat /\ LastN <= Len(added) /\ Len(added) \in Nat
  <2>1. received' = received
    BY <1>1 DEF Add, Notify
  <2>2. Len(added) \in Nat
    BY DEF Inv, TypeOK
  <2>3. QED BY <2>1, <2>2, LastBound DEF LastN
<1>4. \A id, spans : Reading(id, spans) => Reading(id, spans)'
  <2> SUFFICES ASSUME NEW id, NEW spans, Reading(id, spans) PROVE Reading(id, spans)'
    OBVIOUS
  <2>1. PICK N, H, K : N = Nums(spans) /\ H = OfTrace(id) /\ K = OfTrace(id)'
    OBVIOUS
  <2>2. Gapless(N, H)
    BY <2>1, Zenon DEF Reading
  <2>3. Gapless(N, K)
    BY <1>2, <1>3, <2>1, <2>2, GaplessMore
  <2>4. QED BY <2>1, <2>3, Zenon DEF Reading, Gapless, Nums
<1>5. \A id, spans : \A n : n \in Nat /\ n <= LastN /\ Fresh(id, spans, n) => Fresh(id, spans, n)'
  <2> SUFFICES ASSUME NEW id, NEW spans, NEW n \in Nat, n <= LastN, Fresh(id, spans, n),
                      id \in DOMAIN traces', NEW s \in Stored(id)', s <= n
               PROVE  s \in Nums(spans)
    BY DEF Fresh, Nums
  <2>1. s \in OfTrace(id)'
    BY <1>2 DEF StoreHolds, Holds
  <2>2. s \in Nat
    BY <1>2, <1>3, <2>1
  <2>3. s <= Len(added)
    BY <1>3, <2>2
  <2>4. QED BY <1>2, <2>3 DEF Fresh
<1>6. \A m : Sound(m) => Sound(m)'
  <2> SUFFICES ASSUME NEW m, Sound(m) PROVE Sound(m)'
    OBVIOUS
  <2>1. m.n \in Nat /\ m.n <= LastN
    BY <1>2 DEF Sound
  <2>2. QED BY <1>2, <1>3, <1>4, <1>5, <2>1 DEF Sound
<1>7. LiveTypes'
  BY DEF LiveInv, LiveTypes
<1>8. HubSound'
  BY <1>2, <1>3, <1>4, <1>5 DEF LiveInv, HubSound
<1>9. StreamsSound'
  BY <1>6 DEF LiveInv, StreamsSound, Ordered, Traces
<1>10. ListsSound'
  BY <1>4 DEF LiveInv, ListsSound
<1>11. Arrivals'
  <2> SUFFICES ASSUME NEW p \in Pages, NEW n \in reached[p]
               PROVE  n <= LastN /\ (Waiting(p)' = Waiting(p)) /\ (Arrived(p, n) => Arrived(p, n)')
    BY <1>3 DEF LiveInv, Arrivals
  <2>1. n <= LastN /\ n \in Nat
    BY DEF LiveInv, Arrivals, LiveTypes
  <2>2. n <= Len(added)
    BY <1>3, <2>1
  <2>3. Waiting(p)' = Waiting(p)
    BY DEF Waiting
  <2>4. ASSUME Arrived(p, n) PROVE Arrived(p, n)'
    <3>1. \A id \in DOMAIN traces' : n \in Stored(id)' => id \in DOMAIN traces /\ n \in Stored(id)
      BY <1>2, <2>2
    <3>2. QED BY <2>4, <3>1 DEF Arrived, Nums, Traces
  <2>5. QED BY <2>1, <2>3, <2>4
<1>12. QED BY <1>2, <1>7, <1>8, <1>9, <1>10, <1>11 DEF LiveInv

(* What is known of a message or a reading depends on the history and the  *)
(* traces alone, and stays known when the hub takes a span.                *)
LEMMA StillKnown ==
  ASSUME added \in Seq(Span), LastN \in Nat, LastN' \in Nat, LastN <= LastN',
         UNCHANGED <<traces, added>>
  PROVE  /\ \A id : Stored(id)' = Stored(id) /\ OfTrace(id)' = OfTrace(id)
         /\ \A id, spans : Reading(id, spans) => Reading(id, spans)'
         /\ \A id, spans, n : Fresh(id, spans, n) => Fresh(id, spans, n)'
         /\ \A m : Sound(m) => Sound(m)' /\ m.n \in Nat
         /\ StoreHolds => StoreHolds'
<1>1. \A id : Stored(id)' = Stored(id) /\ OfTrace(id)' = OfTrace(id)
  BY DEF Stored, OfTrace
<1>2. \A id, spans : Reading(id, spans) => Reading(id, spans)'
  BY DEF Reading, Nums, OfTrace
<1>3. \A id, spans, n : Fresh(id, spans, n) => Fresh(id, spans, n)'
  BY DEF Fresh, Stored, Nums
<1>4. \A id : \A n \in OfTrace(id) : n \in Nat
  BY DEF OfTrace
<1>5. \A m : Sound(m) => Sound(m)' /\ m.n \in Nat
  <2> SUFFICES ASSUME NEW m, Sound(m) PROVE Sound(m)' /\ m.n \in Nat
    OBVIOUS
  <2>1. m.n \in OfTrace(m.trace) /\ m.n <= LastN /\ m.n \in Nat
    BY <1>4 DEF Sound
  <2>2. m.n \in OfTrace(m.trace)' /\ m.n <= LastN'
    BY <1>1, <2>1
  <2>3. Reading(m.trace, m.spans)' /\ Fresh(m.trace, m.spans, m.n)'
    BY <1>2, <1>3 DEF Sound
  <2>4. QED BY <2>1, <2>2, <2>3 DEF Sound
<1>6. StoreHolds => StoreHolds'
  <2>1. \A id : Holds(id) => Holds(id)'
    BY <1>1, Zenon DEF Holds
  <2>2. QED BY <2>1 DEF StoreHolds
<1>7. QED BY <1>1, <1>2, <1>3, <1>5, <1>6

(* A step that touches neither the store nor what the pages have.          *)
LEMMA PagesSame ==
  ASSUME LiveInv, added \in Seq(Span), LastN \in Nat, LastN' \in Nat, LastN <= LastN',
         UNCHANGED <<traces, added, stream, list, fetch, reached>>
  PROVE  StoreHolds' /\ StreamsSound' /\ ListsSound' /\ Arrivals'
<1>1. /\ \A id, spans : Reading(id, spans) => Reading(id, spans)'
      /\ \A m : Sound(m) => Sound(m)'
      /\ StoreHolds => StoreHolds'
      /\ \A id : Stored(id)' = Stored(id)
  BY StillKnown
<1>2. StreamsSound'
  BY <1>1 DEF LiveInv, StreamsSound, Ordered, Traces
<1>3. ListsSound'
  BY <1>1 DEF LiveInv, ListsSound
<1>4. Arrivals'
  <2> SUFFICES ASSUME NEW p \in Pages, NEW n \in reached[p]
               PROVE  (n <= LastN /\ (n \in Waiting(p) \/ Arrived(p, n)))'
    BY DEF Arrivals
  <2>1. n \in Nat /\ n <= LastN /\ (n \in Waiting(p) \/ Arrived(p, n))
    BY DEF LiveInv, Arrivals, LiveTypes
  <2>2. Waiting(p)' = Waiting(p)
    BY DEF Waiting
  <2>3. Arrived(p, n) => Arrived(p, n)'
    BY <1>1 DEF Arrived, Nums, Traces
  <2>4. n <= LastN'
    BY <2>1
  <2>5. QED BY <2>1, <2>2, <2>3, <2>4
<1>5. QED BY <1>1, <1>2, <1>3, <1>4 DEF LiveInv

(* The hub subscribes when no page is there yet. *)
LEMMA LiveHubStart ==
  ASSUME LiveInv, Inv, HubStart
  PROVE  LiveInv'
<1>1. /\ UNCHANGED <<traces, added, clients, stream, list, fetch, reached>>
      /\ hub' = Idle /\ hub.pc = "off"
  BY DEF HubStart, Subscribe, ringVars, pageVars
<1>2. \A p \in Pages : stream[p] = <<>> /\ reached[p] = {}
  BY <1>1 DEF LiveInv, LiveTypes
<1>3. LiveTypes' /\ HubSound'
  BY <1>1 DEF LiveInv, LiveTypes, HubSound, Idle
<1>4. StreamsSound' /\ Arrivals'
  BY <1>1, <1>2 DEF StreamsSound, Traces, Ordered, Arrivals
<1>5. StoreHolds' /\ ListsSound'
  <2>1. \A id : Holds(id) => Holds(id)'
    <3>1. \A id : Stored(id)' = Stored(id) /\ OfTrace(id)' = OfTrace(id)
      BY <1>1 DEF Stored, OfTrace
    <3>2. QED BY <3>1, Zenon DEF Holds
  <2>2. \A id, spans : Reading(id, spans) => Reading(id, spans)'
    BY <1>1 DEF Reading, Nums, OfTrace
  <2>3. StoreHolds'
    BY <1>1, <2>1 DEF LiveInv, StoreHolds
  <2>4. ListsSound'
    BY <1>1, <2>2 DEF LiveInv, ListsSound
  <2>5. QED BY <2>3, <2>4
<1>6. QED BY <1>3, <1>4, <1>5 DEF LiveInv

(* The hub takes the next span from its channel. *)
LEMMA LiveHubReceive ==
  ASSUME LiveInv, Inv, Inv', DeliveryInv, DeliveryInv', HubReceive
  PROVE  LiveInv'
<1>1. /\ UNCHANGED <<traces, added, clients, stream, list, fetch, reached>>
      /\ hub.pc = "recv" /\ hub' = [pc |-> "have", span |-> Head(channel[Hub]), snap |-> <<>>]
      /\ channel[Hub] # <<>>
      /\ received' = [received EXCEPT ![Hub] = Append(@, Head(channel[Hub]))]
  BY DEF HubReceive, Receive, ringVars, pageVars
<1>2. PICK span : span = Head(channel[Hub])
  OBVIOUS
<1>3. span \in Span /\ span.n \in OfTrace(span.trace) /\ LastN <= span.n
  BY <1>1, <1>2, NextTaken
<1>4. LastN' = span.n
  <2>1. PICK rec \in Seq(Span) : rec = received[Hub]
    BY HubAssumption DEF Inv, TypeOK
  <2>2. received'[Hub] = Append(rec, span)
    BY <1>1, <1>2, <2>1, HubAssumption DEF Inv, TypeOK
  <2>3. PICK new : new = Append(rec, span)
    OBVIOUS
  <2>4. new # <<>> /\ new[Len(new)] = span
    BY <1>3, <2>1, <2>3
  <2>5. QED BY <2>2, <2>3, <2>4 DEF LastN
<1>5. LastN \in Nat /\ LastN' \in Nat /\ LastN <= LastN' /\ added \in Seq(Span)
  <2>1. LastN \in Nat
    BY LastBound
  <2>2. span.n \in Nat
    BY <1>3, MaxSpansAssumption DEF Span
  <2>3. QED BY <1>3, <1>4, <2>1, <2>2 DEF Inv, TypeOK
<1>6. StoreHolds' /\ StreamsSound' /\ ListsSound' /\ Arrivals'
  BY <1>1, <1>5, PagesSame
<1>7. LiveTypes'
  BY <1>1 DEF LiveInv, LiveTypes
<1>8. HubSound'
  <2>1. OfTrace(span.trace)' = OfTrace(span.trace)
    BY <1>1 DEF OfTrace
  <2>2. hub'.pc = "have" /\ hub'.span = span
    BY <1>1, <1>2
  <2>3. QED BY <1>3, <1>4, <2>1, <2>2 DEF HubSound
<1>9. QED BY <1>6, <1>7, <1>8 DEF LiveInv

(* The hub reads the trace of its span, gives up, or ends. *)
LEMMA LiveHubRead ==
  ASSUME LiveInv, Inv, DeliveryInv, HubGetTrace \/ HubStop
  PROVE  LiveInv'
<1>1. /\ UNCHANGED <<traces, added, received, clients, stream, list, fetch, reached>>
      /\ hub.pc # "off"
  BY DEF HubGetTrace, HubStop, Unsubscribe, ringVars, pageVars, storeVars, vars, subVars
<1>2. LastN \in Nat /\ LastN' = LastN /\ added \in Seq(Span)
  BY <1>1, LastBound DEF LastN, Inv, TypeOK
<1>3. StoreHolds' /\ StreamsSound' /\ ListsSound' /\ Arrivals'
  <2>1. LastN' \in Nat /\ LastN <= LastN'
    BY <1>2
  <2>2. QED BY <1>1, <1>2, <2>1, PagesSame
<1>4. \/ hub'.pc \in {"recv", "stopped"}
      \/ /\ hub.pc = "have" /\ hub.span.trace \in DOMAIN traces
         /\ hub'.pc = "lock" /\ hub'.span = hub.span /\ hub'.snap = traces[hub.span.trace].spans
  <2>1. CASE HubStop
    BY <2>1 DEF HubStop, Idle
  <2>2. CASE HubGetTrace
    <3>1. GetTrace(hub.span.trace) # {} => hub.span.trace \in DOMAIN traces
      BY DEF GetTrace
    <3>2. CASE GetTrace(hub.span.trace) = {}
      BY <2>2, <3>2 DEF HubGetTrace, Idle
    <3>3. CASE GetTrace(hub.span.trace) # {}
      <4>1. hub' = [hub EXCEPT !.pc = "lock", !.snap = traces[hub.span.trace].spans]
        BY <2>2, <3>3 DEF HubGetTrace
      <4>2. hub = [pc |-> hub.pc, span |-> hub.span, snap |-> hub.snap]
        BY DEF LiveInv, LiveTypes
      <4>3. QED BY <2>2, <3>1, <3>3, <4>1, <4>2 DEF HubGetTrace
    <3>4. QED BY <3>2, <3>3
  <2>3. QED BY <2>1, <2>2
<1>5. LiveTypes'
  <2>1. hub' = [pc |-> hub'.pc, span |-> hub'.span, snap |-> hub'.snap]
    <3>1. Idle = [pc |-> Idle.pc, span |-> Idle.span, snap |-> Idle.snap]
      BY DEF Idle
    <3>2. hub = [pc |-> hub.pc, span |-> hub.span, snap |-> hub.snap]
      BY DEF LiveInv, LiveTypes
    <3>3. \/ hub' = Idle \/ hub' = [Idle EXCEPT !.pc = "stopped"]
          \/ hub' = [hub EXCEPT !.pc = "lock", !.snap = traces[hub.span.trace].spans]
      BY DEF HubGetTrace, HubStop
    <3>4. QED BY <3>1, <3>2, <3>3
  <2>2. QED BY <1>1, <1>4, <2>1 DEF LiveInv, LiveTypes
<1>6. HubSound'
  <2>1. CASE hub'.pc \in {"recv", "stopped"}
    BY <2>1 DEF HubSound
  <2>2. CASE ~ (hub'.pc \in {"recv", "stopped"})
    <3>1. PICK id, spans : id = hub.span.trace /\ spans = traces[id].spans
      OBVIOUS
    <3>2. /\ id \in DOMAIN traces /\ hub.pc = "have" /\ hub'.pc = "lock"
          /\ hub'.span = hub.span /\ hub'.snap = spans
      BY <1>4, <2>2, <3>1
    <3>3. spans \in Seq(Span) /\ Nums(spans) = Stored(id)
      BY <3>1, <3>2 DEF Inv, TypeOK, Trace, Nums, Stored
    <3>4. Holds(id)
      BY <3>2 DEF LiveInv, StoreHolds
    <3>5. Reading(id, spans)
      BY <3>3, <3>4 DEF Holds, Reading, Gapless
    <3>6. Fresh(id, spans, LastN)
      BY <3>3 DEF Fresh
    <3>7. /\ Reading(id, spans)' /\ Fresh(id, spans, LastN)' /\ OfTrace(id)' = OfTrace(id)
      <4>1. PICK n : n = LastN
        OBVIOUS
      <4>2. LastN' \in Nat /\ LastN <= LastN'
        BY <1>2
      <4>3. Fresh(id, spans, n) /\ n = LastN'
        BY <1>2, <3>6, <4>1
      <4>4. Fresh(id, spans, n)'
        BY <1>1, <1>2, <4>2, <4>3, StillKnown
      <4>5. QED BY <1>1, <1>2, <3>5, <4>2, <4>3, <4>4, StillKnown DEF Fresh
    <3>8. hub.span \in Span /\ hub.span.n = LastN /\ LastN \in OfTrace(id)
      BY <3>1, <3>2 DEF LiveInv, HubSound
    <3>9. QED BY <1>2, <3>1, <3>2, <3>3, <3>7, <3>8 DEF HubSound
  <2>3. QED BY <2>1, <2>2
<1>7. QED BY <1>3, <1>5, <1>6 DEF LiveInv

(* The trace messages of a channel that got one message more. *)
Longer(st, m, new) ==
  /\ \A i \in Traces(new) : (i \in Traces(st) /\ new[i] = st[i])
                         \/ (i = Len(st) + 1 /\ new[i] = m /\ m.type = "trace")
  /\ \A i \in Traces(st) : i \in Traces(new) /\ new[i] = st[i] /\ i < Len(st) + 1
  /\ \A i \in Traces(new) : i \in Nat /\ i <= Len(st) + 1
  /\ (m.type = "trace" => Len(st) + 1 \in Traces(new) /\ new[Len(st) + 1] = m)

(* Append makes a channel longer in this sense. *)
LEMMA AppendMessage ==
  ASSUME NEW st \in Seq(Messages), NEW m \in Messages
  PROVE  Longer(st, m, Append(st, m))
<1> SUFFICES ASSUME NEW new, new = Append(st, m) PROVE Longer(st, m, new)
  OBVIOUS
<1>1. /\ new \in Seq(Messages) /\ Len(st) \in Nat /\ DOMAIN st = 1 .. Len(st)
      /\ DOMAIN new = 1 .. Len(st) + 1 /\ new[Len(st) + 1] = m
      /\ \A i \in 1 .. Len(st) : new[i] = st[i]
  OBVIOUS
<1>2. \A i \in DOMAIN new : i \in DOMAIN st \/ i = Len(st) + 1
  BY <1>1
<1>3. QED BY <1>1, <1>2 DEF Traces, Longer

(* The hub sends its message to every page that has room for it.           *)
LEMMA LiveSend ==
  ASSUME LiveInv, Inv, DeliveryInv, HubSendSpan \/ HubSendTrace
  PROVE  LiveInv'
<1>1. /\ UNCHANGED <<traces, added, received, clients, list, fetch>>
      /\ hub.pc \in {"lock", "locked"}
  BY DEF HubSendSpan, HubSendTrace, pageVars, storeVars, vars, ringVars, subVars
<1>2. LastN \in Nat /\ LastN' = LastN /\ LastN' \in Nat /\ LastN <= LastN' /\ added \in Seq(Span)
  <2>1. LastN' = LastN
    BY <1>1 DEF LastN
  <2>2. QED BY <2>1, LastBound DEF Inv, TypeOK
<1>3. /\ \A id : Stored(id)' = Stored(id) /\ OfTrace(id)' = OfTrace(id)
      /\ \A id, spans : Reading(id, spans) => Reading(id, spans)'
      /\ \A id, spans, n : Fresh(id, spans, n) => Fresh(id, spans, n)'
      /\ \A m : Sound(m) => Sound(m)' /\ m.n \in Nat
      /\ StoreHolds'
  BY <1>1, <1>2, StillKnown DEF LiveInv
<1>4. /\ hub.span \in Span /\ hub.span.n = LastN /\ LastN \in OfTrace(hub.span.trace)
      /\ hub.snap \in Seq(Span)
      /\ Reading(hub.span.trace, hub.snap) /\ Fresh(hub.span.trace, hub.snap, LastN)
  BY <1>1 DEF LiveInv, HubSound
<1>5. PICK m \in Messages :
        /\ SendAll(m)
        /\ \/ /\ m.type = "span" /\ reached' = reached /\ hub' = [hub EXCEPT !.pc = "locked"]
           \/ /\ m.type = "trace" /\ m.n = LastN /\ Sound(m) /\ hub' = Idle
              /\ reached' = [p \in Pages |-> reached[p] \cup (IF HasRoom(p) THEN {LastN} ELSE {})]
  <2>1. hub.span.trace \in TraceIDs
    BY <1>4, SpanNumbers
  <2>2. CASE HubSendSpan
    <3>1. HubMessage("span") \in Messages /\ HubMessage("span").type = "span"
      BY <1>2, <1>4, <2>1 DEF HubMessage, Messages
    <3>2. QED BY <2>2, <3>1 DEF HubSendSpan
  <2>3. CASE HubSendTrace
    <3>1. PICK m : m = HubMessage("trace")
      OBVIOUS
    <3>2. /\ m.type = "trace" /\ m.n = LastN /\ m.trace = hub.span.trace /\ m.spans = hub.snap
          /\ m \in Messages
      BY <1>2, <1>4, <2>1, <3>1 DEF HubMessage, Messages
    <3>3. Sound(m)
      BY <1>2, <1>4, <3>2 DEF Sound
    <3>4. QED BY <1>4, <2>3, <3>1, <3>2, <3>3 DEF HubSendTrace
  <2>4. QED BY <2>2, <2>3
<1>6. ASSUME NEW p \in Pages
      PROVE  \E st \in Seq(Messages) : st = stream[p] /\ stream' \in [Pages -> Seq(Messages)]
               /\ IF HasRoom(p) THEN stream'[p] = Append(st, m) ELSE stream'[p] = st
  <2>1. stream \in [Pages -> Seq(Messages)]
    BY DEF LiveInv, LiveTypes
  <2>2. stream' \in [Pages -> Seq(Messages)]
    BY <1>5, <2>1 DEF SendAll
  <2>3. QED BY <1>5, <2>1, <2>2 DEF SendAll
<1>7. LiveTypes'
  <2>1. hub' = [pc |-> hub'.pc, span |-> hub'.span, snap |-> hub'.snap] /\ hub'.pc \in {"recv", "locked"}
    BY <1>5 DEF LiveInv, LiveTypes, Idle
  <2>2. stream' \in [Pages -> Seq(Messages)]
    <3>1. stream \in [Pages -> Seq(Messages)]
      BY DEF LiveInv, LiveTypes
    <3>2. QED BY <1>5, <3>1 DEF SendAll
  <2>3. reached' \in [Pages -> SUBSET Nat]
    BY <1>2, <1>5 DEF LiveInv, LiveTypes
  <2>4. \A p \in Pages : p \notin clients => stream'[p] = <<>>
    BY <1>6 DEF LiveInv, LiveTypes, HasRoom
  <2>5. QED BY <1>1, <2>1, <2>2, <2>3, <2>4 DEF LiveInv, LiveTypes
<1>8. HubSound'
  <2>1. CASE hub' = Idle
    BY <2>1 DEF HubSound, Idle
  <2>2. CASE hub' = [hub EXCEPT !.pc = "locked"]
    <3>1. hub'.pc = "locked" /\ hub'.span = hub.span /\ hub'.snap = hub.snap
      BY <2>2 DEF LiveInv, LiveTypes
    <3>2. PICK id, spans, n : id = hub.span.trace /\ spans = hub.snap /\ n = LastN
      OBVIOUS
    <3>3. n \in OfTrace(id)' /\ Reading(id, spans)' /\ Fresh(id, spans, n)' /\ n = LastN'
      BY <1>2, <1>3, <1>4, <3>2
    <3>4. QED BY <1>2, <1>4, <3>1, <3>2, <3>3 DEF HubSound, Fresh
  <2>3. QED BY <1>5, <2>1, <2>2
<1>9. StreamsSound'
  <2> SUFFICES ASSUME NEW p \in Pages
               PROVE  (Ordered(stream[p]) /\ \A i \in Traces(stream[p]) : Sound(stream[p][i]))'
    BY DEF StreamsSound
  <2>1. PICK st, new :
          st \in Seq(Messages) /\ st = stream[p] /\ new = stream'[p] /\ (new = st \/ new = Append(st, m))
    BY <1>6
  <2>2. /\ Ordered(st)
        /\ \A i \in Traces(st) : Sound(st[i]) /\ Sound(st[i])' /\ st[i].n \in Nat
        /\ \A i \in Traces(st) : st[i].n <= LastN
    <3>1. Ordered(st) /\ \A i \in Traces(st) : Sound(st[i])
      BY <2>1 DEF LiveInv, StreamsSound
    <3>2. \A i \in Traces(st) : st[i].n <= LastN
      BY <3>1 DEF Sound
    <3>3. QED BY <1>3, <3>1, <3>2
  <2>3. Ordered(new) /\ \A i \in Traces(new) : \E w : w = new[i] /\ Sound(w)'
    <3>1. CASE new = st
      BY <2>2, <3>1
    <3>2. CASE new = Append(st, m)
      <4>4. Longer(st, m, new)
        BY <2>1, <3>2, AppendMessage, Zenon
      <4>1. \A i \in Traces(new) : \E w : w = new[i] /\ Sound(w)'
        <5>1. m.type = "trace" => Sound(m)'
          BY <1>3, <1>5
        <5>2. SUFFICES ASSUME NEW i \in Traces(new) PROVE \E w : w = new[i] /\ Sound(w)'
          OBVIOUS
        <5>3. CASE i \in Traces(st) /\ new[i] = st[i]
          BY <2>2, <5>3
        <5>4. CASE new[i] = m /\ m.type = "trace"
          BY <5>1, <5>4
        <5>5. QED BY <4>4, <5>3, <5>4 DEF Longer
      <4>2. ASSUME NEW i \in Traces(new), NEW j \in Traces(new), i < j
            PROVE  new[i].n <= new[j].n
        <5>1. Len(st) \in Nat
          OBVIOUS
        <5>2. i \in Traces(st) /\ new[i] = st[i]
          BY <4>2, <4>4, <5>1 DEF Longer
        <5>3. CASE j \in Traces(st) /\ new[j] = st[j]
          BY <2>2, <4>2, <5>2, <5>3 DEF Ordered
        <5>4. CASE new[j] = m /\ m.type = "trace"
          BY <1>5, <2>2, <5>2, <5>4
        <5>5. QED BY <4>4, <5>3, <5>4 DEF Longer
      <4>3. QED BY <4>1, <4>2 DEF Ordered
    <3>3. QED BY <2>1, <3>1, <3>2
  <2>4. Ordered(stream[p])' /\ Traces(stream[p])' = Traces(new)
    BY <2>1, <2>3, Zenon DEF Ordered, Traces
  <2>5. ASSUME NEW i \in Traces(new) PROVE Sound(stream[p][i])'
    <3>1. PICK w : w = new[i] /\ Sound(w)'
      BY <2>3
    <3>2. w = stream'[p][i]
      BY <2>1, <3>1
    <3>3. QED BY <3>1, <3>2, Zenon DEF Sound, Reading, Fresh
  <2>6. QED BY <2>4, <2>5
<1>10. ListsSound'
  BY <1>1, <1>3 DEF LiveInv, ListsSound
<1>11. Arrivals'
  <2> SUFFICES ASSUME NEW p \in Pages, NEW n \in reached'[p]
               PROVE  (n <= LastN /\ (n \in Waiting(p) \/ Arrived(p, n)))'
    BY DEF Arrivals
  <2>1. PICK st, new :
          /\ st \in Seq(Messages) /\ st = stream[p] /\ new = stream'[p]
          /\ IF HasRoom(p) THEN new = Append(st, m) ELSE new = st
    BY <1>6
  <2>6. new = st \/ Longer(st, m, new)
    BY <2>1, AppendMessage, Zenon
  <2>2. /\ Waiting(p) = {st[i].n : i \in Traces(st)}
        /\ Waiting(p)' = {new[i].n : i \in Traces(new)}
    BY <2>1 DEF Waiting, Traces
  <2>3. CASE n \in reached[p]
    <3>1. n <= LastN /\ (n \in Waiting(p) \/ Arrived(p, n))
      BY <2>3 DEF LiveInv, Arrivals
    <3>2. n \in Waiting(p) => n \in Waiting(p)'
      BY <2>2, <2>6 DEF Longer
    <3>3. ASSUME Arrived(p, n) PROVE Arrived(p, n)'
      <4>1. \A i \in Traces(st) : n <= st[i].n
        BY <2>1, <3>3 DEF Arrived
      <4>2. \A i \in Traces(new) : n <= new[i].n
        <5>1. CASE new = st
          BY <4>1, <5>1
        <5>2. CASE new = Append(st, m)
          <6>1. m.type = "trace" => n <= m.n
            BY <1>5, <3>1
          <6>2. Longer(st, m, new)
            BY <2>1, <5>2, AppendMessage, Zenon
          <6>3. QED BY <4>1, <6>1, <6>2 DEF Longer
        <5>3. QED BY <2>1, <5>1, <5>2
      <4>3. \A i \in Traces(stream[p])' : n <= stream'[p][i].n
        BY <2>1, <4>2 DEF Traces
      <4>4. \A id \in DOMAIN traces' :
              n \in Stored(id)' => id \in DOMAIN list'[p] /\ n \in Nums(list[p][id])'
        BY <1>1, <1>3, <3>3 DEF Arrived, Nums
      <4>5. QED BY <4>3, <4>4 DEF Arrived
    <3>4. QED BY <1>2, <3>1, <3>2, <3>3
  <2>4. CASE n \notin reached[p]
    <3>1. m.type = "trace" /\ m.n = LastN /\ n = LastN /\ HasRoom(p)
      BY <1>5, <2>4
    <3>2. n \in Waiting(p)'
      <4>1. Longer(st, m, new)
        BY <2>1, <3>1, AppendMessage, Zenon
      <4>2. QED BY <2>2, <3>1, <4>1 DEF Longer
    <3>3. QED BY <1>2, <3>1, <3>2
  <2>5. QED BY <2>3, <2>4
<1>12. QED BY <1>3, <1>7, <1>8, <1>9, <1>10, <1>11 DEF LiveInv

(* Steps of a page leave the store, the hub and all other pages alone.     *)
PageSound(p) ==
  /\ Ordered(stream[p]) /\ \A i \in Traces(stream[p]) : Sound(stream[p][i])
  /\ \A id \in DOMAIN list[p] : Reading(id, list[p][id])
  /\ \A id \in DOMAIN fetch[p].reply : Reading(id, fetch[p].reply[id])
  /\ \A n \in reached[p] : n <= LastN /\ (n \in Waiting(p) \/ Arrived(p, n))

PageAt(p) == <<stream[p], list[p], fetch[p], reached[p]>>

(* A page to which nothing happens, or only a reply that is a reading,     *)
(* stays sound.                                                            *)
LEMMA PageSame ==
  ASSUME NEW p \in Pages, PageSound(p), UNCHANGED <<stream[p], list[p], reached[p]>>,
         \/ fetch'[p] = fetch[p]
         \/ \A id \in DOMAIN fetch'[p].reply : Reading(id, fetch[p].reply[id])',
         added \in Seq(Span), LastN \in Nat, LastN' = LastN, UNCHANGED <<traces, added>>
  PROVE  PageSound(p)'
<1>1. /\ \A id : Stored(id)' = Stored(id)
      /\ \A id, spans : Reading(id, spans) => Reading(id, spans)'
      /\ \A m : Sound(m) => Sound(m)'
  <2>1. LastN' \in Nat /\ LastN <= LastN'
    OBVIOUS
  <2>2. QED BY <2>1, StillKnown
<1>2. stream'[p] = stream[p] /\ list'[p] = list[p] /\ reached'[p] = reached[p]
  OBVIOUS
<1>3. Ordered(stream[p])' /\ Traces(stream[p])' = Traces(stream[p]) /\ Waiting(p)' = Waiting(p)
  BY <1>2 DEF PageSound, Ordered, Traces, Waiting
<1>4. \A i \in Traces(stream[p]) : Sound(stream[p][i])'
  <2> SUFFICES ASSUME NEW i \in Traces(stream[p]) PROVE Sound(stream[p][i])'
    OBVIOUS
  <2>1. PICK w : w = stream[p][i]
    OBVIOUS
  <2>2. Sound(w)' /\ w = stream'[p][i]
    BY <1>1, <1>2, <2>1 DEF PageSound
  <2>3. QED BY <2>2, Zenon DEF Sound, Reading, Fresh
<1>5. \A id \in DOMAIN list'[p] : Reading(id, list[p][id])'
  BY <1>1, <1>2 DEF PageSound
<1>6. \A id \in DOMAIN fetch'[p].reply : Reading(id, fetch[p].reply[id])'
  <2>1. CASE fetch'[p] = fetch[p]
    BY <1>1, <2>1 DEF PageSound
  <2>2. QED BY <2>1
<1>7. ASSUME NEW n \in reached'[p] PROVE (n <= LastN /\ (n \in Waiting(p) \/ Arrived(p, n)))'
  <2>1. Arrived(p, n) => Arrived(p, n)'
    BY <1>1, <1>2 DEF Arrived, Nums, Traces
  <2>2. QED BY <1>2, <1>3, <2>1 DEF PageSound
<1>8. QED BY <1>3, <1>4, <1>5, <1>6, <1>7 DEF PageSound

(* Nor does anything change for the hub. *)
LEMMA HubSame ==
  ASSUME HubSound, LastN' = LastN, UNCHANGED <<traces, added, hub>>
  PROVE  HubSound'
<1>1. \A id : OfTrace(id)' = OfTrace(id)
  BY DEF OfTrace
<1>2. Reading(hub.span.trace, hub.snap)' <=> Reading(hub.span.trace, hub.snap)
  BY DEF Reading, Nums, OfTrace
<1>3. Fresh(hub.span.trace, hub.snap, LastN)' <=> Fresh(hub.span.trace, hub.snap, LastN)
  BY DEF Fresh, Nums, Stored
<1>4. QED BY <1>1, <1>2, <1>3 DEF HubSound

(* So it is enough that the page itself stays sound. *)
LEMMA PageStep ==
  ASSUME LiveInv, Inv, DeliveryInv, NEW p \in Pages, LiveTypes', PageSound(p)',
         UNCHANGED <<traces, added, received, hub>>,
         \A q \in Pages : q # p => UNCHANGED PageAt(q)
  PROVE  LiveInv'
<1>1. LastN' = LastN /\ LastN \in Nat /\ added \in Seq(Span) /\ LastN' \in Nat /\ LastN <= LastN'
  <2>1. LastN' = LastN
    BY DEF LastN
  <2>2. QED BY <2>1, LastBound DEF Inv, TypeOK
<1>2. \A q \in Pages : PageSound(q)'
  <2> SUFFICES ASSUME NEW q \in Pages, q # p PROVE PageSound(q)'
    OBVIOUS
  <2>1. PageSound(q)
    BY DEF LiveInv, StreamsSound, ListsSound, Arrivals, PageSound
  <2>2. stream'[q] = stream[q] /\ list'[q] = list[q] /\ fetch'[q] = fetch[q] /\ reached'[q] = reached[q]
    BY DEF PageAt
  <2>3. QED BY <1>1, <2>1, <2>2, PageSame
<1>3. StreamsSound' /\ ListsSound' /\ Arrivals'
  BY <1>2 DEF StreamsSound, ListsSound, Arrivals, PageSound
<1>4. StoreHolds'
  BY <1>1, StillKnown DEF LiveInv
<1>5. HubSound'
  BY <1>1, HubSame DEF LiveInv
<1>6. QED BY <1>3, <1>4, <1>5 DEF LiveInv

(* A page connects, or its request fails: nothing is shown or lost.        *)
LEMMA LiveConnect ==
  ASSUME LiveInv, Inv, DeliveryInv, NEW p \in Pages, Connect(p) \/ ListFails(p)
  PROVE  LiveInv'
<1>1. /\ UNCHANGED <<traces, added, received, hub, list, reached>>
      /\ stream' = stream /\ hub.pc # "off"
      /\ \A q \in Pages : q # p => fetch'[q] = fetch[q]
      /\ DOMAIN fetch' = Pages
      /\ fetch'[p] = fetch[p] \/ fetch'[p].reply = NoTraces
      /\ clients \subseteq clients' /\ clients' \subseteq Pages
  <2>1. CASE Connect(p)
    <3>1. stream \in [Pages -> Seq(Messages)] /\ stream[p] = <<>>
      BY <2>1 DEF Connect, LiveInv, LiveTypes
    <3>2. stream' = stream
      BY <2>1, <3>1 DEF Connect
    <3>3. QED BY <2>1, <3>2 DEF Connect, ServerUp, pageVars, storeVars, vars, ringVars, subVars,
                               LiveInv, LiveTypes
  <2>2. CASE ListFails(p)
    BY <2>2 DEF ListFails, ServerUp, pageVars, storeVars, vars, ringVars, subVars, LiveInv, LiveTypes
  <2>3. QED BY <2>1, <2>2
<1>2. LiveTypes'
  BY <1>1 DEF LiveInv, LiveTypes
<1>3. PageSound(p)'
  <2>1. LastN' = LastN /\ LastN \in Nat /\ added \in Seq(Span)
    BY <1>1, LastBound DEF LastN, Inv, TypeOK
  <2>2. PageSound(p)
    BY DEF LiveInv, StreamsSound, ListsSound, Arrivals, PageSound
  <2>3. \/ fetch'[p] = fetch[p]
        \/ \A id \in DOMAIN fetch'[p].reply : Reading(id, fetch[p].reply[id])'
    BY <1>1 DEF NoTraces
  <2>4. QED BY <1>1, <2>1, <2>2, <2>3, PageSame
<1>4. \A q \in Pages : q # p => UNCHANGED PageAt(q)
  BY <1>1 DEF PageAt
<1>5. QED BY <1>1, <1>2, <1>3, <1>4, PageStep

(* The traces of a page of the list are retained. *)
LEMMA PageRetained ==
  ASSUME Inv, NEW page, page = ListTraces(0, ListLimit), NEW i \in DOMAIN page
  PROVE  page[i].id \in DOMAIN traces
<1>1. RingRead
  BY RingFacts
<1>2. ListLimit \in Nat /\ ListLimit > 0
  BY ClientCapAssumption
<1>3. PICK ids \in Seq(TraceIDs) : ids = RingIDs
  BY <1>1 DEF RingRead
<1>4. PICK w : w = Window(ids, 0, ListLimit)
  OBVIOUS
<1>5. [k \in DOMAIN page |-> page[k].id] = w
  BY <1>1, <1>2, <1>3, <1>4, PageIsWindow
<1>6. i \in DOMAIN w /\ w[i] = page[i].id
  BY <1>5
<1>7. Len(ids) \in Nat /\ \A k \in 1 .. Len(ids) : ids[k] \in DOMAIN traces
  BY <1>1, <1>3 DEF RingRead
<1>8. 0 \in Nat /\ (0 >= Len(ids) => w = <<>>)
      /\ (0 < Len(ids) => w = SubSeq(ids, 0 + 1, IF ListLimit > 0 /\ ListLimit < Len(ids) - 0
                                                 THEN 0 + ListLimit ELSE Len(ids)))
  BY <1>2, <1>4, WindowOf
<1>9. 0 < Len(ids)
  BY <1>6, <1>7, <1>8
<1>10. PICK k \in 0 .. Len(ids) : w = SubSeq(ids, 1, k)
  BY <1>2, <1>7, <1>8, <1>9
<1>11. i \in 1 .. Len(ids) /\ w[i] = ids[i]
  BY <1>6, <1>10
<1>12. QED BY <1>6, <1>7, <1>11

(* The server answers with a reading of every trace of the page.           *)
LEMMA LiveAnswer ==
  ASSUME LiveInv, Inv, DeliveryInv, NEW p \in Pages, AnswerList(p)
  PROVE  LiveInv'
<1>1. PICK found : found = ListTraces(0, ListLimit)
  OBVIOUS
<1>2. PICK reply : reply = [id \in {found[i].id : i \in DOMAIN found} |-> traces[id].spans]
  OBVIOUS
<1>3. /\ UNCHANGED <<traces, added, received, hub, clients, stream, list, reached>>
      /\ fetch' = [fetch EXCEPT ![p] = [state |-> "answered", reply |-> reply]]
      /\ DOMAIN fetch = Pages
  BY <1>1, <1>2 DEF AnswerList, storeVars, vars, ringVars, subVars, LiveInv, LiveTypes
<1>4. ASSUME NEW id \in DOMAIN reply PROVE Reading(id, reply[id])
  <2>1. id \in DOMAIN traces /\ reply[id] = traces[id].spans
    BY <1>1, <1>2, PageRetained
  <2>2. Holds(id) /\ Nums(reply[id]) = Stored(id)
    BY <2>1 DEF LiveInv, StoreHolds, Nums, Stored
  <2>3. QED BY <2>2 DEF Holds, Reading, Gapless
<1>5. LastN' = LastN /\ LastN \in Nat /\ LastN' \in Nat /\ LastN <= LastN' /\ added \in Seq(Span)
  <2>1. LastN' = LastN
    BY <1>3 DEF LastN
  <2>2. QED BY <2>1, LastBound DEF Inv, TypeOK
<1>6. fetch'[p].reply = reply /\ DOMAIN fetch' = Pages
      /\ \A q \in Pages : q # p => fetch'[q] = fetch[q]
  BY <1>3
<1>7. \A id \in DOMAIN fetch'[p].reply : Reading(id, fetch[p].reply[id])'
  <2>1. \A id, spans : Reading(id, spans) => Reading(id, spans)'
    BY <1>3, <1>5, StillKnown
  <2>2. \A id \in DOMAIN reply : Reading(id, reply[id])'
    BY <1>4, <2>1
  <2>3. QED BY <1>6, <2>2, Zenon DEF Reading
<1>8. LiveTypes'
  BY <1>3, <1>6 DEF LiveInv, LiveTypes
<1>9. PageSound(p)'
  <2>1. PageSound(p)
    BY DEF LiveInv, StreamsSound, ListsSound, Arrivals, PageSound
  <2>2. QED BY <1>3, <1>5, <1>7, <2>1, PageSame
<1>10. \A q \in Pages : q # p => UNCHANGED PageAt(q)
  BY <1>3, <1>6 DEF PageAt
<1>11. QED BY <1>3, <1>8, <1>9, <1>10, PageStep

(* The reply replaces the list, and what waits in the channel comes after. *)
LEMMA LiveArrival ==
  ASSUME LiveInv, Inv, DeliveryInv, NEW p \in Pages, ListArrives(p)
  PROVE  LiveInv'
<1>1. /\ UNCHANGED <<traces, added, received, hub, clients, stream>>
      /\ list'[p] = fetch[p].reply /\ fetch'[p].reply = NoTraces /\ reached'[p] = Waiting(p)
      /\ DOMAIN list' = Pages /\ DOMAIN fetch' = Pages
      /\ \A q \in Pages : q # p => UNCHANGED PageAt(q)
  BY DEF ListArrives, storeVars, vars, ringVars, subVars, LiveInv, LiveTypes, PageAt
<1>2. LastN' = LastN /\ LastN \in Nat /\ LastN' \in Nat /\ LastN <= LastN' /\ added \in Seq(Span)
  <2>1. LastN' = LastN
    BY <1>1 DEF LastN
  <2>2. QED BY <2>1, LastBound DEF Inv, TypeOK
<1>3. Ordered(stream[p]) /\ \A i \in Traces(stream[p]) : Sound(stream[p][i])
  BY DEF LiveInv, StreamsSound
<1>4. Waiting(p) = {stream[p][i].n : i \in Traces(stream[p])} /\ Waiting(p)' = Waiting(p)
  BY <1>1 DEF Waiting, Traces
<1>5. \A n \in Waiting(p) : n \in Nat /\ n <= LastN
  <2>1. \A m : Sound(m) => m.n \in Nat /\ m.n <= LastN
    <3>1. \A m : Sound(m) => m.n \in Nat
      BY <1>1, <1>2, StillKnown
    <3>2. QED BY <3>1 DEF Sound
  <2>2. QED BY <1>3, <1>4, <2>1
<1>6. LiveTypes'
  <2>1. reached' \in [Pages -> SUBSET Nat]
    BY <1>5 DEF ListArrives, LiveInv, LiveTypes
  <2>2. hub.pc = "off" => reached'[p] = {} /\ \A q \in Pages : reached[q] = {} /\ stream[q] = <<>>
    BY <1>1 DEF LiveInv, LiveTypes, Waiting
  <2>3. hub.pc = "off" => \A q \in Pages : reached'[q] = {} /\ stream'[q] = <<>>
    BY <1>1, <2>2 DEF PageAt
  <2>4. QED BY <1>1, <2>1, <2>3 DEF LiveInv, LiveTypes
<1>7. PageSound(p)'
  <2>1. \A id, spans : Reading(id, spans) => Reading(id, spans)'
    BY <1>1, <1>2, StillKnown
  <2>2. \A id \in DOMAIN list'[p] : Reading(id, list[p][id])'
    <3>1. PICK reply : reply = fetch[p].reply
      OBVIOUS
    <3>2. \A id \in DOMAIN reply : Reading(id, reply[id])'
      BY <2>1, <3>1 DEF LiveInv, ListsSound
    <3>3. list'[p] = reply
      BY <1>1, <3>1
    <3>4. QED BY <3>2, <3>3, Zenon DEF Reading
  <2>3. \A id \in DOMAIN fetch'[p].reply : Reading(id, fetch[p].reply[id])'
    BY <1>1 DEF NoTraces
  <2>4. Ordered(stream[p])' /\ Traces(stream[p])' = Traces(stream[p])
    BY <1>1, <1>3 DEF Ordered, Traces
  <2>5. \A i \in Traces(stream[p]) : Sound(stream[p][i])'
    <3>1. \A m : Sound(m) => Sound(m)'
      BY <1>1, <1>2, StillKnown
    <3> SUFFICES ASSUME NEW i \in Traces(stream[p]) PROVE Sound(stream[p][i])'
      OBVIOUS
    <3>2. PICK w : w = stream[p][i]
      OBVIOUS
    <3>3. Sound(w)' /\ w = stream'[p][i]
      BY <1>1, <1>3, <3>1, <3>2
    <3>4. QED BY <3>3, Zenon DEF Sound, Reading, Fresh
  <2>6. \A n \in reached'[p] : n <= LastN' /\ n \in Waiting(p)'
    BY <1>1, <1>2, <1>4, <1>5
  <2>7. QED BY <2>2, <2>3, <2>4, <2>5, <2>6 DEF PageSound
<1>8. QED BY <1>1, <1>6, <1>7, PageStep

(* A connection breaks: what waited in the channel has not reached the     *)
(* page, what had arrived is still shown.                                  *)
LEMMA LiveDisconnect ==
  ASSUME LiveInv, Inv, DeliveryInv, NEW p \in Pages, Disconnect(p)
  PROVE  LiveInv'
<1>1. /\ UNCHANGED <<traces, added, received, hub, list, fetch>>
      /\ stream'[p] = <<>> /\ reached'[p] = reached[p] \ Waiting(p)
      /\ clients' = clients \ {p}
      /\ stream' \in [Pages -> Seq(Messages)] /\ reached' \in [Pages -> SUBSET Nat]
      /\ \A q \in Pages : q # p => UNCHANGED PageAt(q)
  BY DEF Disconnect, storeVars, pageVars, vars, ringVars, subVars, LiveInv, LiveTypes, PageAt
<1>2. LastN' = LastN /\ LastN \in Nat /\ LastN' \in Nat /\ LastN <= LastN' /\ added \in Seq(Span)
  <2>1. LastN' = LastN
    BY <1>1 DEF LastN
  <2>2. QED BY <2>1, LastBound DEF Inv, TypeOK
<1>3. LiveTypes'
  <2>1. \A q \in Pages : q \notin clients' => stream'[q] = <<>>
    BY <1>1 DEF LiveInv, LiveTypes, PageAt
  <2>2. hub.pc = "off" => \A q \in Pages : reached'[q] = {} /\ stream'[q] = <<>>
    BY <1>1 DEF LiveInv, LiveTypes, PageAt
  <2>3. QED BY <1>1, <2>1, <2>2 DEF LiveInv, LiveTypes
<1>4. PageSound(p)'
  <2>1. /\ \A id, spans : Reading(id, spans) => Reading(id, spans)'
        /\ \A id : Stored(id)' = Stored(id)
    BY <1>1, <1>2, StillKnown
  <2>2. /\ \A id \in DOMAIN list'[p] : Reading(id, list[p][id])'
        /\ \A id \in DOMAIN fetch'[p].reply : Reading(id, fetch[p].reply[id])'
    BY <1>1, <2>1 DEF LiveInv, ListsSound
  <2>3. Traces(stream[p])' = {}
    BY <1>1 DEF Traces
  <2>4. ASSUME NEW n \in reached'[p] PROVE (n <= LastN /\ Arrived(p, n))'
    <3>1. n <= LastN /\ Arrived(p, n)
      BY <1>1 DEF LiveInv, Arrivals
    <3>2. Arrived(p, n)'
      BY <1>1, <2>1, <2>3, <3>1 DEF Arrived, Nums
    <3>3. QED BY <1>2, <3>1, <3>2
  <2>5. QED BY <2>2, <2>3, <2>4 DEF PageSound, Ordered
<1>5. QED BY <1>1, <1>3, <1>4, PageStep

(* The trace messages of a channel whose first message was taken.          *)
Shorter(st, new) ==
  /\ \A i \in Traces(new) : i \in Nat /\ i + 1 \in Traces(st) /\ 1 < i + 1 /\ new[i] = st[i + 1]
  /\ \A i \in Traces(st) : i = 1 \/ (i - 1 \in Traces(new) /\ new[i - 1] = st[i])
  /\ (st[1].type = "trace" => 1 \in Traces(st))

(* Tail makes a channel shorter in this sense. *)
LEMMA TakeMessage ==
  ASSUME NEW st \in Seq(Messages), st # <<>>
  PROVE  Shorter(st, Tail(st)) /\ Head(st) = st[1] /\ Tail(st) \in Seq(Messages)
<1>0. Tail(st) \in Seq(Messages)
  OBVIOUS
<1>1. PICK new \in Seq(Messages) : new = Tail(st)
  BY <1>0, Zenon
<1>2. /\ Len(st) \in Nat /\ Len(st) >= 1 /\ DOMAIN st = 1 .. Len(st)
      /\ DOMAIN new = 1 .. Len(st) - 1
      /\ \A i \in 1 .. Len(st) - 1 : new[i] = st[i + 1]
  BY <1>1
<1>3. \A i \in Traces(new) : i \in Nat /\ i + 1 \in Traces(st) /\ 1 < i + 1 /\ new[i] = st[i + 1]
  BY <1>2 DEF Traces
<1>4. \A i \in Traces(st) : i = 1 \/ (i - 1 \in Traces(new) /\ new[i - 1] = st[i])
  <2> SUFFICES ASSUME NEW i \in Traces(st), i # 1
               PROVE  i - 1 \in Traces(new) /\ new[i - 1] = st[i]
    OBVIOUS
  <2>1. i \in 1 .. Len(st) /\ st[i].type = "trace"
    BY <1>2 DEF Traces
  <2>2. i - 1 \in 1 .. Len(st) - 1 /\ (i - 1) + 1 = i
    BY <1>2, <2>1
  <2>3. new[i - 1] = st[i]
    BY <1>2, <2>2
  <2>4. QED BY <1>2, <2>1, <2>2, <2>3 DEF Traces
<1>5. st[1].type = "trace" => 1 \in Traces(st)
  BY <1>2 DEF Traces
<1>6. Head(st) = st[1]
  OBVIOUS
<1>7. QED BY <1>1, <1>3, <1>4, <1>5, <1>6 DEF Shorter

(* A page handles a message.  If it is a trace message, its spans are all  *)
(* that the store holds of the trace up to the span it announces, and no   *)
(* later span has arrived: what was shown of the trace and is still held   *)
(* is shown after it.                                                      *)
LEMMA LiveHandle ==
  ASSUME LiveInv, Inv, DeliveryInv, NEW p \in Pages, Handle(p)
  PROVE  LiveInv'
<1>1. PICK st \in Seq(Messages) : st = stream[p]
  BY DEF LiveInv, LiveTypes
<1>2. PICK m, new : m = Head(st) /\ new = Tail(st)
  OBVIOUS
<1>3. /\ UNCHANGED <<traces, added, received, hub, clients, fetch, reached>>
      /\ st # <<>> /\ stream' = [stream EXCEPT ![p] = new]
      /\ list' = IF m.type = "trace" THEN [list EXCEPT ![p] = updateTrace(@, m)] ELSE list
  BY <1>1, <1>2 DEF Handle, storeVars, vars, ringVars, subVars
<1>4. Shorter(st, new) /\ m = st[1] /\ new \in Seq(Messages)
  BY <1>1, <1>2, <1>3, TakeMessage, Zenon
<1>5. /\ stream'[p] = new /\ reached'[p] = reached[p] /\ DOMAIN list' = Pages
      /\ stream' \in [Pages -> Seq(Messages)]
      /\ \A q \in Pages : q # p => UNCHANGED PageAt(q)
  BY <1>3, <1>4 DEF LiveInv, LiveTypes, PageAt
<1>6. LastN' = LastN /\ LastN \in Nat /\ LastN' \in Nat /\ LastN <= LastN' /\ added \in Seq(Span)
  <2>1. LastN' = LastN
    BY <1>3 DEF LastN
  <2>2. QED BY <2>1, LastBound DEF Inv, TypeOK
<1>7. /\ \A id, spans : Reading(id, spans) => Reading(id, spans)'
      /\ \A id : Stored(id)' = Stored(id)
      /\ \A w : Sound(w) => Sound(w)' /\ w.n \in Nat
  BY <1>3, <1>6, StillKnown
<1>8. Ordered(st) /\ \A i \in Traces(st) : Sound(st[i])
  BY <1>1 DEF LiveInv, StreamsSound
<1>9. LiveTypes'
  <2>1. \A q \in Pages : q \notin clients => stream'[q] = <<>>
    BY <1>1, <1>3, <1>5 DEF LiveInv, LiveTypes, PageAt
  <2>2. hub.pc # "off"
    BY <1>1, <1>3 DEF LiveInv, LiveTypes
  <2>3. QED BY <1>3, <1>5, <2>1, <2>2 DEF LiveInv, LiveTypes
<1>10. m.type = "trace" =>
         /\ 1 \in Traces(st) /\ Sound(m) /\ \A i \in Traces(new) : m.n <= new[i].n
         /\ list'[p] = updateTrace(list[p], m)
  <2> SUFFICES ASSUME m.type = "trace"
               PROVE  /\ 1 \in Traces(st) /\ Sound(m) /\ \A i \in Traces(new) : m.n <= new[i].n
                      /\ list'[p] = updateTrace(list[p], m)
    OBVIOUS
  <2>1. 1 \in Traces(st)
    BY <1>4 DEF Shorter
  <2>2. \A i \in Traces(new) : m.n <= new[i].n
    BY <1>4, <1>8, <2>1 DEF Shorter, Ordered
  <2>3. list'[p] = updateTrace(list[p], m)
    BY <1>3 DEF LiveInv, LiveTypes
  <2>4. QED BY <1>4, <1>8, <2>1, <2>2, <2>3
<1>11. Ordered(new) /\ \A i \in Traces(new) : Sound(new[i])
  <2>1. \A i \in Traces(new) : Sound(new[i])
    BY <1>4, <1>8 DEF Shorter
  <2>2. ASSUME NEW i \in Traces(new), NEW j \in Traces(new), i < j
        PROVE  new[i].n <= new[j].n
    <3>1. i + 1 \in Traces(st) /\ j + 1 \in Traces(st) /\ i + 1 < j + 1
          /\ new[i] = st[i + 1] /\ new[j] = st[j + 1]
      BY <1>4, <2>2 DEF Shorter
    <3>2. QED BY <1>8, <3>1 DEF Ordered
  <2>3. QED BY <2>1, <2>2 DEF Ordered
<1>12. ASSUME NEW n \in reached[p]
       PROVE  /\ n <= LastN
              /\ \/ \E i \in Traces(new) : new[i].n = n
                 \/ /\ \A i \in Traces(new) : n <= new[i].n
                    /\ \A id \in DOMAIN traces :
                         n \in Stored(id) => id \in DOMAIN list'[p] /\ n \in Nums(list'[p][id])
  <2>1. n <= LastN /\ (n \in Waiting(p) \/ Arrived(p, n))
    BY DEF LiveInv, Arrivals
  <2>2. CASE \E i \in Traces(st) : i # 1 /\ st[i].n = n
    BY <1>4, <2>1, <2>2 DEF Shorter
  <2>3. CASE 1 \in Traces(st) /\ st[1].n = n
    <3>1. m.type = "trace" /\ m.n = n
      BY <1>4, <2>3 DEF Traces
    <3>2. Sound(m) /\ \A i \in Traces(new) : n <= new[i].n
      BY <1>10, <3>1
    <3>3. ASSUME NEW id \in DOMAIN traces, n \in Stored(id)
          PROVE  id \in DOMAIN list'[p] /\ n \in Nums(list'[p][id])
      <4>1. n \in OfTrace(id) /\ n \in OfTrace(m.trace) /\ n <= n
        BY <1>7, <3>1, <3>2, <3>3 DEF LiveInv, StoreHolds, Holds, Sound
      <4>2. id = m.trace
        BY <4>1 DEF OfTrace
      <4>3. n \in Nums(m.spans)
        BY <3>1, <3>2, <3>3, <4>1, <4>2 DEF Sound, Fresh
      <4>4. id \in DOMAIN list'[p] /\ list'[p][id] = m.spans
        BY <1>10, <3>1, <4>2 DEF updateTrace
      <4>5. QED BY <4>3, <4>4
    <3>4. QED BY <2>1, <3>2, <3>3
  <2>4. CASE Arrived(p, n)
    <3>1. \A i \in Traces(st) : n <= st[i].n
      BY <1>1, <2>4 DEF Arrived
    <3>2. \A i \in Traces(new) : n <= new[i].n
      BY <1>4, <3>1 DEF Shorter
    <3>3. ASSUME NEW id \in DOMAIN traces, n \in Stored(id)
          PROVE  id \in DOMAIN list'[p] /\ n \in Nums(list'[p][id])
      <4>1. id \in DOMAIN list[p] /\ n \in Nums(list[p][id])
        BY <2>4, <3>3 DEF Arrived
      <4>2. CASE m.type # "trace"
        BY <1>3, <4>1, <4>2
      <4>3. CASE m.type = "trace" /\ id # m.trace
        <5>1. id \in DOMAIN list'[p] /\ list'[p][id] = list[p][id]
          BY <1>10, <4>1, <4>3 DEF updateTrace
        <5>2. QED BY <4>1, <5>1
      <4>4. CASE m.type = "trace" /\ id = m.trace
        <5>1. n <= m.n
          BY <1>4, <1>10, <3>1, <4>4
        <5>2. n \in Nums(m.spans)
          BY <1>10, <3>3, <4>4, <5>1 DEF Sound, Fresh
        <5>3. id \in DOMAIN list'[p] /\ list'[p][id] = m.spans
          BY <1>10, <4>4 DEF updateTrace
        <5>4. QED BY <5>2, <5>3
      <4>5. QED BY <4>2, <4>3, <4>4
    <3>4. QED BY <2>1, <3>2, <3>3
  <2>5. n \in Waiting(p) => \E i \in Traces(st) : st[i].n = n
    BY <1>1 DEF Waiting, Traces
  <2>6. QED BY <2>1, <2>2, <2>3, <2>4, <2>5
<1>13. PageSound(p)'
  <2>1. Ordered(stream[p])' /\ Traces(stream[p])' = Traces(new)
    BY <1>5, <1>11, Zenon DEF Ordered, Traces
  <2>2. \A i \in Traces(stream[p])' : Sound(stream[p][i])'
    <3> SUFFICES ASSUME NEW i \in Traces(new) PROVE Sound(stream[p][i])'
      BY <2>1
    <3>1. PICK w : w = new[i]
      OBVIOUS
    <3>2. Sound(w)' /\ w = stream'[p][i]
      BY <1>5, <1>7, <1>11, <3>1
    <3>3. QED BY <3>2, Zenon DEF Sound, Reading, Fresh
  <2>3. \A id \in DOMAIN list'[p] : Reading(id, list[p][id])'
    <3>1. PICK shown : shown = list'[p]
      OBVIOUS
    <3>2. ASSUME NEW id \in DOMAIN shown PROVE Reading(id, shown[id])
      <4>1. CASE m.type # "trace"
        BY <1>3, <3>1, <4>1 DEF LiveInv, ListsSound
      <4>2. CASE m.type = "trace" /\ id = m.trace
        <5>1. shown[id] = m.spans
          BY <1>10, <3>1, <4>2 DEF updateTrace
        <5>2. QED BY <1>10, <4>2, <5>1 DEF Sound
      <4>3. CASE m.type = "trace" /\ id # m.trace
        <5>1. id \in DOMAIN list[p] /\ shown[id] = list[p][id]
          BY <1>10, <3>1, <4>3 DEF updateTrace
        <5>2. QED BY <5>1 DEF LiveInv, ListsSound
      <4>4. QED BY <4>1, <4>2, <4>3
    <3>3. \A id \in DOMAIN shown : Reading(id, shown[id])'
      BY <1>7, <3>2
    <3>4. QED BY <3>1, <3>3, Zenon DEF Reading
  <2>4. \A id \in DOMAIN fetch'[p].reply : Reading(id, fetch[p].reply[id])'
    BY <1>3, <1>7 DEF LiveInv, ListsSound
  <2>5. ASSUME NEW n \in reached'[p] PROVE (n <= LastN /\ (n \in Waiting(p) \/ Arrived(p, n)))'
    <3>1. n \in reached[p]
      BY <1>5
    <3>2. CASE \E i \in Traces(new) : new[i].n = n
      <4>1. Waiting(p)' = {new[i].n : i \in Traces(new)}
        BY <1>5 DEF Waiting, Traces
      <4>2. QED BY <1>6, <1>12, <3>1, <3>2, <4>1
    <3>3. CASE /\ \A i \in Traces(new) : n <= new[i].n
               /\ \A id \in DOMAIN traces :
                    n \in Stored(id) => id \in DOMAIN list'[p] /\ n \in Nums(list'[p][id])
      <4>1. \A i \in Traces(stream[p])' : n <= stream'[p][i].n
        BY <1>5, <2>1, <3>3
      <4>2. \A id \in DOMAIN traces' :
              n \in Stored(id)' => id \in DOMAIN list'[p] /\ n \in Nums(list[p][id])'
        BY <1>3, <1>7, <3>3 DEF Nums
      <4>3. QED BY <1>6, <1>12, <3>1, <4>1, <4>2 DEF Arrived
    <3>4. QED BY <1>12, <3>1, <3>2, <3>3
  <2>6. QED BY <2>1, <2>2, <2>3, <2>4, <2>5 DEF PageSound
<1>14. QED BY <1>3, <1>5, <1>9, <1>13, PageStep

-----------------------------------------------------------------------------
(* The theorems. *)

(* When the program starts, no page shows anything. *)
LEMMA LiveStart ==
  ASSUME LiveInit
  PROVE  LiveInv
<1>1. Init /\ clients = {} /\ hub = [Idle EXCEPT !.pc = "off"]
  BY DEF LiveInit
<1>2. /\ \A p \in Pages : stream[p] = <<>> /\ list[p] = NoTraces /\ reached[p] = {}
      /\ \A p \in Pages : fetch[p].reply = NoTraces
      /\ stream \in [Pages -> Seq(Messages)] /\ reached \in [Pages -> SUBSET Nat]
      /\ DOMAIN list = Pages /\ DOMAIN fetch = Pages
  BY DEF LiveInit
<1>3. LiveTypes /\ HubSound
  BY <1>1, <1>2 DEF LiveTypes, HubSound, Idle
<1>4. StoreHolds
  BY <1>1 DEF Init, StoreHolds
<1>5. DOMAIN NoTraces = {}
  BY DEF NoTraces
<1>6. StreamsSound /\ ListsSound /\ Arrivals
  BY <1>2, <1>5 DEF StreamsSound, Ordered, Traces, ListsSound, Arrivals
<1>7. QED BY <1>3, <1>4, <1>6 DEF LiveInv

(* Every step of the live view keeps LiveInv, given what holds of the      *)
(* store before and after it.                                              *)
LEMMA LiveInductive ==
  ASSUME LiveInv, Inv, Inv', DeliveryInv, DeliveryInv', [LiveNext]_liveVars
  PROVE  LiveInv'
<1>1. CASE Submit /\ UNCHANGED <<hub, clients, stream, pageVars, reached>>
  BY <1>1, LiveSubmit DEF pageVars
<1>2. CASE HubStart
  BY <1>2, LiveHubStart
<1>3. CASE HubStep
  BY <1>3, LiveHubReceive, LiveHubRead, LiveSend DEF HubStep
<1>4. CASE HubStop
  BY <1>4, LiveHubRead
<1>5. CASE \E p \in Pages : \/ Connect(p) \/ Disconnect(p) \/ Handle(p)
                            \/ AnswerList(p) \/ ListArrives(p) \/ ListFails(p)
  BY <1>5, LiveConnect, LiveDisconnect, LiveHandle, LiveAnswer, LiveArrival
<1>6. CASE UNCHANGED liveVars
  <2>1. UNCHANGED <<traces, added, received, hub, clients, stream, list, fetch, reached>>
    BY <1>6 DEF liveVars, storeVars, vars, ringVars, subVars, pageVars
  <2>2. LastN' = LastN /\ LastN \in Nat /\ LastN' \in Nat /\ LastN <= LastN' /\ added \in Seq(Span)
    <3>1. LastN' = LastN
      BY <2>1 DEF LastN
    <3>2. QED BY <3>1, LastBound DEF Inv, TypeOK
  <2>3. StoreHolds' /\ StreamsSound' /\ ListsSound' /\ Arrivals'
    BY <2>1, <2>2, PagesSame
  <2>4. LiveTypes'
    BY <2>1 DEF LiveInv, LiveTypes
  <2>5. HubSound'
    BY <2>1, <2>2, HubSame DEF LiveInv
  <2>6. QED BY <2>3, <2>4, <2>5 DEF LiveInv
<1>7. QED BY <1>1, <1>2, <1>3, <1>4, <1>5, <1>6 DEF LiveNext

(* What holds of the live view forever: its own invariant and the store's. *)
THEOREM LiveHolds == LiveSpec => [](LiveInv /\ Inv /\ DeliveryInv)
<1>1. LiveSpec => [](Inv /\ DeliveryInv)
  BY LiveUsesStore, InvHolds, DeliveryHolds, PTL
<1>2. LiveInit => LiveInv
  BY LiveStart
<1>3. LiveInv /\ Inv /\ DeliveryInv /\ [LiveNext]_liveVars /\ Inv' /\ DeliveryInv' => LiveInv'
  BY LiveInductive
<1>4. QED BY <1>1, <1>2, <1>3, PTL DEF LiveSpec

(* A span whose trace message reached a page is shown there as long as the *)
(* store holds it, for any number of pages, any capacity of their          *)
(* channels, and whatever was evicted, dropped, or loaded in between.      *)
THEOREM ReachedAlwaysShown == LiveSpec => []ReachedIsShown
<1>1. LiveInv => ReachedIsShown
  <2> SUFFICES ASSUME LiveInv, NEW p \in Pages, stream[p] = <<>>, NEW id \in DOMAIN traces,
                      NEW n \in reached[p], n \in Stored(id)
               PROVE  id \in DOMAIN list[p] /\ n \in Shown(p, id)
    BY DEF ReachedIsShown
  <2>1. n \notin Waiting(p)
    BY DEF Waiting
  <2>2. Arrived(p, n)
    BY <2>1 DEF LiveInv, Arrivals
  <2>3. QED BY <2>2 DEF Arrived, Shown, Nums
<1>2. QED BY <1>1, LiveHolds, PTL

(* What a page shows of a trace never has a gap: it is one reading of the  *)
(* store, whichever messages were dropped.                                 *)
THEOREM AlwaysWithoutGaps == LiveSpec => []ShownWithoutGaps
<1>1. LiveInv /\ Inv => ShownWithoutGaps
  <2> SUFFICES ASSUME LiveInv, Inv, NEW p \in Pages, NEW id \in DOMAIN list[p]
               PROVE  /\ Shown(p, id) # {} /\ Shown(p, id) \subseteq OfTrace(id)
                      /\ \A n \in OfTrace(id) :
                           Min(Shown(p, id)) <= n /\ n <= Max(Shown(p, id)) => n \in Shown(p, id)
    BY Zenon DEF ShownWithoutGaps, OfTrace
  <2>1. PICK S : S = Shown(p, id)
    OBVIOUS
  <2>2. Gapless(S, OfTrace(id))
    BY <2>1, Zenon DEF LiveInv, ListsSound, Reading, Nums, Shown
  <2>3. OfTrace(id) \subseteq Nat /\ Len(added) \in Nat /\ \A n \in OfTrace(id) : n <= Len(added)
    BY DEF OfTrace, Inv, TypeOK
  <2>4. S \in SUBSET Nat /\ S # {} /\ \A n \in S : n <= Len(added)
    BY <2>2, <2>3 DEF Gapless
  <2>5. Min(S) \in S /\ Max(S) \in S
    BY <2>3, <2>4, MinIn, MaxIn
  <2>6. QED BY <2>1, <2>2, <2>5 DEF Gapless
<1>2. QED BY <1>1, LiveHolds, PTL

=============================================================================
