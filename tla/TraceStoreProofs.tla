-------------------------- MODULE TraceStoreProofs --------------------------
(***************************************************************************)
(* Theorems about TraceStore, for every capacity, every set of trace IDs   *)
(* and every set of subscribers.  The inductive invariant is Inv: the      *)
(* types, the agreement of ring and map, and the tightness of the timing   *)
(* (without which the type of a trace's start and duration, computed with  *)
(* Min and Max, would not be known).                                       *)
(*                                                                         *)
(* Two invariants relate the store to the history of submissions:          *)
(* DeliveryInv says what every subscriber's stream has of it and when a    *)
(* span may be missing, Replayed that the ring read from the cursor is what*)
(* replaying the history retains.                                          *)
(***************************************************************************)
EXTENDS TraceStore, SequenceTheorems, FiniteSetTheorems, WellFoundedInduction, TLAPS

Assumptions ==
  /\ MaxTraces \in Nat \ {0}
  /\ NoID \notin TraceIDs
  /\ Starts \subseteq Nat \ {0}
  /\ Durations \subseteq Nat
  /\ ChanCap \in Nat \ {0}
  /\ MaxSpans \in Nat

Inv == TypeOK /\ RingConsistent /\ TimingTight

(* The constants satisfy the assumptions TraceStore makes of them.         *)
LEMMA AssumptionsHold == Assumptions
BY MaxTracesAssumption, NoIDAssumption, TimesAssumption, ChanCapAssumption,
   MaxSpansAssumption DEF Assumptions

-----------------------------------------------------------------------------
(* Induction, about the set of the numbers that have a property.  (The     *)
(* library states it for an operator.)                                     *)
LEMMA SetInduction ==
  ASSUME NEW S, 0 \in S, \A n \in Nat : n \in S => n + 1 \in S
  PROVE  Nat \subseteq S
<1> DEFINE R == {p \in Nat \X Nat : p[1] < p[2]}
           T == Nat \ S
<1> SUFFICES ASSUME T # {} PROVE FALSE
  OBVIOUS
<1>1. IsWellFoundedOn(R, Nat)
  BY NatLessThanWellFounded DEF OpToRel
<1>2. T \subseteq Nat
  OBVIOUS
<1> HIDE DEF R
<1>3. \E x \in T : \A y \in T : <<y, x>> \notin R
  BY <1>1, <1>2, WFMin
<1>4. PICK x \in T : \A y \in T : ~ (y < x)
  BY <1>3 DEF R
<1>5. x - 1 \in Nat /\ x - 1 < x /\ (x - 1) + 1 = x
  OBVIOUS
<1>6. QED BY <1>4, <1>5

(* What Min and Max of the community modules yield, once an extremal       *)
(* element is known.                                                       *)

(* An element below all others is what Min picks.                          *)
LEMMA MinIs ==
  ASSUME NEW S \in SUBSET Nat, NEW m \in S, \A y \in S : m =< y
  PROVE  Min(S) = m
<1>1. \E x \in S : \A y \in S : x =< y
  OBVIOUS
<1>2. Min(S) \in S /\ \A y \in S : Min(S) =< y
  BY <1>1, Zenon DEF Min
<1>3. Min(S) =< m /\ m =< Min(S)
  BY <1>2
<1>4. Min(S) \in Nat /\ m \in Nat
  BY <1>2
<1>5. QED BY <1>3, <1>4

(* An element above all others is what Max picks.                          *)
LEMMA MaxIs ==
  ASSUME NEW S \in SUBSET Nat, NEW m \in S, \A y \in S : m >= y
  PROVE  Max(S) = m
<1>1. \E x \in S : \A y \in S : x >= y
  OBVIOUS
<1>2. Max(S) \in S /\ \A y \in S : Max(S) >= y
  BY <1>1, Zenon DEF Max
<1>3. Max(S) >= m /\ m >= Max(S)
  BY <1>2
<1>4. Max(S) \in Nat /\ m \in Nat
  BY <1>2
<1>5. QED BY <1>3, <1>4

(* A nonempty set of numbers has a least element, which Min picks.         *)
LEMMA MinIn ==
  ASSUME NEW S \in SUBSET Nat, S # {}
  PROVE  Min(S) \in S /\ \A y \in S : Min(S) <= y
<1> DEFINE R == {p \in Nat \X Nat : p[1] < p[2]}
<1>1. IsWellFoundedOn(R, Nat)
  BY NatLessThanWellFounded DEF OpToRel
<1> HIDE DEF R
<1>2. \E x \in S : \A y \in S : <<y, x>> \notin R
  BY <1>1, WFMin
<1>3. PICK x \in S : \A y \in S : ~ (y < x)
  BY <1>2 DEF R
<1>4. \A y \in S : x <= y
  BY <1>3
<1>5. Min(S) = x
  BY <1>4, MinIs
<1>6. QED BY <1>4, <1>5

(* If it is bounded, it has a greatest one, which Max picks. *)
LEMMA MaxIn ==
  ASSUME NEW S \in SUBSET Nat, S # {}, NEW bound \in Nat, \A y \in S : y <= bound
  PROVE  Max(S) \in S /\ \A y \in S : y <= Max(S)
<1> DEFINE T == {bound - y : y \in S}
<1>1. T \in SUBSET Nat /\ T # {}
  <2>1. \A y \in S : bound - y \in Nat
    OBVIOUS
  <2>2. PICK y \in S : TRUE
    OBVIOUS
  <2>3. QED BY <2>1, <2>2
<1>2. \A y \in S : bound - y \in T
  OBVIOUS
<1>3. Min(T) \in T /\ \A z \in T : Min(T) <= z
  <2> HIDE DEF T
  <2>1. QED BY <1>1, MinIn
<1>4. PICK x \in S : Min(T) = bound - x
  BY <1>3
<1>5. \A y \in S : x >= y
  <2> SUFFICES ASSUME NEW y \in S PROVE x >= y
    OBVIOUS
  <2>1. bound - x <= bound - y
    BY <1>2, <1>3, <1>4
  <2>2. QED BY <2>1
<1>6. Max(S) = x
  BY <1>5, MaxIs
<1>7. QED BY <1>5, <1>6

-----------------------------------------------------------------------------
(* Timing. *)

(* The fields of a span that timing reads are numbers.                     *)
LEMMA SpanNumbers ==
  ASSUME NEW span \in Span
  PROVE  span.trace \in TraceIDs /\ span.start \in Nat /\ span.dur \in Nat
<1>1. span.trace \in TraceIDs /\ span.start \in Starts /\ span.dur \in Durations
  BY DEF Span
<1>2. QED BY <1>1, TimesAssumption

(* If some span starts first and some span ends last, updateTraceTiming    *)
(* yields a well-typed trace whose interval is tight.                      *)
LEMMA TimingOf ==
  ASSUME NEW id \in TraceIDs, NEW spans \in Seq(Span),
         NEW i \in DOMAIN spans, NEW j \in DOMAIN spans,
         \A k \in DOMAIN spans : spans[i].start <= spans[k].start,
         \A k \in DOMAIN spans :
            spans[k].start + spans[k].dur <= spans[j].start + spans[j].dur
  PROVE  /\ updateTraceTiming(id, spans) \in Trace
         /\ Tight(updateTraceTiming(id, spans))
<1> DEFINE t == updateTraceTiming(id, spans)
           e == spans[j].start + spans[j].dur
<1>1. \A k \in DOMAIN spans : /\ spans[k].start \in Nat
                              /\ spans[k].dur \in Nat
  <2>1. \A k \in DOMAIN spans : spans[k] \in Span
    OBVIOUS
  <2>2. QED BY <2>1, SpanNumbers
<1>2. SpanStarts(spans) \in SUBSET Nat /\ SpanEnds(spans) \in SUBSET Nat
  BY <1>1 DEF SpanStarts, SpanEnds
<1>3. Min(SpanStarts(spans)) = spans[i].start
  <2>1. spans[i].start \in SpanStarts(spans)
    BY DEF SpanStarts
  <2>2. \A y \in SpanStarts(spans) : spans[i].start =< y
    BY DEF SpanStarts
  <2> HIDE DEF SpanStarts
  <2>3. QED BY <1>2, <2>1, <2>2, MinIs
<1>4. Max(SpanEnds(spans)) = e
  <2>1. e \in SpanEnds(spans)
    BY DEF SpanEnds
  <2>2. \A y \in SpanEnds(spans) : e >= y
    BY <1>1 DEF SpanEnds
  <2> HIDE DEF e
  <2>3. QED BY <1>2, <2>1, <2>2, MaxIs
<1>5. t = [id |-> id, spans |-> spans, start |-> spans[i].start,
           dur |-> e - spans[i].start]
  BY <1>3, <1>4 DEF updateTraceTiming
<1>6. /\ spans[i].start \in Nat
      /\ e \in Nat
      /\ e - spans[i].start \in Nat
  <2>1. spans[i].start <= spans[i].start + spans[i].dur
    BY <1>1
  <2>2. spans[i].start + spans[i].dur <= e
    OBVIOUS
  <2>3. QED BY <1>1, <2>1, <2>2
<1>7. t \in Trace
  BY <1>5, <1>6 DEF Trace
<1>8. Tight(t)
  <2>1. t.start + t.dur = e
    BY <1>5, <1>6
  <2>2. \A k \in DOMAIN t.spans :
          /\ t.start <= t.spans[k].start
          /\ t.spans[k].start + t.spans[k].dur <= t.start + t.dur
    BY <1>5, <2>1
  <2>3. \E k \in DOMAIN t.spans : t.spans[k].start = t.start
    BY <1>5
  <2>4. \E k \in DOMAIN t.spans : t.spans[k].start + t.spans[k].dur = t.start + t.dur
    BY <1>5, <2>1
  <2>5. QED BY <2>2, <2>3, <2>4 DEF Tight
<1>9. QED BY <1>7, <1>8

(* The first span of a trace. *)
LEMMA TimingFirst ==
  ASSUME NEW span \in Span
  PROVE  /\ updateTraceTiming(span.trace, <<span>>) \in Trace
         /\ Tight(updateTraceTiming(span.trace, <<span>>))
<1> DEFINE spans == <<span>>
<1>1. span.trace \in TraceIDs /\ span.start \in Nat /\ span.dur \in Nat
  BY SpanNumbers
<1>2. spans \in Seq(Span) /\ DOMAIN spans = {1} /\ spans[1] = span
  OBVIOUS
<1> HIDE DEF spans
<1>3. \A k \in DOMAIN spans :
        /\ spans[1].start <= spans[k].start
        /\ spans[k].start + spans[k].dur <= spans[1].start + spans[1].dur
  BY <1>1, <1>2
<1>4. /\ updateTraceTiming(span.trace, spans) \in Trace
      /\ Tight(updateTraceTiming(span.trace, spans))
  BY <1>1, <1>2, <1>3, TimingOf
<1>5. QED BY <1>4 DEF spans

(* One more span of a trace whose interval is tight: the earliest start is *)
(* the trace's or the new span's, and so is the latest end.                *)
LEMMA TimingAppend ==
  ASSUME NEW t \in Trace, Tight(t), NEW span \in Span, t.id = span.trace
  PROVE  /\ updateTraceTiming(span.trace, Append(t.spans, span)) \in Trace
         /\ Tight(updateTraceTiming(span.trace, Append(t.spans, span)))
<1> DEFINE spans == Append(t.spans, span)
           n == Len(t.spans) + 1
<1>1. /\ t.spans \in Seq(Span)
      /\ span.trace \in TraceIDs
      /\ span.start \in Nat
      /\ span.dur \in Nat
      /\ t.start \in Nat
      /\ t.dur \in Nat
  BY SpanNumbers DEF Trace
<1>2. /\ spans \in Seq(Span)
      /\ DOMAIN spans = 1 .. n
      /\ spans[n] = span
      /\ DOMAIN t.spans = 1 .. n - 1
      /\ \A k \in DOMAIN t.spans : spans[k] = t.spans[k]
      /\ n \in Nat \ {0}
  BY <1>1
<1> HIDE DEF spans, n
<1>3. \A k \in DOMAIN spans : spans[k].start \in Nat /\ spans[k].dur \in Nat
  <2>1. \A k \in DOMAIN spans : spans[k] \in Span
    BY <1>2
  <2>2. QED BY <2>1, SpanNumbers
<1>4. PICK i \in DOMAIN t.spans : spans[i].start = t.start
  BY <1>2 DEF Tight
<1>5. PICK j \in DOMAIN t.spans : spans[j].start + spans[j].dur = t.start + t.dur
  BY <1>2 DEF Tight
<1>6. \A k \in DOMAIN t.spans :
        /\ t.start <= spans[k].start
        /\ spans[k].start + spans[k].dur <= t.start + t.dur
  BY <1>2 DEF Tight
<1>7. \A k \in DOMAIN spans : k \in DOMAIN t.spans \/ k = n
  BY <1>2
<1>8. i \in DOMAIN spans /\ j \in DOMAIN spans /\ n \in DOMAIN spans
  BY <1>2
<1>9. \E a \in DOMAIN spans : \A k \in DOMAIN spans : spans[a].start <= spans[k].start
  <2>1. CASE span.start < t.start
    <3>1. \A k \in DOMAIN spans : spans[n].start <= spans[k].start
      BY <1>1, <1>2, <1>3, <1>6, <1>7, <2>1
    <3>2. QED BY <1>8, <3>1
  <2>2. CASE t.start <= span.start
    <3>1. \A k \in DOMAIN spans : spans[i].start <= spans[k].start
      BY <1>2, <1>4, <1>6, <1>7, <2>2
    <3>2. QED BY <1>8, <3>1
  <2>3. QED BY <1>1, <2>1, <2>2
<1>10. \E b \in DOMAIN spans : \A k \in DOMAIN spans :
         spans[k].start + spans[k].dur <= spans[b].start + spans[b].dur
  <2>1. CASE t.start + t.dur < span.start + span.dur
    <3>1. \A k \in DOMAIN spans :
            spans[k].start + spans[k].dur <= spans[n].start + spans[n].dur
      <4>1. SUFFICES ASSUME NEW k \in DOMAIN spans
                     PROVE  spans[k].start + spans[k].dur <= span.start + span.dur
        BY <1>2
      <4>2. CASE k = n
        BY <1>1, <1>2, <4>2
      <4>3. CASE k \in DOMAIN t.spans
        <5>1. spans[k].start + spans[k].dur <= t.start + t.dur
          BY <1>6, <4>3
        <5>2. spans[k].start \in Nat /\ spans[k].dur \in Nat
          BY <1>3
        <5>3. QED BY <1>1, <2>1, <5>1, <5>2
      <4>4. QED BY <1>7, <4>2, <4>3
    <3>2. QED BY <1>8, <3>1
  <2>2. CASE span.start + span.dur <= t.start + t.dur
    <3>1. \A k \in DOMAIN spans :
            spans[k].start + spans[k].dur <= spans[j].start + spans[j].dur
      BY <1>2, <1>5, <1>6, <1>7, <2>2
    <3>2. QED BY <1>8, <3>1
  <2>3. QED BY <1>1, <2>1, <2>2
<1>11. /\ updateTraceTiming(span.trace, spans) \in Trace
       /\ Tight(updateTraceTiming(span.trace, spans))
  BY <1>1, <1>2, <1>9, <1>10, TimingOf
<1>12. QED BY <1>11 DEF spans

-----------------------------------------------------------------------------
(* Types and the ring. *)

(* A store that has just been made satisfies the inductive invariant. *)
LEMMA InitInv == Init => Inv
<1> SUFFICES ASSUME Init PROVE Inv
  OBVIOUS
<1>1. DOMAIN traces = {}
  BY DEF Init
<1>2. TypeOK
  <2>1. order \in [Slots -> TraceIDs \cup {NoID}] /\ full \in BOOLEAN
    BY DEF Init
  <2>2. pos \in Slots
    BY MaxTracesAssumption DEF Init, Slots
  <2>3. <<>> \in Seq(Span) /\ Len(<<>>) <= ChanCap
    BY ChanCapAssumption
  <2>4. /\ channel \in [Subscribers -> Seq(Span)]
        /\ \A s \in Subscribers : Len(channel[s]) <= ChanCap
        /\ received \in [Subscribers -> Seq(Span)]
        /\ added \in Seq(Span)
    BY <2>3 DEF Init
  <2>5. /\ subscribers \subseteq Subscribers
        /\ taken \in [Subscribers -> Seq(Nat)]
        /\ \A s \in Subscribers : Len(taken[s]) = Len(added)
        /\ since \in [Subscribers -> Nat]
        /\ until \in [Subscribers -> Nat]
    BY DEF Init
  <2>6. traces = [id \in DOMAIN traces |-> traces[id]]
    BY DEF Init
  <2>7. QED BY <1>1, <2>1, <2>2, <2>4, <2>5, <2>6 DEF TypeOK
<1>3. RingConsistent
  BY <1>1, AssumptionsHold
  DEF Assumptions, Init, Slots, RingConsistent, SlotsDistinct, SlotsMatchMap,
      RestNeverWritten, WrittenSlots
<1>4. TimingTight
  BY <1>1 DEF TimingTight
<1>5. QED BY <1>2, <1>3, <1>4 DEF Inv

(* Notifying the subscribers keeps the type of the channels, and no        *)
(* channel outgrows its capacity.                                          *)
LEMMA NotifyType ==
  ASSUME TypeOK, NEW span \in Span, Notify(span)
  PROVE  /\ channel' \in [Subscribers -> Seq(Span)]
         /\ \A s \in Subscribers : Len(channel'[s]) <= ChanCap
         /\ taken' \in [Subscribers -> Seq(Nat)]
         /\ \A s \in Subscribers : Len(taken'[s]) = Len(added) + 1
<1>1. \A s \in Subscribers : channel[s] \in Seq(Span) /\ Len(channel[s]) <= ChanCap
  BY DEF TypeOK
<1>2. \A s \in Subscribers : Append(channel[s], span) \in Seq(Span)
  BY <1>1
<1>3. channel' \in [Subscribers -> Seq(Span)]
  BY <1>1, <1>2 DEF Notify
<1>4. ASSUME NEW s \in Subscribers
      PROVE  Len(channel'[s]) <= ChanCap
  <2>1. CASE s \in subscribers /\ Len(channel[s]) < ChanCap
    <3>1. channel'[s] = Append(channel[s], span)
      BY <2>1 DEF Notify
    <3>2. Len(channel'[s]) = Len(channel[s]) + 1
      BY <1>1, <3>1
    <3>3. Len(channel[s]) \in Nat
      BY <1>1
    <3>4. QED BY <2>1, <3>2, <3>3, ChanCapAssumption
  <2>2. CASE ~ (s \in subscribers /\ Len(channel[s]) < ChanCap)
    <3>1. channel'[s] = channel[s]
      BY <2>2 DEF Notify
    <3>2. QED BY <1>1, <3>1
  <2>3. QED BY <2>1, <2>2
<1>5. \A s \in Subscribers : /\ taken[s] \in Seq(Nat) /\ Len(taken[s]) = Len(added)
                             /\ Len(received[s]) \in Nat
  BY DEF TypeOK
<1>6. \A k \in Nat, s \in Subscribers : /\ Append(taken[s], k) \in Seq(Nat)
                                       /\ Len(Append(taken[s], k)) = Len(added) + 1
  BY <1>5
<1>7. \A s \in Subscribers :
        \E k \in Nat : Append(taken[s], IF s \in subscribers THEN Len(received[s]) ELSE 0)
                      = Append(taken[s], k)
  BY <1>5
<1>8. taken' \in [Subscribers -> Seq(Nat)] /\ \A s \in Subscribers : Len(taken'[s]) = Len(added) + 1
  BY <1>6, <1>7 DEF Notify
<1>9. QED BY <1>3, <1>4, <1>8

(* A span that joins a retained trace disturbs neither ring nor map keys.  *)
LEMMA AddToKnownInv ==
  ASSUME Inv, NEW span \in Span, AddToKnown(span)
  PROVE  /\ DOMAIN traces' \subseteq TraceIDs
         /\ traces' = [id \in DOMAIN traces' |-> traces'[id]]
         /\ \A id \in DOMAIN traces' : /\ traces'[id] \in Trace
                                       /\ traces'[id].id = id
                                       /\ Tight(traces'[id])
         /\ order' \in [Slots -> TraceIDs \cup {NoID}]
         /\ pos' \in Slots
         /\ full' \in BOOLEAN
         /\ RingConsistent'
<1> DEFINE new == updateTraceTiming(span.trace, Append(traces[span.trace].spans, span))
<1>1. /\ span.trace \in DOMAIN traces
      /\ traces' = [traces EXCEPT ![span.trace] = new]
      /\ UNCHANGED <<order, pos, full>>
  BY DEF AddToKnown
<1>2. DOMAIN traces' = DOMAIN traces /\ traces' = [id \in DOMAIN traces' |-> traces'[id]]
  BY <1>1
<1>3. /\ traces[span.trace] \in Trace
      /\ traces[span.trace].id = span.trace
      /\ Tight(traces[span.trace])
  BY <1>1 DEF Inv, TypeOK, TimingTight
<1>4. new \in Trace /\ Tight(new)
  BY <1>3, TimingAppend
<1>5. new.id = span.trace
  BY DEF updateTraceTiming
<1> HIDE DEF new
<1>6. \A id \in DOMAIN traces' :
        traces'[id] \in Trace /\ traces'[id].id = id /\ Tight(traces'[id])
  <2>1. SUFFICES ASSUME NEW id \in DOMAIN traces
                 PROVE  /\ traces'[id] \in Trace
                        /\ traces'[id].id = id
                        /\ Tight(traces'[id])
    BY <1>2
  <2>2. CASE id = span.trace
    <3>1. traces'[id] = new
      BY <1>1, <2>2
    <3>2. QED BY <1>4, <1>5, <2>2, <3>1
  <2>3. CASE id # span.trace
    <3>1. traces'[id] = traces[id]
      BY <1>1, <2>3
    <3>2. QED BY <3>1 DEF Inv, TypeOK, TimingTight
  <2>4. QED BY <2>2, <2>3
<1>7. RingConsistent'
  BY <1>1, <1>2
  DEF Inv, RingConsistent, SlotsDistinct, SlotsMatchMap, RestNeverWritten,
      WrittenSlots, Slots
<1>8. QED BY <1>1, <1>2, <1>6, <1>7 DEF Inv, TypeOK

(* A span that opens a trace: the slot under the cursor is the only one    *)
(* whose content changes, and it leaves the map together with its trace.   *)
LEMMA AddNewInv ==
  ASSUME Inv, NEW span \in Span, AddNew(span)
  PROVE  /\ DOMAIN traces' \subseteq TraceIDs
         /\ traces' = [id \in DOMAIN traces' |-> traces'[id]]
         /\ \A id \in DOMAIN traces' : /\ traces'[id] \in Trace
                                       /\ traces'[id].id = id
                                       /\ Tight(traces'[id])
         /\ order' \in [Slots -> TraceIDs \cup {NoID}]
         /\ pos' \in Slots
         /\ full' \in BOOLEAN
         /\ RingConsistent'
<1> DEFINE t    == span.trace
           new  == updateTraceTiming(t, <<span>>)
           kept == DOMAIN traces \ Evicted
<1>1. /\ t \notin DOMAIN traces
      /\ traces' = [id \in kept \cup {t} |-> IF id = t THEN new ELSE traces[id]]
      /\ order' = [order EXCEPT ![pos] = t]
      /\ pos'   = IF pos + 1 >= MaxTraces THEN 0 ELSE pos + 1
      /\ full'  = (full \/ pos + 1 >= MaxTraces)
  <2>1. new = updateTraceTiming(span.trace, <<span>>)
    OBVIOUS
  <2>2. [id \in kept \cup {t} |-> IF id = t THEN new ELSE traces[id]]
          = [id \in kept \cup {t} |-> IF id = t THEN updateTraceTiming(id, <<span>>)
                                               ELSE traces[id]]
    BY <2>1
  <2>3. QED BY <2>2 DEF AddNew
<1>2. /\ t \in TraceIDs
      /\ new \in Trace
      /\ new.id = t
      /\ Tight(new)
  BY SpanNumbers, TimingFirst DEF updateTraceTiming
<1>3. /\ DOMAIN traces \subseteq TraceIDs
      /\ order \in [Slots -> TraceIDs \cup {NoID}]
      /\ pos \in Slots
      /\ full \in BOOLEAN
      /\ \A id \in DOMAIN traces : /\ traces[id] \in Trace
                                   /\ traces[id].id = id
                                   /\ Tight(traces[id])
  BY DEF Inv, TypeOK, TimingTight
<1> HIDE DEF new
<1>4. /\ DOMAIN traces' = kept \cup {t}
      /\ traces' = [id \in DOMAIN traces' |-> traces'[id]]
      /\ \A id \in DOMAIN traces' : /\ traces'[id] \in Trace
                                    /\ traces'[id].id = id
                                    /\ Tight(traces'[id])
  BY <1>1, <1>2, <1>3
<1>5. /\ DOMAIN traces' \subseteq TraceIDs
      /\ order' \in [Slots -> TraceIDs \cup {NoID}]
      /\ full' \in BOOLEAN
  BY <1>1, <1>2, <1>3, <1>4
<1>6. pos \in Nat /\ pos < MaxTraces /\ MaxTraces \in Nat \ {0}
  BY <1>3, MaxTracesAssumption DEF Slots
<1>7. pos' \in Slots
  BY <1>1, <1>6 DEF Slots
<1>8. WrittenSlots' = WrittenSlots \cup {pos}
  <2>1. CASE full
    BY <1>1, <1>3, <2>1 DEF WrittenSlots, Slots
  <2>2. CASE ~ full /\ pos + 1 >= MaxTraces
    <3>1. full' /\ WrittenSlots' = Slots
      BY <1>1, <2>2 DEF WrittenSlots, Slots
    <3>2. pos = MaxTraces - 1
      BY <1>6, <2>2
    <3>3. WrittenSlots = 0 .. pos - 1 /\ Slots = 0 .. pos
      BY <2>2, <3>2 DEF WrittenSlots, Slots
    <3>4. QED BY <1>6, <3>1, <3>3
  <2>3. CASE ~ full /\ ~ (pos + 1 >= MaxTraces)
    <3>1. ~ full' /\ pos' = pos + 1
      BY <1>1, <2>3
    <3>2. WrittenSlots = 0 .. pos - 1 /\ WrittenSlots' = 0 .. pos' - 1
      BY <2>3, <3>1 DEF WrittenSlots
    <3>3. QED BY <1>6, <3>1, <3>2
  <2>4. QED BY <2>1, <2>2, <2>3
<1>9. WrittenSlots \subseteq Slots
  BY <1>6 DEF WrittenSlots, Slots
<1>10. \A i \in Slots : order'[i] = IF i = pos THEN t ELSE order[i]
  BY <1>1, <1>3
<1>11. \A i \in WrittenSlots : order[i] \in DOMAIN traces
  BY DEF Inv, RingConsistent, SlotsMatchMap
<1>12. SlotsDistinct'
  BY <1>1, <1>3, <1>8, <1>9, <1>10, <1>11 DEF Inv, RingConsistent, SlotsDistinct
<1>13. SlotsMatchMap'
  <2>1. CASE full
    <3>1. pos \in WrittenSlots /\ Evicted = {order[pos]}
      BY <1>3, <2>1 DEF WrittenSlots, Evicted
    <3>2. \A i \in WrittenSlots : i # pos => order[i] # order[pos]
      BY <3>1 DEF Inv, RingConsistent, SlotsDistinct
    <3>3. kept = {order[i] : i \in WrittenSlots \ {pos}}
      BY <3>1, <3>2 DEF Inv, RingConsistent, SlotsMatchMap
    <3>4. {order'[i] : i \in WrittenSlots'} = {order[i] : i \in WrittenSlots \ {pos}} \cup {t}
      BY <1>8, <1>9, <1>10, <3>1
    <3>5. QED BY <1>4, <3>3, <3>4 DEF SlotsMatchMap
  <2>2. CASE ~ full
    <3>1. pos \notin WrittenSlots /\ Evicted = {}
      BY <1>6, <2>2 DEF WrittenSlots, Evicted
    <3>2. kept = {order[i] : i \in WrittenSlots}
      BY <3>1 DEF Inv, RingConsistent, SlotsMatchMap
    <3>3. {order'[i] : i \in WrittenSlots'} = {order[i] : i \in WrittenSlots} \cup {t}
      BY <1>3, <1>8, <1>9, <1>10, <3>1
    <3>4. QED BY <1>4, <3>2, <3>3 DEF SlotsMatchMap
  <2>3. QED BY <2>1, <2>2
<1>14. RestNeverWritten'
  <2>1. \A i \in Slots \ WrittenSlots' : i # pos /\ i \in Slots \ WrittenSlots
    BY <1>8
  <2>2. \A i \in Slots \ WrittenSlots' : order'[i] = NoID
    BY <1>10, <2>1 DEF Inv, RingConsistent, RestNeverWritten
  <2>3. QED BY <2>2 DEF RestNeverWritten, Slots
<1>15. QED BY <1>4, <1>5, <1>7, <1>12, <1>13, <1>14 DEF RingConsistent

(* What Submit hands to Add is a span. *)
LEMMA SubmittedIsSpan ==
  ASSUME TypeOK, Submit
  PROVE  \E span \in Span : Add(span)
<1>1. PICK id \in TraceIDs, start \in Starts, dur \in Durations :
        Add([trace |-> id, n |-> Len(added) + 1, start |-> start, dur |-> dur])
  BY DEF Submit
<1>2. Len(added) + 1 \in 1 .. MaxSpans
  BY MaxSpansAssumption DEF Submit, TypeOK
<1>3. [trace |-> id, n |-> Len(added) + 1, start |-> start, dur |-> dur] \in Span
  BY <1>2 DEF Span
<1>4. QED BY <1>1, <1>3

(* Every submission preserves the inductive invariant. *)
LEMMA SubmitInv ==
  ASSUME Inv, Submit
  PROVE  Inv'
<1>1. PICK span \in Span : Add(span)
  BY SubmittedIsSpan DEF Inv
<1>2. /\ DOMAIN traces' \subseteq TraceIDs
      /\ traces' = [id \in DOMAIN traces' |-> traces'[id]]
      /\ \A id \in DOMAIN traces' : /\ traces'[id] \in Trace
                                    /\ traces'[id].id = id
                                    /\ Tight(traces'[id])
      /\ order' \in [Slots -> TraceIDs \cup {NoID}]
      /\ pos' \in Slots
      /\ full' \in BOOLEAN
      /\ RingConsistent'
  <2>1. CASE AddToKnown(span)
    BY <2>1, AddToKnownInv
  <2>2. CASE AddNew(span)
    BY <2>2, AddNewInv
  <2>3. QED BY <1>1, <2>1, <2>2 DEF Add
<1>3. /\ channel' \in [Subscribers -> Seq(Span)]
      /\ \A s \in Subscribers : Len(channel'[s]) <= ChanCap
      /\ taken' \in [Subscribers -> Seq(Nat)]
      /\ \A s \in Subscribers : Len(taken'[s]) = Len(added) + 1
  BY <1>1, NotifyType DEF Add, Inv
<1>4. /\ added' \in Seq(Span) /\ Len(added') = Len(added) + 1
      /\ UNCHANGED <<subscribers, received, since, until>>
  BY <1>1 DEF Add, Notify, Inv, TypeOK
<1>5. TypeOK'
  BY <1>2, <1>3, <1>4 DEF TypeOK, Inv, Slots
<1>6. TimingTight'
  BY <1>2 DEF TimingTight, Tight
<1>7. QED BY <1>2, <1>5, <1>6 DEF Inv

(* Subscribing, receiving and unsubscribing touch neither ring nor map.    *)
LEMMA SubscriberInv ==
  ASSUME Inv, NEW s \in Subscribers, Subscribe(s) \/ Unsubscribe(s) \/ Receive(s)
  PROVE  Inv'
<1>1. UNCHANGED <<ringVars, added>>
  BY DEF Subscribe, Unsubscribe, Receive
<1>2. RingConsistent' /\ TimingTight'
  BY <1>1
  DEF Inv, ringVars, RingConsistent, SlotsDistinct, SlotsMatchMap, RestNeverWritten,
      WrittenSlots, Slots, TimingTight, Tight
<1>3. Len(added) \in Nat
  BY DEF Inv, TypeOK
<1>4. TypeOK'
  <2>1. CASE Subscribe(s)
    <3>1. <<>> \in Seq(Span) /\ Len(<<>>) <= ChanCap
      BY ChanCapAssumption
    <3>2. DOMAIN added = 1 .. Len(added)
      BY DEF Inv, TypeOK
    <3>3. /\ [n \in DOMAIN added |-> 0] \in Seq(Nat)
          /\ Len([n \in DOMAIN added |-> 0]) = Len(added)
      BY <1>3, <3>2
    <3>4. /\ taken' \in [Subscribers -> Seq(Nat)]
          /\ \A r \in Subscribers : Len(taken'[r]) = Len(added)
      BY <2>1, <3>3 DEF Subscribe, Inv, TypeOK
    <3>5. QED BY <1>1, <1>3, <2>1, <3>1, <3>4 DEF Subscribe, Inv, TypeOK, ringVars, Slots
  <2>2. CASE Unsubscribe(s)
    BY <1>1, <1>3, <2>2 DEF Unsubscribe, Inv, TypeOK, ringVars, Slots
  <2>3. CASE Receive(s)
    <3>1. channel[s] \in Seq(Span) /\ channel[s] # <<>> /\ Len(channel[s]) <= ChanCap
      BY <2>3 DEF Receive, Inv, TypeOK
    <3>2. /\ Head(channel[s]) \in Span
          /\ Tail(channel[s]) \in Seq(Span)
          /\ Len(Tail(channel[s])) <= ChanCap
      BY <3>1, ChanCapAssumption
    <3>3. Append(received[s], Head(channel[s])) \in Seq(Span)
      BY <3>2 DEF Inv, TypeOK
    <3>4. QED BY <1>1, <2>3, <3>2, <3>3 DEF Receive, Inv, TypeOK, ringVars, Slots
  <2>4. QED BY <2>1, <2>2, <2>3
<1>5. QED BY <1>2, <1>4 DEF Inv

(* The conjunction Inv is inductive. *)
LEMMA InvInductive == Inv /\ [Next]_vars => Inv'
<1> SUFFICES ASSUME Inv, [Next]_vars PROVE Inv'
  OBVIOUS
<1>1. CASE Submit
  BY <1>1, SubmitInv
<1>2. CASE \E s \in Subscribers : Subscribe(s) \/ Unsubscribe(s) \/ Receive(s)
  BY <1>2, SubscriberInv
<1>3. CASE UNCHANGED vars
  BY <1>3
  DEF vars, ringVars, subVars, Inv, TypeOK, Slots, RingConsistent, SlotsDistinct,
      SlotsMatchMap, RestNeverWritten, WrittenSlots, TimingTight, Tight
<1>4. QED BY <1>1, <1>2, <1>3 DEF Next

-----------------------------------------------------------------------------
(* The results. *)

(* Inv holds in every reachable state of the store. *)
THEOREM InvHolds == Spec => []Inv
BY InitInv, InvInductive, PTL DEF Spec

(* Every variable keeps its type, the cursor of MemStore.Add stays inside  *)
(* the ring, and no subscriber channel exceeds its capacity, whatever the  *)
(* capacity of the ring and of the channels.                               *)
THEOREM TypeCorrect == Spec => []TypeOK
<1>1. Inv => TypeOK
  BY DEF Inv
<1>2. QED BY <1>1, InvHolds, PTL

(* The ring and the map of MemStore.Add agree forever: the written slots   *)
(* hold exactly the retained trace IDs, each once.  So an eviction removes *)
(* the trace it means to, and the map never outgrows --max-traces.         *)
THEOREM RingAlwaysConsistent == Spec => []RingConsistent
<1>1. Inv => RingConsistent
  BY DEF Inv
<1>2. QED BY <1>1, InvHolds, PTL

(* updateTraceTiming keeps the interval of every trace tight around its    *)
(* spans, in whatever order they are submitted.                            *)
THEOREM TimingAlwaysTight == Spec => []TimingTight
<1>1. Inv => TimingTight
  BY DEF Inv
<1>2. QED BY <1>1, InvHolds, PTL

-----------------------------------------------------------------------------
(* Refinement of TraceLog. *)

(* The i-th used slot without the modulus of orderedIDs. *)
SlotOrder ==
  \A i \in 0 .. UsedSlots - 1 :
    Slot(i) = IF ~ full THEN i
              ELSE IF pos + i < MaxTraces THEN pos + i
              ELSE pos + i - MaxTraces

(* SlotOrder follows from the types. *)
LEMMA SlotValue == TypeOK => SlotOrder
<1> SUFFICES ASSUME TypeOK, NEW i \in 0 .. UsedSlots - 1
             PROVE  Slot(i) = IF ~ full THEN i
                              ELSE IF pos + i < MaxTraces THEN pos + i
                              ELSE pos + i - MaxTraces
  BY DEF SlotOrder
<1>1. pos \in Nat /\ pos < MaxTraces /\ MaxTraces \in Nat \ {0}
  BY MaxTracesAssumption DEF TypeOK, Slots
<1>2. CASE ~ full
  BY <1>2 DEF Slot
<1>3. CASE full /\ pos + i < MaxTraces
  <2>1. pos + i \in Nat
    BY <1>1, <1>3 DEF UsedSlots
  <2>2. (pos + i) % MaxTraces = pos + i
    BY <1>1, <1>3, <2>1
  <2>3. QED BY <1>3, <2>2 DEF Slot
<1>4. CASE full /\ ~ (pos + i < MaxTraces)
  <2>1. /\ pos + i \in Nat
        /\ MaxTraces <= pos + i
        /\ pos + i < 2 * MaxTraces
    BY <1>1, <1>4 DEF UsedSlots
  <2>2. (pos + i) % MaxTraces = pos + i - MaxTraces
    BY <1>1, <2>1
  <2>3. QED BY <1>4, <2>2 DEF Slot
<1>5. QED BY <1>2, <1>3, <1>4

(* Slot enumerates the written slots, each once. *)
LEMMA SlotEnumerates ==
  ASSUME TypeOK
  PROVE  /\ UsedSlots \in Nat
         /\ \A i \in 0 .. UsedSlots - 1 : Slot(i) \in WrittenSlots
         /\ \A i, j \in 0 .. UsedSlots - 1 : Slot(i) = Slot(j) => i = j
         /\ \A w \in WrittenSlots : \E i \in 0 .. UsedSlots - 1 : Slot(i) = w
<1>1. /\ pos \in Nat
      /\ pos < MaxTraces
      /\ MaxTraces \in Nat \ {0}
      /\ full \in BOOLEAN
  BY MaxTracesAssumption DEF TypeOK, Slots
<1>2. CASE ~ full
  <2>1. UsedSlots = pos /\ WrittenSlots = 0 .. pos - 1
    BY <1>2 DEF UsedSlots, WrittenSlots
  <2>2. \A i \in 0 .. UsedSlots - 1 : Slot(i) = i
    BY <1>2 DEF Slot
  <2>3. QED BY <1>1, <2>1, <2>2
<1>3. CASE full
  <2>1. UsedSlots = MaxTraces /\ WrittenSlots = 0 .. MaxTraces - 1
    BY <1>3 DEF UsedSlots, WrittenSlots, Slots
  <2>2. \A i \in 0 .. UsedSlots - 1 :
          Slot(i) = IF pos + i < MaxTraces THEN pos + i ELSE pos + i - MaxTraces
    BY <1>3, SlotValue DEF SlotOrder
  <2>3. ASSUME NEW w \in WrittenSlots
        PROVE  \E i \in 0 .. UsedSlots - 1 : Slot(i) = w
    <3>1. CASE w >= pos
      <4>1. w - pos \in 0 .. UsedSlots - 1 /\ pos + (w - pos) = w /\ w < MaxTraces
        BY <1>1, <2>1, <3>1
      <4>2. Slot(w - pos) = w
        BY <2>2, <4>1
      <4>3. QED BY <4>1, <4>2
    <3>2. CASE ~ (w >= pos)
      <4> DEFINE k == w - pos + MaxTraces
      <4>1. k \in 0 .. UsedSlots - 1 /\ ~ (pos + k < MaxTraces) /\ pos + k - MaxTraces = w
        BY <1>1, <2>1, <3>2
      <4> HIDE DEF k
      <4>2. Slot(k) = w
        BY <2>2, <4>1
      <4>3. QED BY <4>1, <4>2
    <3>3. QED BY <1>1, <2>1, <3>1, <3>2
  <2>4. \A i \in 0 .. UsedSlots - 1 : Slot(i) \in WrittenSlots
    BY <1>1, <2>1, <2>2
  <2>5. \A i, j \in 0 .. UsedSlots - 1 : Slot(i) = Slot(j) => i = j
    <3>1. SUFFICES ASSUME NEW i \in 0 .. UsedSlots - 1, NEW j \in 0 .. UsedSlots - 1,
                          Slot(i) = Slot(j)
                   PROVE  i = j
      OBVIOUS
    <3>2. /\ Slot(i) = IF pos + i < MaxTraces THEN pos + i ELSE pos + i - MaxTraces
          /\ Slot(j) = IF pos + j < MaxTraces THEN pos + j ELSE pos + j - MaxTraces
      BY <2>2
    <3>3. i \in Nat /\ j \in Nat /\ i < MaxTraces /\ j < MaxTraces
      BY <1>1, <2>1
    <3>4. pos + i < MaxTraces <=> pos + j < MaxTraces
      <4>1. CASE pos + i < MaxTraces /\ ~ (pos + j < MaxTraces)
        <5>1. pos + i = pos + j - MaxTraces
          BY <3>1, <3>2, <4>1
        <5>2. i = j - MaxTraces
          BY <1>1, <3>3, <5>1
        <5>3. QED BY <1>1, <3>3, <5>2
      <4>2. CASE ~ (pos + i < MaxTraces) /\ pos + j < MaxTraces
        <5>1. pos + j = pos + i - MaxTraces
          BY <3>1, <3>2, <4>2
        <5>2. j = i - MaxTraces
          BY <1>1, <3>3, <5>1
        <5>3. QED BY <1>1, <3>3, <5>2
      <4>3. QED BY <4>1, <4>2
    <3>5. pos + i = pos + j \/ pos + i - MaxTraces = pos + j - MaxTraces
      BY <3>1, <3>2, <3>4
    <3>6. QED BY <1>1, <3>3, <3>5
  <2>6. QED BY <1>1, <2>1, <2>3, <2>4, <2>5
<1>4. QED BY <1>1, <1>2, <1>3

(* The entries of the view: the IDs are the retained ones, each once, and  *)
(* the view is a sequence no longer than the ring.                         *)
ViewTyped ==
  /\ UsedSlots \in Nat
  /\ LogView \in Seq([id : TraceIDs, spans : Seq(Span)])
  /\ Len(LogView) = UsedSlots
  /\ DOMAIN LogView = 1 .. UsedSlots

ViewReads ==
  \A i \in 1 .. UsedSlots :
    /\ RingIDs[i] = order[Slot(i - 1)]
    /\ RingIDs[i] \in DOMAIN traces
    /\ LogView[i] = [id |-> RingIDs[i], spans |-> traces[RingIDs[i]].spans]

ViewInjective == \A i, j \in 1 .. UsedSlots : RingIDs[i] = RingIDs[j] => i = j

ViewCovers == \A id \in DOMAIN traces : \E i \in 1 .. UsedSlots : RingIDs[i] = id

ViewFacts == SlotOrder /\ ViewTyped /\ ViewReads /\ ViewInjective /\ ViewCovers

(* ViewFacts follows from the inductive invariant. *)
LEMMA ViewEntries == Inv => ViewFacts
<1> SUFFICES ASSUME Inv PROVE ViewFacts
  OBVIOUS
<1>1. /\ UsedSlots \in Nat
      /\ \A i \in 0 .. UsedSlots - 1 : Slot(i) \in WrittenSlots
      /\ \A i, j \in 0 .. UsedSlots - 1 : Slot(i) = Slot(j) => i = j
      /\ \A w \in WrittenSlots : \E i \in 0 .. UsedSlots - 1 : Slot(i) = w
  BY SlotEnumerates DEF Inv
<1>2. \A i \in 1 .. UsedSlots : i - 1 \in 0 .. UsedSlots - 1
  BY <1>1
<1>3. \A i \in 0 .. UsedSlots - 1 : i + 1 \in 1 .. UsedSlots /\ (i + 1) - 1 = i
  BY <1>1
<1>4. \A i \in 1 .. UsedSlots : RingIDs[i] = order[Slot(i - 1)]
  BY DEF RingIDs
<1>5. \A i \in 1 .. UsedSlots : RingIDs[i] \in DOMAIN traces
  BY <1>1, <1>2, <1>4 DEF Inv, RingConsistent, SlotsMatchMap
<1>6. \A i, j \in 1 .. UsedSlots : RingIDs[i] = RingIDs[j] => i = j
  <2>1. SUFFICES ASSUME NEW i \in 1 .. UsedSlots, NEW j \in 1 .. UsedSlots,
                        RingIDs[i] = RingIDs[j]
                 PROVE  i = j
    OBVIOUS
  <2>2. Slot(i - 1) = Slot(j - 1)
    BY <1>1, <1>2, <1>4, <2>1 DEF Inv, RingConsistent, SlotsDistinct
  <2>3. i - 1 = j - 1
    BY <1>1, <1>2, <2>2
  <2>4. QED BY <1>1, <2>3
<1>7. \A id \in DOMAIN traces : \E i \in 1 .. UsedSlots : RingIDs[i] = id
  <2>1. SUFFICES ASSUME NEW id \in DOMAIN traces
                 PROVE  \E i \in 1 .. UsedSlots : RingIDs[i] = id
    OBVIOUS
  <2>2. PICK w \in WrittenSlots : order[w] = id
    BY DEF Inv, RingConsistent, SlotsMatchMap
  <2>3. PICK k \in 0 .. UsedSlots - 1 : Slot(k) = w
    BY <1>1
  <2>4. RingIDs[k + 1] = id
    BY <1>3, <1>4, <2>2, <2>3
  <2>5. QED BY <1>3, <2>4
<1>8. \A i \in 1 .. UsedSlots :
        LogView[i] = [id |-> RingIDs[i], spans |-> traces[RingIDs[i]].spans]
  BY DEF LogView
<1>9. \A i \in 1 .. UsedSlots : LogView[i] \in [id : TraceIDs, spans : Seq(Span)]
  <2>1. \A i \in 1 .. UsedSlots :
          RingIDs[i] \in TraceIDs /\ traces[RingIDs[i]].spans \in Seq(Span)
    BY <1>5 DEF Inv, TypeOK, Trace
  <2> HIDE DEF RingIDs
  <2>2. ASSUME NEW i \in 1 .. UsedSlots
        PROVE  LogView[i] \in [id : TraceIDs, spans : Seq(Span)]
    <3>1. RingIDs[i] \in TraceIDs /\ traces[RingIDs[i]].spans \in Seq(Span)
      BY <2>1
    <3>2. LogView[i] = [id |-> RingIDs[i], spans |-> traces[RingIDs[i]].spans]
      BY <1>8
    <3>3. QED BY <3>1, <3>2
  <2>3. QED BY <2>2
<1>10. /\ LogView \in Seq([id : TraceIDs, spans : Seq(Span)])
       /\ Len(LogView) = UsedSlots
       /\ DOMAIN LogView = 1 .. UsedSlots
  <2>1. LogView = [i \in 1 .. UsedSlots |-> LogView[i]]
    BY DEF LogView
  <2>2. LogView \in [1 .. UsedSlots -> [id : TraceIDs, spans : Seq(Span)]]
    BY <1>9, <2>1
  <2>4. DOMAIN LogView = 1 .. UsedSlots
    BY <2>1
  <2> HIDE DEF LogView
  <2>3. LogView \in Seq([id : TraceIDs, spans : Seq(Span)])
    <3> DEFINE Entry == [id : TraceIDs, spans : Seq(Span)]
    <3>1. LogView \in UNION {[1 .. n -> Entry] : n \in Nat}
      BY <1>1, <2>2
    <3> HIDE DEF Entry
    <3>2. LogView \in Seq(Entry)
      BY <3>1, SeqDef
    <3>3. QED BY <3>2 DEF Entry
  <2>5. QED BY <1>1, <2>3, <2>4, LenProperties
<1>11. SlotOrder
  BY SlotValue DEF Inv
<1>12. ViewTyped
  BY <1>1, <1>10 DEF ViewTyped
<1>13. ViewReads
  BY <1>4, <1>5, <1>8 DEF ViewReads
<1>14. ViewInjective /\ ViewCovers
  BY <1>6, <1>7 DEF ViewInjective, ViewCovers
<1>15. QED BY <1>11, <1>12, <1>13, <1>14 DEF ViewFacts

(* Adding to a retained trace is Extend: the view changes at the one entry *)
(* that holds the trace.                                                   *)
LEMMA KnownExtends ==
  ASSUME Inv, ViewFacts, ViewFacts', NEW span \in Span, AddToKnown(span)
  PROVE  Log!Extend(span)
<1> DEFINE id == span.trace
<1>1. /\ id \in DOMAIN traces
      /\ traces' = [traces EXCEPT ![id] = updateTraceTiming(id, Append(@.spans, span))]
      /\ UNCHANGED <<order, pos, full>>
  BY DEF AddToKnown
<1>2. UsedSlots' = UsedSlots
  BY <1>1 DEF UsedSlots
<1>3. \A i \in 1 .. UsedSlots : RingIDs'[i] = RingIDs[i]
  <2>1. RingIDs' = RingIDs
    BY <1>1 DEF RingIDs, UsedSlots, Slot
  <2>2. QED BY <2>1
<1>4. PICK i \in 1 .. UsedSlots : RingIDs[i] = id
  BY <1>1 DEF ViewFacts, ViewCovers
<1>5. /\ DOMAIN LogView = 1 .. UsedSlots
      /\ DOMAIN LogView' = 1 .. UsedSlots
  BY <1>2 DEF ViewFacts, ViewTyped
<1>6. \A k \in 1 .. UsedSlots :
        /\ LogView[k] = [id |-> RingIDs[k], spans |-> traces[RingIDs[k]].spans]
        /\ LogView'[k] = [id |-> RingIDs[k], spans |-> traces'[RingIDs[k]].spans]
  BY <1>2, <1>3 DEF ViewFacts, ViewReads
<1> DEFINE entry == [id |-> id, spans |-> Append(LogView[i].spans, span)]
           new   == [LogView EXCEPT ![i] = entry]
<1>7. LogView'[i] = entry
  <2>1. traces'[id].spans = Append(traces[id].spans, span)
    BY <1>1 DEF updateTraceTiming
  <2>2. LogView[i].spans = traces[id].spans
    <3>1. LogView[i] = [id |-> id, spans |-> traces[id].spans]
      BY <1>4, <1>6
    <3>2. QED BY <3>1
  <2>3. LogView'[i] = [id |-> id, spans |-> traces'[id].spans]
    BY <1>4, <1>6
  <2>4. QED BY <2>1, <2>2, <2>3
<1>8. ASSUME NEW k \in 1 .. UsedSlots, k # i
      PROVE  LogView'[k] = LogView[k]
  <2>1. RingIDs[k] # id
    BY <1>4, <1>8 DEF ViewFacts, ViewInjective
  <2>2. RingIDs[k] \in DOMAIN traces
    BY DEF ViewFacts, ViewReads
  <2>3. traces'[RingIDs[k]] = traces[RingIDs[k]]
    BY <1>1, <2>1, <2>2
  <2>4. QED BY <1>6, <2>3
<1>9. LogView' = new
  <2>1. /\ LogView = [k \in 1 .. UsedSlots |-> LogView[k]]
        /\ LogView' = [k \in 1 .. UsedSlots |-> LogView'[k]]
    BY <1>5, LenProperties DEF ViewFacts, ViewTyped
  <2> HIDE DEF entry
  <2>2. new = [k \in 1 .. UsedSlots |-> IF k = i THEN entry ELSE LogView[k]]
    BY <1>5, <2>1
  <2> HIDE DEF new
  <2>3. \A k \in 1 .. UsedSlots : LogView'[k] = new[k]
    BY <1>7, <1>8, <2>2
  <2>4. QED BY <2>1, <2>2, <2>3
<1>10. i \in DOMAIN LogView /\ LogView[i].id = id
  BY <1>4, <1>5, <1>6
<1>11. QED BY <1>9, <1>10 DEF Log!Extend

(* A trace the map does not hold is not in the view either. *)
LEMMA UnknownNotInView ==
  ASSUME ViewFacts, NEW id, id \notin DOMAIN traces
  PROVE  id \notin Log!LogIDs
<1>1. ASSUME NEW i \in DOMAIN LogView
      PROVE  LogView[i].id # id
  <2>1. i \in 1 .. UsedSlots
    BY DEF ViewFacts, ViewTyped
  <2>2. /\ LogView[i] = [id |-> RingIDs[i], spans |-> traces[RingIDs[i]].spans]
        /\ RingIDs[i] \in DOMAIN traces
    BY <2>1 DEF ViewFacts, ViewReads
  <2>3. LogView[i].id = RingIDs[i]
    BY <2>2
  <2>4. QED BY <2>2, <2>3
<1>2. QED BY <1>1 DEF Log!LogIDs

(* Opening a trace in a ring that is not full appends to the view; in a    *)
(* full one it also drops the front, which is the trace under the cursor.  *)
LEMMA NewOpens ==
  ASSUME Inv, ViewFacts, ViewFacts', NEW span \in Span, AddNew(span)
  PROVE  Log!Open(span)
<1> DEFINE t     == span.trace
           M     == MaxTraces
           new   == Log!Opened(span)
           Entry == [id : TraceIDs, spans : Seq(Span)]
<1>1. /\ t \notin DOMAIN traces
      /\ order' = [order EXCEPT ![pos] = t]
      /\ pos'   = IF pos + 1 >= M THEN 0 ELSE pos + 1
      /\ full'  = (full \/ pos + 1 >= M)
  BY DEF AddNew
<1>2. /\ \A id \in DOMAIN traces' : id # t => traces'[id] = traces[id]
      /\ t \in DOMAIN traces' => traces'[t].spans = <<span>>
  BY DEF AddNew, updateTraceTiming
<1>3. /\ pos \in Nat
      /\ pos < M
      /\ M \in Nat \ {0}
      /\ full \in BOOLEAN
      /\ order \in [Slots -> TraceIDs \cup {NoID}]
  BY MaxTracesAssumption DEF Inv, TypeOK, Slots
<1>a. pos + 1 >= M => pos' = 0 /\ full'
  BY <1>1
<1>b. ~ (pos + 1 >= M) => pos' = pos + 1 /\ (full' <=> full)
  BY <1>1
<1>c. pos + 1 >= M => pos = M - 1
  BY <1>3
<1>4. t \notin Log!LogIDs
  BY <1>1, UnknownNotInView
<1>5. ASSUME NEW i \in 1 .. UsedSlots
      PROVE  RingIDs[i] # t
  BY <1>1 DEF ViewFacts, ViewReads
<1>6. \A i \in 0 .. M - 1 : order'[i] = IF i = pos THEN t ELSE order[i]
  BY <1>1, <1>3 DEF Slots
<1>7. /\ LogView \in Seq(Entry)
      /\ LogView' \in Seq(Entry)
      /\ UsedSlots \in Nat
      /\ UsedSlots' \in Nat
      /\ Len(LogView) = UsedSlots
      /\ Len(LogView') = UsedSlots'
  BY DEF ViewFacts, ViewTyped
<1>8. new \in Entry
  BY SpanNumbers DEF Log!Opened
<1> HIDE DEF Entry
(* What an entry of the new view is, given the slot it is read from. *)
<1>9. ASSUME NEW k \in 1 .. UsedSlots', Slot(k - 1)' = pos
      PROVE  LogView'[k] = new
  <2>1. RingIDs'[k] = order'[Slot(k - 1)']
    BY DEF ViewFacts, ViewReads
  <2>2. RingIDs'[k] = t
    BY <1>3, <1>6, <1>9, <2>1
  <2>3. /\ RingIDs'[k] \in DOMAIN traces'
        /\ LogView'[k] = [id |-> RingIDs'[k], spans |-> traces'[RingIDs'[k]].spans]
    BY DEF ViewFacts, ViewReads
  <2>4. QED BY <1>2, <2>2, <2>3 DEF Log!Opened
<1>10. ASSUME NEW k \in 1 .. UsedSlots', NEW j \in 1 .. UsedSlots,
              NEW i \in 0 .. M - 1, i # pos, Slot(k - 1)' = i, Slot(j - 1) = i
       PROVE  LogView'[k] = LogView[j]
  <2>1. RingIDs'[k] = order'[i] /\ RingIDs[j] = order[i]
    BY <1>10 DEF ViewFacts, ViewReads
  <2>2. RingIDs'[k] = RingIDs[j]
    BY <1>6, <1>10, <2>1
  <2>3. /\ RingIDs'[k] \in DOMAIN traces'
        /\ LogView'[k] = [id |-> RingIDs'[k], spans |-> traces'[RingIDs'[k]].spans]
        /\ LogView[j] = [id |-> RingIDs[j], spans |-> traces[RingIDs[j]].spans]
    BY DEF ViewFacts, ViewReads
  <2>4. QED BY <1>2, <1>5, <2>2, <2>3
(* The order in which the two views read the slots. *)
<1>11. \A i \in 0 .. UsedSlots - 1 :
         Slot(i) = IF ~ full THEN i ELSE IF pos + i < M THEN pos + i ELSE pos + i - M
  BY DEF ViewFacts, SlotOrder
<1>12. \A i \in 0 .. UsedSlots' - 1 :
         Slot(i)' = IF ~ full' THEN i ELSE IF pos' + i < M THEN pos' + i ELSE pos' + i - M
  BY DEF ViewFacts, SlotOrder
<1> HIDE DEF new
<1>13. CASE ~ full
  <2>1. UsedSlots = pos /\ UsedSlots' = pos + 1
    <3>1. UsedSlots = pos
      BY <1>13 DEF UsedSlots
    <3>2. CASE pos + 1 >= M
      <4>1. UsedSlots' = M
        BY <1>a, <3>2 DEF UsedSlots
      <4>2. QED BY <1>3, <1>c, <3>1, <3>2, <4>1
    <3>3. CASE ~ (pos + 1 >= M)
      <4>1. ~ full' /\ pos' = pos + 1
        BY <1>13, <1>b, <3>3
      <4>2. UsedSlots' = pos'
        BY <4>1 DEF UsedSlots
      <4>3. QED BY <3>1, <4>1, <4>2
    <3>4. QED BY <3>2, <3>3
  <2>2. ASSUME NEW i \in 0 .. pos
        PROVE  Slot(i)' = i
    <3>1. CASE pos + 1 >= M
      BY <1>3, <1>12, <1>a, <1>c, <2>1, <3>1
    <3>2. CASE ~ (pos + 1 >= M)
      BY <1>3, <1>12, <1>13, <1>b, <2>1, <3>2
    <3>3. QED BY <3>1, <3>2
  <2>3. ASSUME NEW k \in 1 .. pos
        PROVE  LogView'[k] = LogView[k]
    <3>1. /\ k - 1 \in 0 .. M - 1
          /\ k - 1 \in 0 .. pos
          /\ k - 1 \in 0 .. UsedSlots - 1
          /\ k - 1 # pos
          /\ k \in 1 .. UsedSlots'
          /\ k \in 1 .. UsedSlots
      BY <1>3, <2>1
    <3>2. Slot(k - 1)' = k - 1 /\ Slot(k - 1) = k - 1
      BY <1>11, <1>13, <2>2, <3>1
    <3>3. QED BY <1>10, <3>1, <3>2
  <2>4. LogView'[pos + 1] = new
    <3>1. PICK k \in 1 .. UsedSlots' : k = pos + 1
      BY <1>3, <2>1
    <3>2. k - 1 \in 0 .. pos /\ k - 1 = pos
      BY <1>3, <3>1
    <3>3. Slot(k - 1)' = pos
      BY <2>2, <3>2
    <3>4. QED BY <1>9, <3>1, <3>3
  <2>5. LogView' = Append(LogView, new)
    <3>1. /\ Append(LogView, new) \in Seq(Entry)
          /\ Len(Append(LogView, new)) = pos + 1
          /\ \A k \in 1 .. pos : Append(LogView, new)[k] = LogView[k]
          /\ Append(LogView, new)[pos + 1] = new
      BY <1>3, <1>7, <1>8, <2>1
    <3>2. \A k \in 1 .. pos + 1 : LogView'[k] = Append(LogView, new)[k]
      BY <1>3, <2>3, <2>4, <3>1
    <3>3. QED BY <1>7, <2>1, <3>1, <3>2, SeqEqual
  <2>6. Len(LogView) # M
    BY <1>3, <1>7, <2>1
  <2>7. QED BY <1>4, <2>5, <2>6 DEF Log!Open, new
<1>14. CASE full
  <2>1. UsedSlots = M /\ UsedSlots' = M
    BY <1>14, <1>a, <1>b DEF UsedSlots
  <2>2. ASSUME NEW k \in 1 .. M - 1
        PROVE  LogView'[k] = LogView[k + 1]
    <3> DEFINE i == IF pos + k < M THEN pos + k ELSE pos + k - M
    <3>1. /\ i \in 0 .. M - 1
          /\ i # pos
          /\ k \in 1 .. UsedSlots'
          /\ k + 1 \in 1 .. UsedSlots
          /\ k \in 0 .. UsedSlots - 1
          /\ k - 1 \in 0 .. UsedSlots' - 1
          /\ (k + 1) - 1 = k
      BY <1>3, <2>1
    <3>2. Slot(k) = i
      BY <1>11, <1>14, <3>1
    <3>3. Slot(k - 1)' = i
      <4>1. CASE pos + 1 >= M
        <5>1. pos' = 0 /\ full' /\ pos = M - 1
          BY <1>a, <1>c, <4>1
        <5>2. Slot(k - 1)' = k - 1
          BY <1>3, <1>12, <2>1, <3>1, <5>1
        <5>3. i = k - 1
          BY <1>3, <5>1
        <5>4. QED BY <5>2, <5>3
      <4>2. CASE ~ (pos + 1 >= M)
        <5>1. pos' = pos + 1 /\ full' /\ (pos + 1) + (k - 1) = pos + k
          BY <1>3, <1>14, <1>b, <4>2
        <5>2. Slot(k - 1)' = IF pos' + (k - 1) < M THEN pos' + (k - 1)
                                                   ELSE pos' + (k - 1) - M
          BY <1>12, <3>1, <5>1
        <5>3. Slot(k - 1)' = IF pos + k < M THEN pos + k ELSE pos + k - M
          <6>1. CASE pos + k < M
            BY <1>3, <5>1, <5>2, <6>1
          <6>2. CASE ~ (pos + k < M)
            BY <1>3, <5>1, <5>2, <6>2
          <6>3. QED BY <6>1, <6>2
        <5>4. QED BY <5>3
      <4>3. QED BY <4>1, <4>2
    <3> HIDE DEF i
    <3>4. Slot((k + 1) - 1) = i
      BY <3>1, <3>2
    <3>5. QED BY <1>10, <3>1, <3>3, <3>4
  <2>3. LogView'[M] = new
    <3>1. M \in 1 .. UsedSlots' /\ M - 1 \in 0 .. UsedSlots' - 1
      BY <1>3, <2>1
    <3>2. Slot(M - 1)' = pos
      <4>1. CASE pos + 1 >= M
        <5>1. pos' = 0 /\ full' /\ pos = M - 1
          BY <1>a, <1>c, <4>1
        <5>2. QED BY <1>3, <1>12, <3>1, <5>1
      <4>2. CASE ~ (pos + 1 >= M)
        <5>1. /\ pos' = pos + 1
              /\ full'
              /\ ~ ((pos + 1) + (M - 1) < M)
              /\ (pos + 1) + (M - 1) - M = pos
          BY <1>3, <1>14, <1>b, <4>2
        <5>2. QED BY <1>12, <3>1, <5>1
      <4>3. QED BY <4>1, <4>2
    <3>3. QED BY <1>9, <3>1, <3>2
  <2>4. LogView' = Append(Tail(LogView), new)
    <3> DEFINE rest == Tail(LogView)
    <3>1. /\ rest \in Seq(Entry)
          /\ Len(rest) = M - 1
          /\ \A k \in 1 .. M - 1 : rest[k] = LogView[k + 1]
      BY <1>3, <1>7, <2>1
    <3> HIDE DEF rest
    <3>2. /\ Append(rest, new) \in Seq(Entry)
          /\ Len(Append(rest, new)) = M
          /\ \A k \in 1 .. M - 1 : Append(rest, new)[k] = rest[k]
          /\ Append(rest, new)[M] = new
      BY <1>3, <1>8, <3>1
    <3>3. \A k \in 1 .. M : LogView'[k] = Append(rest, new)[k]
      BY <1>3, <2>2, <2>3, <3>1, <3>2
    <3>4. LogView' = Append(rest, new)
      BY <1>7, <2>1, <3>2, <3>3, SeqEqual
    <3>5. QED BY <3>4 DEF rest
  <2>5. Len(LogView) = M
    BY <1>7, <2>1
  <2>6. QED BY <1>4, <2>4, <2>5 DEF Log!Open, new
<1>15. QED BY <1>3, <1>13, <1>14

(* An empty store is an empty log. *)
LEMMA InitIsEmptyLog == Init => Log!Init
<1> SUFFICES ASSUME Init PROVE LogView = <<>>
  BY DEF Log!Init
<1>1. ViewFacts
  BY InitInv, ViewEntries
<1>2. UsedSlots = 0
  BY DEF Init, UsedSlots
<1>3. LogView \in Seq([id : TraceIDs, spans : Seq(Span)]) /\ Len(LogView) = 0
  BY <1>1, <1>2 DEF ViewFacts, ViewTyped
<1>4. QED BY <1>3, EmptySeq

(* The view reads the ring and the map, and nothing else. *)
LEMMA ViewUnchanged == UNCHANGED <<traces, order, pos, full>> => UNCHANGED LogView
BY DEF LogView, RingIDs, UsedSlots, Slot

(* Every step of the store is a step of the log or leaves it as it was.    *)
LEMMA StepRefines ==
  ASSUME Inv, ViewFacts, ViewFacts', [Next]_vars
  PROVE  [Log!Next]_LogView
<1>1. CASE Submit
  <2>1. PICK span \in Span : Add(span)
    BY <1>1, SubmittedIsSpan DEF Inv
  <2>2. CASE AddToKnown(span)
    BY <2>2, KnownExtends DEF Log!Next
  <2>3. CASE AddNew(span)
    BY <2>3, NewOpens DEF Log!Next
  <2>4. QED BY <2>1, <2>2, <2>3 DEF Add
<1>2. CASE \E s \in Subscribers : Subscribe(s) \/ Unsubscribe(s) \/ Receive(s)
  BY <1>2, ViewUnchanged DEF Subscribe, Unsubscribe, Receive, ringVars
<1>3. CASE UNCHANGED vars
  BY <1>3, ViewUnchanged DEF vars, ringVars
<1>4. QED BY <1>1, <1>2, <1>3 DEF Next

(* MemStore implements the log of TraceLog: for every capacity of the ring *)
(* the map, the ring and the cursor together behave as one sequence of     *)
(* traces that evicts from its front, so what is retained depends on the   *)
(* order in which traces were opened and on nothing else.                  *)
THEOREM StoreImplementsLog == Spec => ImplementsTraceLog
<1>1. Inv => ViewFacts
  BY ViewEntries
<1>2. Inv /\ ViewFacts /\ ViewFacts' /\ [Next]_vars => [Log!Next]_LogView
  BY StepRefines
<1>3. QED BY <1>1, <1>2, InvHolds, InitIsEmptyLog, PTL DEF Spec, ImplementsTraceLog, Log!Spec

-----------------------------------------------------------------------------
(* Delivery to subscribers.                                                *)
(*                                                                         *)
(* What is on a channel and what was taken from it form one sequence, the  *)
(* Stream: a submission appends to it, a receive leaves it alone.  Spans   *)
(* carry their place in the history, so the order of a stream and what is  *)
(* missing from it can be read off the numbers.  The lemmas are about any  *)
(* stream st of any history h, for a subscription after its first lo spans *)
(* and up to its first hi.                                                 *)

InHistory(st, h, lo, hi) ==
  \A i \in DOMAIN st : st[i].n \in lo + 1 .. hi /\ st[i] = h[st[i].n]

Increasing(st) == \A i, j \in DOMAIN st : i < j => st[i].n < st[j].n

(* The places of a stream that were filled before span n was submitted. *)
Before(st, n) == {i \in DOMAIN st : st[i].n < n}

(* tk tells how much of the stream had been taken at each submission.      *)
LossesExcused(st, tk, lo, hi) ==
  \A n \in lo + 1 .. hi :
    (\E i \in DOMAIN st : st[i].n = n) \/ Cardinality(Before(st, n)) - tk[n] >= ChanCap

Delivered(st, tk, h, lo, hi) ==
  /\ lo <= hi /\ hi <= Len(h)
  /\ InHistory(st, h, lo, hi) /\ Increasing(st) /\ LossesExcused(st, tk, lo, hi)

DeliveryInv ==
  \A s \in Subscribers : Delivered(Stream(s), taken[s], added, since[s], Horizon(s))

(* Of a sequence of spans: its places, and the numbers in them.            *)
LEMMA SpanSeq ==
  ASSUME NEW st \in Seq(Span)
  PROVE  /\ Len(st) \in Nat /\ DOMAIN st = 1 .. Len(st)
         /\ \A i \in DOMAIN st : st[i] \in Span /\ st[i].n \in Nat
<1>1. \A span \in Span : span.n \in Nat
  BY MaxSpansAssumption DEF Span
<1>2. QED BY <1>1

(* A span more in the history, of which this stream is not told because    *)
(* its subscription is over.                                               *)
LEMMA LaterDelivered ==
  ASSUME NEW st \in Seq(Span), NEW h \in Seq(Span), NEW span \in Span,
         NEW tk \in Seq(Nat), Len(tk) = Len(h), NEW k \in Nat,
         NEW lo \in Nat, NEW hi \in Nat, Delivered(st, tk, h, lo, hi)
  PROVE  Delivered(st, Append(tk, k), Append(h, span), lo, hi)
<1>1. Len(h) \in Nat /\ DOMAIN st = 1 .. Len(st) /\ \A i \in DOMAIN st : st[i].n \in Nat
  BY SpanSeq
<1>2. /\ Len(Append(h, span)) = Len(h) + 1
      /\ \A n \in 1 .. Len(h) : Append(h, span)[n] = h[n]
      /\ \A n \in 1 .. Len(h) : Append(tk, k)[n] = tk[n]
  OBVIOUS
<1>3. \A i \in DOMAIN st : st[i].n \in lo + 1 .. hi /\ st[i].n \in 1 .. Len(h)
                           /\ st[i] = h[st[i].n]
  BY <1>1 DEF Delivered, InHistory
<1>4. InHistory(st, Append(h, span), lo, hi)
  BY <1>2, <1>3 DEF InHistory
<1>5. LossesExcused(st, Append(tk, k), lo, hi)
  <2>1. \A n \in lo + 1 .. hi : Append(tk, k)[n] = tk[n]
    BY <1>1, <1>2 DEF Delivered
  <2>2. QED BY <2>1 DEF Delivered, LossesExcused
<1>6. QED BY <1>1, <1>2, <1>4, <1>5 DEF Delivered

(* A span more in the history that finds room on the channel.              *)
LEMMA MoreDelivered ==
  ASSUME NEW st \in Seq(Span), NEW h \in Seq(Span), NEW span \in Span,
         NEW tk \in Seq(Nat), Len(tk) = Len(h), NEW k \in Nat,
         NEW lo \in Nat, Delivered(st, tk, h, lo, Len(h)), span.n = Len(h) + 1
  PROVE  Delivered(Append(st, span), Append(tk, k), Append(h, span), lo, Len(h) + 1)
<1> DEFINE st2 == Append(st, span)
           h2  == Append(h, span)
           tk2 == Append(tk, k)
           N   == Len(h)
<1>1. /\ N \in Nat /\ Len(st) \in Nat /\ DOMAIN st = 1 .. Len(st)
      /\ \A i \in DOMAIN st : st[i].n \in Nat
  BY SpanSeq
<1>2. /\ Len(h2) = N + 1 /\ h2[N + 1] = span
      /\ \A n \in 1 .. N : h2[n] = h[n]
  OBVIOUS
<1>3. /\ DOMAIN st2 = 1 .. Len(st) + 1 /\ st2[Len(st) + 1] = span
      /\ \A i \in 1 .. Len(st) : st2[i] = st[i]
  OBVIOUS
<1>4. \A i \in DOMAIN st : st[i].n \in lo + 1 .. N /\ st[i] = h[st[i].n]
  BY DEF Delivered, InHistory
<1>10. \A n \in 1 .. N : tk2[n] = tk[n]
  OBVIOUS
<1> HIDE DEF st2, h2, tk2, N
<1>5. InHistory(st2, h2, lo, N + 1)
  <2> SUFFICES ASSUME NEW i \in DOMAIN st2
               PROVE  st2[i].n \in lo + 1 .. N + 1 /\ st2[i] = h2[st2[i].n]
    BY DEF InHistory
  <2>1. CASE i = Len(st) + 1
    <3>1. st2[i] = span /\ lo <= N
      BY <1>3, <2>1 DEF Delivered, N
    <3>2. QED BY <1>1, <1>2, <3>1 DEF N
  <2>2. CASE i # Len(st) + 1
    <3>1. i \in DOMAIN st /\ st2[i] = st[i]
      BY <1>1, <1>3, <2>2
    <3>2. st[i].n \in lo + 1 .. N /\ st[i].n \in 1 .. N
      BY <1>1, <1>4, <3>1
    <3>3. QED BY <1>1, <1>2, <1>4, <3>1, <3>2
  <2>3. QED BY <2>1, <2>2
<1>6. Increasing(st2)
  <2> SUFFICES ASSUME NEW i \in DOMAIN st2, NEW j \in DOMAIN st2, i < j
               PROVE  st2[i].n < st2[j].n
    BY DEF Increasing
  <2>1. i \in DOMAIN st /\ st2[i] = st[i] /\ st[i].n \in 1 .. N
    BY <1>1, <1>3, <1>4
  <2>2. CASE j = Len(st) + 1
    BY <1>1, <1>3, <2>1, <2>2 DEF N
  <2>3. CASE j # Len(st) + 1
    <3>1. j \in DOMAIN st /\ st2[j] = st[j]
      BY <1>1, <1>3, <2>3
    <3>2. QED BY <2>1, <3>1 DEF Delivered, Increasing
  <2>4. QED BY <2>2, <2>3
<1>7. LossesExcused(st2, tk2, lo, N + 1)
  <2> SUFFICES ASSUME NEW n \in lo + 1 .. N + 1
               PROVE  \/ \E i \in DOMAIN st2 : st2[i].n = n
                      \/ Cardinality(Before(st2, n)) - tk2[n] >= ChanCap
    BY DEF LossesExcused
  <2>1. CASE n = N + 1
    <3>1. Len(st) + 1 \in DOMAIN st2 /\ st2[Len(st) + 1].n = n
      BY <1>1, <1>3, <2>1 DEF N
    <3>2. QED BY <3>1
  <2>2. CASE n # N + 1
    <3>1. n \in lo + 1 .. N /\ ~ (span.n < n)
      BY <1>1, <2>2 DEF N
    <3>2. DOMAIN st2 = DOMAIN st \cup {Len(st) + 1}
      BY <1>1, <1>3
    <3>3. Before(st2, n) = Before(st, n)
      BY <1>1, <1>3, <3>1, <3>2 DEF Before
    <3>4. \/ \E i \in DOMAIN st : st[i].n = n
          \/ Cardinality(Before(st, n)) - tk[n] >= ChanCap
      BY <3>1 DEF Delivered, LossesExcused, N
    <3>5. (\E i \in DOMAIN st : st[i].n = n) => \E i \in DOMAIN st2 : st2[i].n = n
      BY <1>1, <1>3, <3>2
    <3>6. tk2[n] = tk[n]
      BY <1>1, <1>10, <3>1 DEF N
    <3>7. QED BY <3>3, <3>4, <3>5, <3>6
  <2>3. QED BY <2>1, <2>2
<1>8. lo <= N + 1 /\ N + 1 <= Len(h2)
  BY <1>1, <1>2 DEF Delivered, N
<1>9. QED BY <1>5, <1>6, <1>7, <1>8 DEF Delivered, st2, h2, tk2, N

(* A span more in the history that finds the channel full: all of the      *)
(* stream is older, and what of it has not been taken fills the buffer.    *)
LEMMA LossDelivered ==
  ASSUME NEW st \in Seq(Span), NEW h \in Seq(Span), NEW span \in Span,
         NEW tk \in Seq(Nat), Len(tk) = Len(h), NEW k \in Nat,
         NEW lo \in Nat, Delivered(st, tk, h, lo, Len(h)), Len(st) - k >= ChanCap
  PROVE  Delivered(st, Append(tk, k), Append(h, span), lo, Len(h) + 1)
<1>1. /\ Len(h) \in Nat /\ Len(st) \in Nat /\ DOMAIN st = 1 .. Len(st)
      /\ \A i \in DOMAIN st : st[i].n \in Nat
  BY SpanSeq
<1>2. Delivered(st, Append(tk, k), Append(h, span), lo, Len(h))
  BY <1>1, LaterDelivered
<1>3. \A i \in DOMAIN st : st[i].n \in lo + 1 .. Len(h)
  BY DEF Delivered, InHistory
<1>4. InHistory(st, Append(h, span), lo, Len(h) + 1)
  BY <1>1, <1>2, <1>3 DEF Delivered, InHistory
<1>5. Before(st, Len(h) + 1) = 1 .. Len(st)
  BY <1>1, <1>3 DEF Before
<1>6. Cardinality(Before(st, Len(h) + 1)) - Append(tk, k)[Len(h) + 1] >= ChanCap
  <2>1. Cardinality(1 .. Len(st)) = Len(st)
    <3>1. 1 \in Int /\ Len(st) \in Int
      BY <1>1
    <3>2. Cardinality(1 .. Len(st)) = IF 1 > Len(st) THEN 0 ELSE Len(st) - 1 + 1
      BY <3>1, FS_Interval
    <3>3. QED BY <1>1, <3>2
  <2>2. Append(tk, k)[Len(h) + 1] = k
    OBVIOUS
  <2>3. QED BY <1>5, <2>1, <2>2
<1>7. LossesExcused(st, Append(tk, k), lo, Len(h) + 1)
  <2>1. \A n \in lo + 1 .. Len(h) + 1 : n = Len(h) + 1 \/ n \in lo + 1 .. Len(h)
    BY <1>1
  <2>2. LossesExcused(st, Append(tk, k), lo, Len(h))
    BY <1>2 DEF Delivered
  <2>3. QED BY <1>6, <2>1, <2>2, Zenon DEF LossesExcused
<1>8. lo <= Len(h) + 1 /\ Len(h) + 1 <= Len(Append(h, span))
  BY <1>1 DEF Delivered
<1>9. QED BY <1>2, <1>4, <1>7, <1>8 DEF Delivered

(* An empty stream, at the end of the history.                             *)
LEMMA NothingDelivered ==
  ASSUME NEW h \in Seq(Span), NEW tk
  PROVE  Delivered(<<>>, tk, h, Len(h), Len(h))
<1>1. <<>> \in Seq(Span) /\ Len(<<>>) = 0 /\ Len(h) \in Nat
  OBVIOUS
<1>2. DOMAIN <<>> = 1 .. Len(<<>>)
  BY <1>1, SpanSeq, Zenon
<1>3. DOMAIN <<>> = {} /\ Len(h) + 1 .. Len(h) = {}
  BY <1>1, <1>2
<1>4. QED BY <1>1, <1>3 DEF Delivered, InHistory, Increasing, LossesExcused

(* Appending to the second of two sequences appends to both together.      *)
LEMMA ConcatAppend ==
  ASSUME NEW s \in Seq(Span), NEW t \in Seq(Span), NEW span \in Span
  PROVE  s \o Append(t, span) = Append(s \o t, span)
OBVIOUS

(* The types of what delivery is about. *)
LEMMA StreamType ==
  ASSUME TypeOK, NEW s \in Subscribers
  PROVE  /\ received[s] \in Seq(Span) /\ channel[s] \in Seq(Span) /\ Stream(s) \in Seq(Span)
         /\ Len(channel[s]) \in Nat
         /\ Len(channel[s]) <= Len(Stream(s))
         /\ Len(Stream(s)) - Len(received[s]) = Len(channel[s]) /\ Len(received[s]) \in Nat
         /\ taken[s] \in Seq(Nat) /\ Len(taken[s]) = Len(added)
         /\ since[s] \in Nat /\ Horizon(s) \in Nat /\ added \in Seq(Span)
<1>1. /\ received[s] \in Seq(Span) /\ channel[s] \in Seq(Span)
      /\ taken[s] \in Seq(Nat) /\ Len(taken[s]) = Len(added)
      /\ since[s] \in Nat /\ until[s] \in Nat /\ added \in Seq(Span)
  BY DEF TypeOK
<1>2. /\ received[s] \o channel[s] \in Seq(Span)
      /\ Len(received[s] \o channel[s]) = Len(received[s]) + Len(channel[s])
      /\ Len(received[s]) \in Nat /\ Len(channel[s]) \in Nat
  BY <1>1
<1>3. Stream(s) \in Seq(Span) /\ Len(Stream(s)) = Len(received[s]) + Len(channel[s])
  BY <1>2, Zenon DEF Stream
<1>4. Len(added) \in Nat
  BY <1>1
<1>5. Horizon(s) \in Nat
  BY <1>1, <1>4 DEF Horizon
<1>6. Len(channel[s]) <= Len(Stream(s))
  <2>1. Len(received[s]) \in Nat /\ Len(channel[s]) \in Nat
    BY <1>2
  <2>2. Len(Stream(s)) = Len(received[s]) + Len(channel[s])
    BY <1>3
  <2>3. \A m, n \in Nat : n <= m + n
    OBVIOUS
  <2>4. QED BY <2>1, <2>2, <2>3, Zenon
<1>7. Len(Stream(s)) - Len(received[s]) = Len(channel[s])
  BY <1>2, <1>3
<1>8. QED BY <1>1, <1>2, <1>3, <1>5, <1>6, <1>7

(* Nothing was submitted, and nothing is delivered. *)
LEMMA InitDelivery == Init => DeliveryInv
<1> SUFFICES ASSUME Init, NEW s \in Subscribers
             PROVE  Delivered(Stream(s), taken[s], added, since[s], Horizon(s))
  BY DEF DeliveryInv
<1>1. Stream(s) = <<>> /\ since[s] = 0 /\ Horizon(s) = 0 /\ added = <<>>
  BY DEF Init, Stream, Horizon
<1>2. <<>> \in Seq(Span) /\ Len(<<>>) = 0
  OBVIOUS
<1>3. Delivered(<<>>, taken[s], <<>>, Len(<<>>), Len(<<>>))
  BY <1>2, NothingDelivered
<1>4. QED BY <1>1, <1>2, <1>3

(* Subscribing starts an empty stream at the end of the history; receiving *)
(* and unsubscribing leave every stream and its horizon as they are.       *)
LEMMA SubscriberDelivery ==
  ASSUME TypeOK, DeliveryInv, NEW r \in Subscribers,
         Subscribe(r) \/ Unsubscribe(r) \/ Receive(r)
  PROVE  DeliveryInv'
<1> SUFFICES ASSUME NEW s \in Subscribers
             PROVE  Delivered(Stream(s), taken[s], added, since[s], Horizon(s))'
  BY DEF DeliveryInv
<1>1. /\ received \in [Subscribers -> Seq(Span)] /\ channel \in [Subscribers -> Seq(Span)]
      /\ since \in [Subscribers -> Nat] /\ until \in [Subscribers -> Nat]
      /\ taken \in [Subscribers -> Seq(Nat)]
      /\ added \in Seq(Span) /\ UNCHANGED added
  BY DEF TypeOK, Subscribe, Unsubscribe, Receive
<1>2. CASE Subscribe(r) /\ s = r
  <2>1. Stream(s)' = <<>> /\ since'[s] = Len(added) /\ Horizon(s)' = Len(added)
    BY <1>1, <1>2 DEF Subscribe, Stream, Horizon
  <2>2. Delivered(<<>>, taken'[s], added, Len(added), Len(added))
    BY <1>1, NothingDelivered
  <2>3. QED BY <1>1, <2>1, <2>2
<1>3. CASE ~ (Subscribe(r) /\ s = r)
  <2>1. Stream(s)' = Stream(s)
    <3>1. CASE Receive(r) /\ s = r
      BY <1>1, <3>1, SMTT(30) DEF Receive, Stream
    <3>2. CASE ~ (Receive(r) /\ s = r)
      BY <1>1, <1>3, <3>2 DEF Subscribe, Unsubscribe, Receive, Stream
    <3>3. QED BY <3>1, <3>2
  <2>2. since'[s] = since[s] /\ Horizon(s)' = Horizon(s) /\ taken'[s] = taken[s]
    BY <1>1, <1>3 DEF Subscribe, Unsubscribe, Receive, Horizon
  <2>3. QED BY <1>1, <2>1, <2>2 DEF DeliveryInv
<1>4. QED BY <1>2, <1>3

(* A submission is one more span in the history for all subscribers: too   *)
(* late, delivered or lost.                                                *)
LEMMA SubmitDelivery ==
  ASSUME TypeOK, DeliveryInv, Submit
  PROVE  DeliveryInv'
<1>1. PICK span \in Span : span.n = Len(added) + 1 /\ Add(span)
  <2>1. PICK id \in TraceIDs, start \in Starts, dur \in Durations :
          Add([trace |-> id, n |-> Len(added) + 1, start |-> start, dur |-> dur])
    BY DEF Submit
  <2>2. Len(added) + 1 \in 1 .. MaxSpans
    BY MaxSpansAssumption DEF Submit, TypeOK
  <2>3. [trace |-> id, n |-> Len(added) + 1, start |-> start, dur |-> dur] \in Span
    BY <2>2 DEF Span
  <2>4. QED BY <2>1, <2>3
<1>2. /\ added' = Append(added, span) /\ Len(added') = Len(added) + 1
      /\ UNCHANGED <<subscribers, received, since, until>>
  BY <1>1 DEF Add, Notify, TypeOK
<1> SUFFICES ASSUME NEW s \in Subscribers
             PROVE  Delivered(Stream(s), taken[s], added, since[s], Horizon(s))'
  BY DEF DeliveryInv
<1>3. /\ Delivered(Stream(s), taken[s], added, since[s], Horizon(s))
      /\ received[s] \in Seq(Span) /\ channel[s] \in Seq(Span) /\ Stream(s) \in Seq(Span)
      /\ Len(Stream(s)) - Len(received[s]) = Len(channel[s]) /\ Len(received[s]) \in Nat
      /\ taken[s] \in Seq(Nat) /\ Len(taken[s]) = Len(added)
      /\ since[s] \in Nat /\ Horizon(s) \in Nat /\ added \in Seq(Span)
  BY StreamType DEF DeliveryInv
<1> DEFINE k == IF s \in subscribers THEN Len(received[s]) ELSE 0
<1>8. taken'[s] = Append(taken[s], k) /\ k \in Nat
  BY <1>1, <1>3 DEF Add, Notify
<1>4. CASE s \notin subscribers
  <2>1. Stream(s)' = Stream(s) /\ Horizon(s)' = Horizon(s) /\ since'[s] = since[s]
    BY <1>1, <1>2, <1>4 DEF Add, Notify, Stream, Horizon
  <2>2. Delivered(Stream(s), taken'[s], Append(added, span), since[s], Horizon(s))
    BY <1>3, <1>8, LaterDelivered
  <2>3. QED BY <1>2, <2>1, <2>2
<1>5. CASE s \in subscribers /\ Len(channel[s]) < ChanCap
  <2>1. Horizon(s) = Len(added) /\ Horizon(s)' = Len(added) + 1 /\ since'[s] = since[s]
    BY <1>2, <1>5 DEF Horizon
  <2>2. Stream(s)' = Append(Stream(s), span)
    <3>1. channel'[s] = Append(channel[s], span) /\ received'[s] = received[s]
      BY <1>1, <1>2, <1>5 DEF Add, Notify
    <3>2. received[s] \o Append(channel[s], span) = Append(received[s] \o channel[s], span)
      BY <1>3, ConcatAppend
    <3>3. QED BY <3>1, <3>2 DEF Stream
  <2>3. Delivered(Append(Stream(s), span), taken'[s], Append(added, span),
                  since[s], Len(added) + 1)
    BY <1>1, <1>3, <1>8, <2>1, MoreDelivered
  <2>4. QED BY <1>2, <2>1, <2>2, <2>3
<1>6. CASE s \in subscribers /\ ~ (Len(channel[s]) < ChanCap)
  <2>1. Horizon(s) = Len(added) /\ Horizon(s)' = Len(added) + 1 /\ since'[s] = since[s]
    BY <1>2, <1>6 DEF Horizon
  <2>2. Stream(s)' = Stream(s)
    BY <1>1, <1>2, <1>6 DEF Add, Notify, Stream
  <2>3. Len(Stream(s)) - k >= ChanCap
    <3>1. k = Len(received[s])
      BY <1>6
    <3>2. Len(channel[s]) \in Nat /\ ~ (Len(channel[s]) < ChanCap)
      BY <1>3, <1>6
    <3>3. Len(channel[s]) >= ChanCap
      BY <3>2, ChanCapAssumption
    <3>4. Len(Stream(s)) - k = Len(channel[s])
      BY <1>3, <3>1, Zenon
    <3>5. QED BY <3>3, <3>4
  <2>4. Delivered(Stream(s), taken'[s], Append(added, span), since[s], Len(added) + 1)
    BY <1>3, <1>8, <2>1, <2>3, LossDelivered
  <2>5. QED BY <1>2, <2>1, <2>2, <2>4
<1>7. QED BY <1>4, <1>5, <1>6

(* Every stream agrees with the history forever. *)
LEMMA DeliveryHolds == Spec => []DeliveryInv
<1>1. TypeOK /\ DeliveryInv /\ [Next]_vars => DeliveryInv'
  <2> SUFFICES ASSUME TypeOK, DeliveryInv, [Next]_vars PROVE DeliveryInv'
    OBVIOUS
  <2>1. CASE Submit
    BY <2>1, SubmitDelivery
  <2>2. CASE \E s \in Subscribers : Subscribe(s) \/ Unsubscribe(s) \/ Receive(s)
    BY <2>2, SubscriberDelivery
  <2>3. CASE UNCHANGED vars
    <3>1. UNCHANGED <<added, subscribers, channel, received, taken, since, until>>
      BY <2>3 DEF vars, subVars
    <3>2. \A s \in Subscribers : UNCHANGED <<Stream(s), Horizon(s)>>
      BY <3>1 DEF Stream, Horizon
    <3>3. QED BY <3>1, <3>2 DEF DeliveryInv
  <2>4. QED BY <2>1, <2>2, <2>3 DEF Next
<1>2. QED BY <1>1, TypeCorrect, InitDelivery, PTL DEF Spec

(* A subscriber of MemStore gets its spans in order, each once, only those *)
(* submitted while it was subscribed, and loses one only if its own buffer *)
(* is full at that moment, whatever the capacity, the number of subscribers*)
(* and their pace.                                                         *)
THEOREM AlwaysDelivered == Spec => []Delivery
<1>1. DeliveryInv => Delivery
  BY DEF DeliveryInv, Delivered, InHistory, Increasing, LossesExcused, Before,
         Delivery, DeliveredInOrder, LossNeedsFullChannel, Unread
<1>2. QED BY <1>1, DeliveryHolds, PTL

-----------------------------------------------------------------------------
(* Pages of the list.                                                      *)

(* What the equation of Only's recursive function says. *)
OnlyStep(g, s, S) ==
  [i \in 0 .. Len(s) |-> IF i = 0 THEN <<>>
                         ELSE IF s[i] \in S THEN Append(g[i - 1], s[i])
                         ELSE g[i - 1]]

(* A sequence without other elements is not changed by Only. *)
LEMMA OnlyAll ==
  ASSUME NEW A, NEW s \in Seq(A), NEW S, \A i \in 1 .. Len(s) : s[i] \in S
  PROVE  Only(s, S) = s
<1> DEFINE f == CHOOSE f : f = OnlyStep(f, s, S)
           g == [i \in 0 .. Len(s) |-> SubSeq(s, 1, i)]
           T == {n \in Nat : n <= Len(s) => f[n] = SubSeq(s, 1, n)}
<1>1. Len(s) \in Nat /\ \A i \in 1 .. Len(s) : s[i] \in A
  OBVIOUS
<1>2. SubSeq(s, 1, 0) = <<>>
  BY SubSeqEmpty
<1>3. \A i \in 1 .. Len(s) : SubSeq(s, 1, i) = Append(SubSeq(s, 1, i - 1), s[i])
  <2> SUFFICES ASSUME NEW i \in 1 .. Len(s)
               PROVE  SubSeq(s, 1, i) = Append(SubSeq(s, 1, i - 1), s[i])
    OBVIOUS
  <2>1. SubSeq(s, 1, i) = SubSeq(s, 1, i - 1) \o <<s[i]>>
    BY <1>1, SubSeqRecursiveSecond
  <2>2. SubSeq(s, 1, i - 1) \in Seq(A) /\ s[i] \in A
    BY <1>1, SubSeqProperties
  <2>3. QED BY <2>1, <2>2, AppendIsConcat
<1>4. g = OnlyStep(g, s, S)
  <2>1. \A i \in 0 .. Len(s) : i # 0 => i \in 1 .. Len(s) /\ i - 1 \in 0 .. Len(s)
    BY <1>1
  <2>2. \A i \in 0 .. Len(s) : g[i] = IF i = 0 THEN <<>>
                                      ELSE IF s[i] \in S THEN Append(g[i - 1], s[i])
                                      ELSE g[i - 1]
    BY <1>2, <1>3, <2>1
  <2>3. g = [i \in 0 .. Len(s) |-> g[i]]
    OBVIOUS
  <2> HIDE DEF g
  <2>4. QED BY <2>2, <2>3 DEF OnlyStep
<1>5. f = OnlyStep(f, s, S)
  <2> HIDE DEF g
  <2>1. QED BY <1>4, Zenon
<1>6. Only(s, S) = f[Len(s)]
  BY Zenon DEF Only, OnlyStep
<1> HIDE DEF f, g
<1>7. \A i \in 0 .. Len(s) : f[i] = IF i = 0 THEN <<>>
                                    ELSE IF s[i] \in S THEN Append(f[i - 1], s[i])
                                    ELSE f[i - 1]
  BY <1>5, Zenon DEF OnlyStep
<1>8. 0 \in T
  <2>1. f[0] = <<>>
    BY <1>1, <1>7
  <2>2. f[0] = SubSeq(s, 1, 0)
    BY <1>2, <2>1, Zenon
  <2>3. QED BY <2>2
<1>9. ASSUME NEW n \in Nat, n \in T PROVE n + 1 \in T
  <2> SUFFICES ASSUME n + 1 <= Len(s) PROVE f[n + 1] = SubSeq(s, 1, n + 1)
    OBVIOUS
  <2>1. /\ n + 1 \in 1 .. Len(s) /\ n + 1 \in 0 .. Len(s) /\ n + 1 # 0
        /\ (n + 1) - 1 = n /\ n <= Len(s)
    BY <1>1
  <2>2. f[n] = SubSeq(s, 1, n)
    BY <1>9, <2>1
  <2>3. f[n + 1] = Append(f[n], s[n + 1])
    BY <1>7, <2>1
  <2>4. QED BY <1>3, <2>1, <2>2, <2>3
<1>10. Nat \subseteq T
  <2> HIDE DEF T
  <2>1. QED BY <1>8, <1>9, SetInduction
<1>11. f[Len(s)] = SubSeq(s, 1, Len(s))
  BY <1>1, <1>10
<1>12. SubSeq(s, 1, Len(s)) = s
  BY SubSeqFull
<1>13. QED BY <1>6, <1>11, <1>12

(* The slots read from the cursor on hold the retained IDs, each once.     *)
RingRead ==
  /\ RingIDs \in Seq(TraceIDs) /\ Len(RingIDs) = UsedSlots /\ UsedSlots \in Nat
  /\ \A i \in 1 .. UsedSlots : RingIDs[i] \in DOMAIN traces
  /\ \A id \in DOMAIN traces : \E i \in 1 .. UsedSlots : RingIDs[i] = id
  /\ orderedIDs = RingIDs
  /\ Cardinality(DOMAIN traces) = UsedSlots

(* RingRead follows from the inductive invariant. *)
LEMMA RingFacts == Inv => RingRead
<1> SUFFICES ASSUME Inv, ViewFacts PROVE RingRead
  BY ViewEntries
<1>1. /\ UsedSlots \in Nat
      /\ \A i \in 1 .. UsedSlots : RingIDs[i] \in DOMAIN traces
      /\ \A i, j \in 1 .. UsedSlots : RingIDs[i] = RingIDs[j] => i = j
      /\ \A id \in DOMAIN traces : \E i \in 1 .. UsedSlots : RingIDs[i] = id
      /\ DOMAIN traces \subseteq TraceIDs
  BY DEF ViewFacts, ViewTyped, ViewReads, ViewInjective, ViewCovers, Inv, TypeOK
<1>2. RingIDs = [i \in 1 .. UsedSlots |-> RingIDs[i]]
  BY DEF RingIDs
<1>3. PICK ids : ids = RingIDs
  OBVIOUS
<1>4. /\ ids = [i \in 1 .. UsedSlots |-> ids[i]]
      /\ \A i \in 1 .. UsedSlots : ids[i] \in DOMAIN traces
      /\ \A i, j \in 1 .. UsedSlots : ids[i] = ids[j] => i = j
      /\ \A id \in DOMAIN traces : \E i \in 1 .. UsedSlots : ids[i] = id
  BY <1>1, <1>2, <1>3, Zenon
<1>5. ids \in Seq(TraceIDs) /\ Len(ids) = UsedSlots
  <2>1. ids \in [1 .. UsedSlots -> TraceIDs]
    BY <1>1, <1>4
  <2>2. QED BY <1>1, <2>1
<1>6. Only(ids, TraceIDs) = ids
  BY <1>1, <1>4, <1>5, OnlyAll
<1>7. orderedIDs = ids
  BY <1>3, <1>6, Zenon DEF orderedIDs
<1>8. Cardinality(DOMAIN traces) = UsedSlots
  <2>1. ids \in Bijection(1 .. UsedSlots, DOMAIN traces)
    BY <1>1, <1>4 DEF Bijection, Injection, Surjection, IsInjective
  <2>2. IsFiniteSet(1 .. UsedSlots) /\ Cardinality(1 .. UsedSlots) = UsedSlots
    <3>1. 1 \in Int /\ UsedSlots \in Int
      BY <1>1
    <3>2. /\ IsFiniteSet(1 .. UsedSlots)
          /\ Cardinality(1 .. UsedSlots) = IF 1 > UsedSlots THEN 0 ELSE UsedSlots - 1 + 1
      BY <3>1, FS_Interval
    <3>3. QED BY <1>1, <3>2
  <2>3. ExistsBijection(1 .. UsedSlots, DOMAIN traces)
    BY <2>1 DEF ExistsBijection
  <2>4. QED BY <2>2, <2>3, FS_Bijection
<1>9. QED BY <1>1, <1>3, <1>5, <1>7, <1>8, Zenon DEF RingRead

(* The window of a sequence, by its elements. *)
LEMMA WindowOf ==
  ASSUME NEW A, NEW s \in Seq(A), NEW offset \in Nat, NEW limit \in Nat
  PROVE  /\ offset >= Len(s) => Window(s, offset, limit) = <<>>
         /\ offset < Len(s) =>
              Window(s, offset, limit)
                = SubSeq(s, offset + 1, IF limit > 0 /\ limit < Len(s) - offset
                                        THEN offset + limit ELSE Len(s))
<1>1. Len(s) \in Nat
  OBVIOUS
<1>2. Min({offset + limit, Len(s)}) = IF offset + limit < Len(s) THEN offset + limit ELSE Len(s)
  <2> DEFINE S == {offset + limit, Len(s)}
  <2>1. S \in SUBSET Nat /\ offset + limit \in S /\ Len(s) \in S
    BY <1>1
  <2>2. CASE offset + limit < Len(s)
    <3>1. \A y \in S : offset + limit =< y
      BY <1>1, <2>2
    <3> HIDE DEF S
    <3>2. Min(S) = offset + limit
      BY <2>1, <3>1, MinIs
    <3>3. QED BY <2>2, <3>2 DEF S
  <2>3. CASE ~ (offset + limit < Len(s))
    <3>1. \A y \in S : Len(s) =< y
      BY <1>1, <2>3
    <3> HIDE DEF S
    <3>2. Min(S) = Len(s)
      BY <2>1, <3>1, MinIs
    <3>3. QED BY <2>3, <3>2 DEF S
  <2>4. QED BY <2>2, <2>3
<1> DEFINE last == IF limit > 0 THEN Min({offset + limit, Len(s)}) ELSE Len(s)
<1>3. last = IF limit > 0 /\ offset + limit < Len(s) THEN offset + limit ELSE Len(s)
  BY <1>2
<1>4. Window(s, offset, limit) = SubSeq(s, offset + 1, last)
  BY DEF Window
<1> HIDE DEF last
<1>5. CASE offset >= Len(s)
  <2>1. last = Len(s) /\ offset + 1 \in Int /\ last \in Int /\ last < offset + 1
    BY <1>1, <1>3, <1>5
  <2>2. SubSeq(s, offset + 1, last) = <<>>
    BY <2>1, SubSeqEmpty
  <2>3. QED BY <1>1, <1>4, <1>5, <2>2
<1>6. CASE offset < Len(s)
  <2>1. (offset + limit < Len(s)) = (limit < Len(s) - offset)
    BY <1>1
  <2>2. QED BY <1>1, <1>3, <1>4, <1>6, <2>1
<1>7. QED BY <1>1, <1>5, <1>6

(* ListTraces returns the window of the retained IDs it is asked for.      *)
LEMMA PageIsWindow ==
  ASSUME Inv, RingRead, NEW offset \in Nat, NEW limit \in Nat,
         NEW page, page = ListTraces(offset, limit)
  PROVE  [i \in DOMAIN page |-> page[i].id] = Window(RingIDs, offset, limit)
<1>1. PICK ids \in Seq(TraceIDs) : ids = RingIDs
  BY DEF RingRead
<1>2. /\ Len(ids) = UsedSlots /\ UsedSlots \in Nat
      /\ orderedIDs = ids /\ Cardinality(DOMAIN traces) = Len(ids)
      /\ \A i \in 1 .. Len(ids) : ids[i] \in DOMAIN traces
  BY <1>1 DEF RingRead
<1>3. \A id \in DOMAIN traces : traces[id].id = id
  BY DEF Inv, TypeOK
<1> DEFINE rest  == SubSeq(ids, (IF offset > 0 THEN offset ELSE 0) + 1, Len(ids))
           part  == IF limit > 0 /\ limit < Len(rest) THEN SubSeq(rest, 1, limit) ELSE rest
           found == Only(part, DOMAIN traces)
<1>4. page = IF Len(ids) = 0 \/ offset >= Len(ids) THEN <<>>
             ELSE [i \in DOMAIN found |-> traces[found[i]]]
  BY <1>2, Zenon DEF ListTraces
<1>5. CASE offset >= Len(ids)
  <2>1. page = <<>>
    BY <1>4, <1>5
  <2>2. [i \in DOMAIN page |-> page[i].id] = <<>>
    BY <2>1
  <2>3. Window(ids, offset, limit) = <<>>
    BY <1>5, WindowOf
  <2>4. QED BY <1>1, <2>2, <2>3
<1>6. CASE ~ (offset >= Len(ids))
  <2>1. offset < Len(ids) /\ Len(ids) # 0 /\ offset + 1 \in 1 .. Len(ids)
    BY <1>2, <1>6
  <2>2. rest = SubSeq(ids, offset + 1, Len(ids))
    OBVIOUS
  <2>3. /\ rest \in Seq(TraceIDs) /\ Len(rest) = Len(ids) - offset
        /\ \A i \in 1 .. Len(rest) : rest[i] = ids[offset + i]
    <3>1. /\ SubSeq(ids, offset + 1, Len(ids)) \in Seq(TraceIDs)
          /\ Len(SubSeq(ids, offset + 1, Len(ids))) = Len(ids) - offset
          /\ \A i \in 1 .. Len(ids) - offset :
               SubSeq(ids, offset + 1, Len(ids))[i] = ids[offset + i]
      BY <1>2, <2>1
    <3>2. QED BY <2>2, <3>1, Zenon
  <2> HIDE DEF rest
  <2> DEFINE last == IF limit > 0 /\ limit < Len(ids) - offset THEN offset + limit ELSE Len(ids)
             w    == SubSeq(ids, offset + 1, last)
  <2>4. last \in offset + 1 .. Len(ids) \/ last = offset
    BY <1>2, <2>1
  <2>5. w \in Seq(TraceIDs) /\ Len(w) = last - offset
        /\ \A i \in 1 .. Len(w) : w[i] = ids[offset + i]
    <3> HIDE DEF last
    <3>1. last \in Int /\ last - offset \in Nat
      BY <1>2, <2>1, <2>4
    <3>2. /\ SubSeq(ids, offset + 1, last) \in Seq(TraceIDs)
          /\ Len(SubSeq(ids, offset + 1, last)) = last - offset
          /\ \A i \in 1 .. last - offset : SubSeq(ids, offset + 1, last)[i] = ids[offset + i]
      BY <1>2, <2>1, <2>4
    <3>3. QED BY <3>2, Zenon
  <2>6. part \in Seq(TraceIDs) /\ Len(part) = last - offset
        /\ \A i \in 1 .. Len(part) : part[i] = ids[offset + i]
    <3>1. CASE limit > 0 /\ limit < Len(rest)
      <4>1. last = offset + limit /\ last - offset = limit /\ limit \in 0 .. Len(rest)
        BY <1>2, <2>1, <2>3, <3>1
      <4>2. /\ SubSeq(rest, 1, limit) \in Seq(TraceIDs) /\ Len(SubSeq(rest, 1, limit)) = limit
            /\ \A i \in 1 .. limit : SubSeq(rest, 1, limit)[i] = rest[i]
        BY <2>3, <4>1
      <4>3. part = SubSeq(rest, 1, limit)
        BY <3>1
      <4> HIDE DEF part, last
      <4>4. \A i \in 1 .. limit : part[i] = ids[offset + i]
        BY <2>3, <4>1, <4>2, <4>3
      <4>5. QED BY <4>1, <4>2, <4>3, <4>4
    <3>2. CASE ~ (limit > 0 /\ limit < Len(rest))
      <4>1. part = rest
        BY <3>2
      <4>2. last = Len(ids)
        BY <1>2, <2>3, <3>2
      <4> HIDE DEF part, last
      <4>3. QED BY <2>3, <4>1, <4>2
    <3>3. QED BY <3>1, <3>2
  <2> HIDE DEF part, last, w
  <2>7. part = w
    BY <2>5, <2>6, SeqEqual
  <2>8. \A i \in 1 .. Len(part) : part[i] \in DOMAIN traces
    <3>1. Len(part) \in Nat /\ Len(part) <= Len(ids) - offset
      BY <1>2, <2>1, <2>4, <2>6
    <3>2. \A i \in 1 .. Len(part) : offset + i \in 1 .. Len(ids)
      BY <1>2, <2>1, <3>1
    <3>3. QED BY <1>2, <2>6, <3>2
  <2>9. found = part
    BY <2>6, <2>8, OnlyAll
  <2> HIDE DEF found
  <2>10. page = [i \in DOMAIN part |-> traces[part[i]]]
    BY <1>4, <1>6, <2>1, <2>9
  <2>11. DOMAIN part = 1 .. Len(part)
    BY <2>6
  <2>12. [i \in DOMAIN page |-> page[i].id] = [i \in DOMAIN part |-> part[i]]
    BY <1>3, <2>8, <2>10, <2>11
  <2>13. [i \in DOMAIN part |-> part[i]] = part
    BY <2>6
  <2>14. Window(ids, offset, limit) = w
    BY <2>1, WindowOf DEF w, last
  <2>15. QED BY <1>1, <2>7, <2>12, <2>13, <2>14
<1>7. QED BY <1>5, <1>6

(* One step of the recursion of Retained: a span of trace id arrives when  *)
(* the traces of before are retained.                                      *)
Retain(before, id) ==
  IF \E i \in DOMAIN before : before[i] = id THEN before
  ELSE IF Len(before) = MaxTraces THEN Append(Tail(before), id)
  ELSE Append(before, id)

(* The equation of that recursion, for a history h. *)
Replay(g, h) ==
  [n \in 0 .. Len(h) |-> IF n = 0 THEN <<>> ELSE Retain(g[n - 1], h[n].trace)]

(* The ring holds what a replay of the history retains. *)
Replayed == \E g : g = Replay(g, added) /\ g[Len(added)] = RingIDs

(* All replays of a history agree.                                         *)
LEMMA ReplayUnique ==
  ASSUME NEW h \in Seq(Span), NEW f, NEW g, f = Replay(f, h), g = Replay(g, h)
  PROVE  f[Len(h)] = g[Len(h)]
<1> DEFINE T == {n \in Nat : n <= Len(h) => f[n] = g[n]}
<1>1. Len(h) \in Nat
  OBVIOUS
<1>2. \A n \in 0 .. Len(h) :
        /\ f[n] = IF n = 0 THEN <<>> ELSE Retain(f[n - 1], h[n].trace)
        /\ g[n] = IF n = 0 THEN <<>> ELSE Retain(g[n - 1], h[n].trace)
  BY Zenon DEF Replay
<1>3. 0 \in T
  BY <1>1, <1>2
<1>4. ASSUME NEW n \in Nat, n \in T PROVE n + 1 \in T
  <2> SUFFICES ASSUME n + 1 <= Len(h) PROVE f[n + 1] = g[n + 1]
    OBVIOUS
  <2>1. n + 1 \in 0 .. Len(h) /\ n + 1 # 0 /\ (n + 1) - 1 = n /\ n <= Len(h)
    BY <1>1
  <2>2. f[n] = g[n]
    BY <1>4, <2>1
  <2>3. QED BY <1>2, <2>1, <2>2
<1>5. Nat \subseteq T
  <2> HIDE DEF T
  <2>1. QED BY <1>3, <1>4, SetInduction
<1>6. QED BY <1>1, <1>5

(* So Retained is the last value of any of them.                           *)
LEMMA RetainedIs ==
  ASSUME added \in Seq(Span), NEW g, g = Replay(g, added)
  PROVE  Retained = g[Len(added)]
<1> DEFINE f == CHOOSE f : f = Replay(f, added)
<1>1. f = Replay(f, added)
  BY Zenon
<1>2. Retained = f[Len(added)]
  BY Zenon DEF Retained, Replay, Retain
<1> HIDE DEF f
<1>3. QED BY <1>1, <1>2, ReplayUnique

(* A replay goes on with the next span. *)
LEMMA ReplayMore ==
  ASSUME NEW h \in Seq(Span), NEW span \in Span, NEW g, g = Replay(g, h)
  PROVE  \E f : /\ f = Replay(f, Append(h, span))
                /\ f[Len(h) + 1] = Retain(g[Len(h)], span.trace)
<1> DEFINE N  == Len(h)
           h2 == Append(h, span)
           f  == [n \in 0 .. N + 1 |-> IF n = N + 1 THEN Retain(g[N], span.trace) ELSE g[n]]
<1>1. /\ N \in Nat /\ Len(h2) = N + 1 /\ h2[N + 1] = span
      /\ \A n \in 1 .. N : h2[n] = h[n]
  OBVIOUS
<1> HIDE DEF N, h2
<1>2. \A n \in 0 .. N : g[n] = IF n = 0 THEN <<>> ELSE Retain(g[n - 1], h[n].trace)
  BY Zenon DEF Replay, N
<1>3. /\ f[N + 1] = Retain(g[N], span.trace)
      /\ \A n \in 0 .. N : f[n] = g[n]
      /\ f = [n \in 0 .. N + 1 |-> f[n]]
  BY <1>1
<1> HIDE DEF f
<1>4. \A n \in 0 .. N + 1 : f[n] = IF n = 0 THEN <<>> ELSE Retain(f[n - 1], h2[n].trace)
  <2> SUFFICES ASSUME NEW n \in 0 .. N + 1
               PROVE  f[n] = IF n = 0 THEN <<>> ELSE Retain(f[n - 1], h2[n].trace)
    OBVIOUS
  <2>1. CASE n = N + 1
    <3>1. n # 0 /\ n - 1 = N /\ N \in 0 .. N
      BY <1>1, <2>1
    <3>2. f[n - 1] = g[N] /\ h2[n] = span
      BY <1>1, <1>3, <2>1, <3>1
    <3>3. QED BY <1>3, <2>1, <3>1, <3>2
  <2>2. CASE n # N + 1
    <3>1. n \in 0 .. N /\ (n # 0 => n - 1 \in 0 .. N /\ n \in 1 .. N)
      BY <1>1, <2>2
    <3>2. f[n] = g[n] /\ (n # 0 => f[n - 1] = g[n - 1] /\ h2[n] = h[n])
      BY <1>1, <1>3, <3>1
    <3>3. QED BY <1>2, <3>1, <3>2
  <2>3. QED BY <2>1, <2>2
<1>5. f = Replay(f, h2)
  <2>1. f = [n \in 0 .. N + 1 |-> IF n = 0 THEN <<>> ELSE Retain(f[n - 1], h2[n].trace)]
    BY <1>3, <1>4
  <2>2. QED BY <1>1, <2>1 DEF Replay
<1>6. QED BY <1>3, <1>5 DEF N, h2

(* Add treats the ring as the recursion treats its sequence.               *)
LEMMA RingRetains ==
  ASSUME Inv, ViewFacts, ViewFacts', RingRead, RingRead', NEW span \in Span, Add(span)
  PROVE  RingIDs' = Retain(RingIDs, span.trace)
<1>1. PICK ids \in Seq(TraceIDs) : ids = RingIDs
  BY DEF RingRead
<1>2. /\ DOMAIN ids = 1 .. UsedSlots /\ Len(ids) = UsedSlots /\ UsedSlots \in Nat
      /\ \A i \in 1 .. UsedSlots : ids[i] \in DOMAIN traces
      /\ \A id \in DOMAIN traces : \E i \in 1 .. UsedSlots : ids[i] = id
  BY <1>1 DEF RingRead
<1>3. CASE AddToKnown(span)
  <2>1. span.trace \in DOMAIN traces /\ UNCHANGED <<order, pos, full>>
    BY <1>3 DEF AddToKnown
  <2>2. RingIDs' = RingIDs
    BY <2>1 DEF RingIDs, UsedSlots, Slot
  <2>3. \E i \in DOMAIN ids : ids[i] = span.trace
    BY <1>2, <2>1
  <2>4. QED BY <1>1, <2>2, <2>3 DEF Retain
<1>4. CASE AddNew(span)
  <2>1. span.trace \notin DOMAIN traces /\ span.trace \in TraceIDs
    BY <1>4, SpanNumbers DEF AddNew
  <2>2. ~ \E i \in DOMAIN ids : ids[i] = span.trace
    BY <1>2, <2>1
  <2>3. Log!Open(span)
    BY <1>4, NewOpens
  <2> DEFINE Entry == [id : TraceIDs, spans : Seq(Span)]
  <2>4. PICK v \in Seq(Entry) : v = LogView
    BY DEF ViewFacts, ViewTyped
  <2>5. PICK w \in Seq(Entry) : w = LogView'
    BY DEF ViewFacts, ViewTyped
  <2>6. Len(v) = UsedSlots /\ \A i \in 1 .. Len(v) : v[i].id = ids[i]
    <3>1. Len(v) = UsedSlots
      BY <2>4 DEF ViewFacts, ViewTyped
    <3>2. \A i \in 1 .. UsedSlots :
            v[i] = [id |-> ids[i], spans |-> traces[ids[i]].spans]
      BY <1>1, <2>4 DEF ViewFacts, ViewReads
    <3>3. QED BY <3>1, <3>2
  <2>7. PICK new \in Seq(TraceIDs) : new = RingIDs'
    <3>1. RingIDs' \in Seq(TraceIDs)
      BY DEF RingRead
    <3>2. QED BY <3>1
  <2>8. Len(new) = Len(w) /\ \A i \in 1 .. Len(w) : w[i].id = new[i]
    <3>1. Len(w) = UsedSlots' /\ Len(new) = UsedSlots'
      BY <2>5, <2>7 DEF RingRead, ViewFacts, ViewTyped
    <3>2. \A i \in 1 .. UsedSlots' :
            w[i] = [id |-> new[i], spans |-> traces'[new[i]].spans]
      BY <2>5, <2>7 DEF ViewFacts, ViewReads
    <3>3. QED BY <3>1, <3>2
  <2>9. PICK e \in Entry : e = Log!Opened(span) /\ e.id = span.trace
    <3>1. [id |-> span.trace, spans |-> <<span>>] \in Entry
      BY <2>1
    <3>2. QED BY <3>1 DEF Log!Opened
  <2>10. w = IF Len(v) = MaxTraces THEN Append(Tail(v), e) ELSE Append(v, e)
    BY <2>3, <2>4, <2>5, <2>9 DEF Log!Open
  <2> HIDE DEF Entry
  <2>11. MaxTraces \in Nat \ {0}
    BY MaxTracesAssumption
  <2>12. CASE Len(v) = MaxTraces
    <3>1. w = Append(Tail(v), e)
      BY <2>10, <2>12
    <3>2. Len(w) = Len(v) /\ Len(v) # 0 /\ w[Len(v)] = e
          /\ \A i \in 1 .. Len(v) - 1 : w[i] = v[i + 1]
      BY <2>11, <2>12, <3>1
    <3>3. /\ Append(Tail(ids), span.trace) \in Seq(TraceIDs)
          /\ Len(Append(Tail(ids), span.trace)) = Len(ids)
          /\ Append(Tail(ids), span.trace)[Len(ids)] = span.trace
          /\ \A i \in 1 .. Len(ids) - 1 : Append(Tail(ids), span.trace)[i] = ids[i + 1]
      BY <1>2, <2>1, <2>6, <2>11, <2>12
    <3>4. PICK s \in Seq(TraceIDs) : s = Append(Tail(ids), span.trace)
      BY <3>3
    <3>5. Len(ids) = Len(v) /\ Len(new) = Len(v) /\ Len(s) = Len(v) /\ Len(v) \in Nat
      BY <1>2, <2>6, <2>8, <3>2, <3>3, <3>4
    <3>6. \A i \in 1 .. Len(v) : s[i] = new[i]
      <4> SUFFICES ASSUME NEW i \in 1 .. Len(v) PROVE s[i] = new[i]
        OBVIOUS
      <4>1. w[i].id = new[i]
        BY <2>8, <3>2
      <4>2. CASE i = Len(v)
        BY <2>9, <3>2, <3>3, <3>4, <3>5, <4>1, <4>2
      <4>3. CASE i # Len(v)
        <5>1. i \in 1 .. Len(v) - 1 /\ i + 1 \in 1 .. Len(v)
          BY <3>5, <4>3
        <5>2. w[i] = v[i + 1] /\ v[i + 1].id = ids[i + 1]
          BY <2>6, <3>2, <5>1
        <5>3. s[i] = ids[i + 1]
          BY <3>3, <3>4, <3>5, <5>1
        <5>4. QED BY <4>1, <5>2, <5>3
      <4>4. QED BY <4>2, <4>3
    <3>7. s = new
      BY <3>5, <3>6, SeqEqual
    <3>8. QED BY <1>1, <2>2, <2>7, <2>12, <3>4, <3>5, <3>7 DEF Retain
  <2>13. CASE Len(v) # MaxTraces
    <3>1. w = Append(v, e)
      BY <2>10, <2>13
    <3>2. Len(w) = Len(v) + 1 /\ w[Len(v) + 1] = e /\ \A i \in 1 .. Len(v) : w[i] = v[i]
      BY <3>1
    <3>3. /\ Append(ids, span.trace) \in Seq(TraceIDs)
          /\ Len(Append(ids, span.trace)) = Len(ids) + 1
          /\ Append(ids, span.trace)[Len(ids) + 1] = span.trace
          /\ \A i \in 1 .. Len(ids) : Append(ids, span.trace)[i] = ids[i]
      BY <1>2, <2>1
    <3>4. PICK s \in Seq(TraceIDs) : s = Append(ids, span.trace)
      BY <3>3
    <3>5. Len(ids) = Len(v) /\ Len(new) = Len(v) + 1 /\ Len(s) = Len(v) + 1 /\ Len(v) \in Nat
      BY <1>2, <2>6, <2>8, <3>2, <3>3, <3>4
    <3>6. \A i \in 1 .. Len(v) + 1 : s[i] = new[i]
      <4> SUFFICES ASSUME NEW i \in 1 .. Len(v) + 1 PROVE s[i] = new[i]
        OBVIOUS
      <4>1. w[i].id = new[i]
        BY <2>8, <3>2
      <4>2. CASE i = Len(v) + 1
        BY <2>9, <3>2, <3>3, <3>4, <3>5, <4>1, <4>2
      <4>3. CASE i # Len(v) + 1
        <5>1. i \in 1 .. Len(v)
          BY <3>5, <4>3
        <5>2. w[i] = v[i] /\ v[i].id = ids[i]
          BY <2>6, <3>2, <5>1
        <5>3. s[i] = ids[i]
          BY <3>3, <3>4, <3>5, <5>1
        <5>4. QED BY <4>1, <5>2, <5>3
      <4>4. QED BY <4>2, <4>3
    <3>7. s = new
      BY <3>5, <3>6, SeqEqual
    <3>8. QED BY <1>1, <2>2, <2>7, <2>13, <3>4, <3>5, <3>7 DEF Retain
  <2>14. QED BY <2>12, <2>13
<1>5. QED BY <1>3, <1>4 DEF Add

(* A new store has retained nothing. *)
LEMMA InitReplayed == Init => Replayed
<1> SUFFICES ASSUME Init PROVE Replayed
  OBVIOUS
<1> DEFINE g == [n \in 0 .. 0 |-> <<>>]
<1>1. added = <<>> /\ Len(added) = 0
  BY DEF Init
<1>2. g = Replay(g, added) /\ g[0] = <<>>
  BY <1>1 DEF Replay
<1>3. RingIDs = <<>>
  <2>1. Inv /\ UsedSlots = 0
    BY InitInv DEF Init, UsedSlots
  <2>2. PICK ids \in Seq(TraceIDs) : ids = RingIDs /\ Len(ids) = 0
    BY <2>1, RingFacts DEF RingRead
  <2>3. QED BY <2>2
<1> HIDE DEF g
<1>4. QED BY <1>1, <1>2, <1>3 DEF Replayed

(* Every step keeps the ring a replay of the history.                      *)
LEMMA StepReplayed ==
  ASSUME Inv, ViewFacts, ViewFacts', RingRead, RingRead', Replayed, [Next]_vars
  PROVE  Replayed'
<1>1. added \in Seq(Span)
  BY DEF Inv, TypeOK
<1>2. CASE Submit
  <2>1. PICK span \in Span : Add(span)
    BY <1>2, SubmittedIsSpan DEF Inv
  <2>2. added' = Append(added, span) /\ Len(added') = Len(added) + 1
    BY <1>1, <2>1 DEF Add
  <2>3. PICK g : g = Replay(g, added) /\ g[Len(added)] = RingIDs
    BY Zenon DEF Replayed
  <2>4. PICK f : /\ f = Replay(f, Append(added, span))
                 /\ f[Len(added) + 1] = Retain(g[Len(added)], span.trace)
    BY <1>1, <2>3, ReplayMore
  <2>5. RingIDs' = Retain(RingIDs, span.trace)
    BY <2>1, RingRetains
  <2>6. f = Replay(f, added')
    BY <2>2, <2>4
  <2>7. f[Len(added')] = RingIDs'
    BY <2>2, <2>3, <2>4, <2>5
  <2>8. QED BY <2>6, <2>7 DEF Replayed, Replay, Retain
<1>3. CASE UNCHANGED <<ringVars, added>>
  <2>1. added' = added
    BY <1>3
  <2>2. RingIDs' = RingIDs
    BY <1>3 DEF ringVars, RingIDs, UsedSlots, Slot
  <2>3. QED BY <2>1, <2>2, Zenon DEF Replayed, Replay, Retain
<1>4. CASE \E s \in Subscribers : Subscribe(s) \/ Unsubscribe(s) \/ Receive(s)
  BY <1>3, <1>4 DEF Subscribe, Unsubscribe, Receive
<1>5. CASE UNCHANGED vars
  BY <1>3, <1>5 DEF vars
<1>6. QED BY <1>2, <1>4, <1>5 DEF Next

(* Every page of ListTraces is the window it asks for of the traces that   *)
(* the history of submissions retains, for a ring of any capacity, after   *)
(* any number of submissions and wrap-arounds.                             *)
THEOREM PagesAlwaysWindows == Spec => []PagesAreWindows
<1>1. Inv /\ Replayed => PagesAreWindows
  <2> SUFFICES ASSUME Inv, Replayed PROVE PagesAreWindows
    OBVIOUS
  <2>1. RingRead
    BY RingFacts
  <2>2. Retained = RingIDs
    <3>1. PICK g : g = Replay(g, added) /\ g[Len(added)] = RingIDs
      BY Zenon DEF Replayed
    <3>2. added \in Seq(Span)
      BY DEF Inv, TypeOK
    <3>3. QED BY <3>1, <3>2, RetainedIs
  <2>3. ASSUME NEW offset \in 0 .. MaxTraces + 1, NEW limit \in 0 .. MaxTraces + 1,
               NEW page, page = ListTraces(offset, limit)
        PROVE  [i \in DOMAIN page |-> page[i].id] = Window(Retained, offset, limit)
    <3>1. offset \in Nat /\ limit \in Nat
      BY MaxTracesAssumption
    <3>2. [i \in DOMAIN page |-> page[i].id] = Window(RingIDs, offset, limit)
      BY <2>1, <2>3, <3>1, PageIsWindow
    <3>3. QED BY <2>2, <3>2, Zenon
  <2>4. ASSUME NEW id \in TraceIDs
        PROVE  GetTrace(id) # {} <=> \E i \in DOMAIN Retained : Retained[i] = id
    <3>1. PICK ids \in Seq(TraceIDs) : ids = RingIDs
      BY <2>1 DEF RingRead
    <3>2. /\ DOMAIN ids = 1 .. UsedSlots
          /\ \A i \in 1 .. UsedSlots : ids[i] \in DOMAIN traces
          /\ \A t \in DOMAIN traces : \E i \in 1 .. UsedSlots : ids[i] = t
      BY <2>1, <3>1 DEF RingRead
    <3>3. GetTrace(id) # {} <=> id \in DOMAIN traces
      BY DEF GetTrace
    <3>4. QED BY <2>2, <3>1, <3>2, <3>3
  <2>5. QED BY <2>3, <2>4, Zenon DEF PagesAreWindows
<1>2. Inv /\ ViewFacts /\ ViewFacts' /\ RingRead /\ RingRead' /\ Replayed /\ [Next]_vars
        => Replayed'
  BY StepReplayed
<1>3. QED BY <1>1, <1>2, ViewEntries, RingFacts, InitReplayed, InvHolds, PTL DEF Spec
=============================================================================
