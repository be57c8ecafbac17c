-------------------------- MODULE DetailViewProofs --------------------------
(***************************************************************************)
(* Theorems about DetailView, for any number of traces, spans, acts of the *)
(* user, requests and connections.                                         *)
(*                                                                         *)
(* The four properties rest on one invariant.  As long as the user has not *)
(* acted during a fetch, there is at most one fetch, of the selected trace *)
(* (Selection).  An element that waits for a result is in the panel of its *)
(* own trace (Waiting).  A transaction has executed what its program       *)
(* counter says (Transactions).  Every connection is free or held by one   *)
(* request (Connections).                                                  *)
(***************************************************************************)
EXTENDS DetailView, SequenceTheorems, FiniteSetTheorems, TLAPS

Panel   == [id : TraceIDs \cup {NoID}, n : Nat]
Message == [id : TraceIDs, n : Nat]
Fetch   == [id : TraceIDs, state : {"asked", "answered"}, reply : Nat]
Request == [id : TraceIDs \cup {NoID}, attached : BOOLEAN, cancelled : BOOLEAN,
            pc : {"asked", "begin", "readonly", "timeout", "explain", "rollback", "answered", "done"},
            tx : SUBSET {"readonly", "timeout", "explain"}]

Types ==
  /\ stored \in [TraceIDs -> Nat] /\ added \in Nat
  /\ stream \in Seq(Message) /\ list \subseteq TraceIDs
  /\ current \in TraceIDs \cup {NoID} /\ panel \in Panel
  /\ fetches \in Seq(Fetch) /\ disturbed \in BOOLEAN
  /\ dsn \in {"", "good", "bad"} /\ pool \in {"none", "made", "failed"} /\ free \in Nat
  /\ jobs \in Seq(Request)

(* What is under way for the panel. *)
Selection ==
  ~ disturbed =>
    /\ fetches = <<>> => panel.id = current
    /\ fetches # <<>> => Len(fetches) = 1 /\ fetches[1].id = current

(* The results the panel shows, and those it waits for. *)
Waiting ==
  /\ results \subseteq {panel.id}
  /\ \A i \in 1 .. Len(jobs) : jobs[i].attached => jobs[i].id = panel.id

(* What a transaction has executed. *)
Executed(j) ==
  /\ j.pc \in {"asked", "begin", "readonly"} => j.tx = {}
  /\ j.pc = "timeout" => j.tx = {"readonly"}
  /\ j.pc = "explain" => j.tx = {"readonly", "timeout"}
  /\ "explain" \in j.tx => {"readonly", "timeout"} \subseteq j.tx

Transactions == \A i \in 1 .. Len(jobs) : Executed(jobs[i])

Connections == PoolSurvives

Inv == Types /\ Selection /\ Waiting /\ Transactions /\ Connections

-----------------------------------------------------------------------------
(* Requests. *)

(* One request changes. *)
LEMMA OneChanges ==
  ASSUME NEW js \in Seq(Request), NEW i \in 1 .. Len(js), NEW x \in Request, NEW ks,
         ks = [js EXCEPT ![i] = x]
  PROVE  /\ ks \in Seq(Request) /\ Len(ks) = Len(js) /\ ks[i] = x
         /\ \A k \in 1 .. Len(js) : k # i => ks[k] = js[k]
OBVIOUS

Held(j) == j.pc \in {"readonly", "timeout", "explain", "rollback"}

(* The connections in use, when a request takes one, gives it back or does *)
(* neither.                                                                *)
LEMMA HoldingChange ==
  ASSUME jobs \in Seq(Request), jobs' \in Seq(Request), Len(jobs') = Len(jobs),
         NEW i \in 1 .. Len(jobs), \A k \in 1 .. Len(jobs) : k # i => jobs'[k] = jobs[k]
  PROVE  /\ Cardinality(Holding) \in Nat /\ Cardinality(Holding') \in Nat
         /\ (Held(jobs'[i]) <=> Held(jobs[i])) => Cardinality(Holding') = Cardinality(Holding)
         /\ Held(jobs'[i]) /\ ~ Held(jobs[i]) => Cardinality(Holding') = Cardinality(Holding) + 1
         /\ ~ Held(jobs'[i]) /\ Held(jobs[i]) => Cardinality(Holding) = Cardinality(Holding') + 1
<1>1. /\ Holding = {k \in 1 .. Len(jobs) : Held(jobs[k])}
      /\ Holding' = {k \in 1 .. Len(jobs) : Held(jobs'[k])}
  BY DEF Holding, Held
<1>2. IsFiniteSet(Holding) /\ IsFiniteSet(Holding')
  <2>1. IsFiniteSet(1 .. Len(jobs))
    <3>1. 1 \in Int /\ Len(jobs) \in Int
      OBVIOUS
    <3>2. QED BY <3>1, FS_Interval
  <2>2. Holding \subseteq 1 .. Len(jobs) /\ Holding' \subseteq 1 .. Len(jobs)
    BY <1>1
  <2>3. QED BY <2>1, <2>2, FS_Subset
<1>3. Cardinality(Holding) \in Nat /\ Cardinality(Holding') \in Nat
  BY <1>2, FS_CardinalityType
<1>4. (Held(jobs'[i]) <=> Held(jobs[i])) => Holding' = Holding
  BY <1>1
<1>5. Held(jobs'[i]) /\ ~ Held(jobs[i]) => Holding' = Holding \cup {i} /\ i \notin Holding
  BY <1>1
<1>6. ~ Held(jobs'[i]) /\ Held(jobs[i]) => Holding = Holding' \cup {i} /\ i \notin Holding'
  BY <1>1
<1>7. \A S : IsFiniteSet(S) /\ i \notin S => Cardinality(S \cup {i}) = Cardinality(S) + 1
  BY FS_AddElement
<1>8. QED BY <1>2, <1>3, <1>4, <1>5, <1>6, <1>7, Zenon

(* A step of one request. *)
LEMMA RequestStep ==
  ASSUME Inv, NEW i \in 1 .. Len(jobs), NEW x \in Request, jobs' = [jobs EXCEPT ![i] = x],
         Executed(x), x.attached => x.id = panel.id, results' \subseteq {panel.id},
         UNCHANGED <<storeVars, stream, pageVars, dsn>>,
         pool' \in {"none", "made", "failed"}, pool' = "failed" => dsn = "bad", free' \in Nat,
         \/ (Held(x) <=> Held(jobs[i])) /\ free' = free
         \/ Held(x) /\ ~ Held(jobs[i]) /\ free' + 1 = free
         \/ ~ Held(x) /\ Held(jobs[i]) /\ free' = free + 1
  PROVE  Inv'
<1>1. /\ jobs \in Seq(Request) /\ jobs' \in Seq(Request) /\ Len(jobs') = Len(jobs) /\ jobs'[i] = x
      /\ \A k \in 1 .. Len(jobs) : k # i => jobs'[k] = jobs[k]
  <2>1. jobs \in Seq(Request)
    BY DEF Inv, Types
  <2>2. QED BY <2>1, OneChanges
<1>2. UNCHANGED <<stored, added, stream, list, current, panel, fetches, acts, disturbed, dsn>>
  BY DEF storeVars, pageVars
<1>3. Types'
  BY <1>1, <1>2 DEF Inv, Types
<1>4. Selection'
  BY <1>2 DEF Inv, Selection
<1>5. Waiting'
  BY <1>1, <1>2 DEF Inv, Waiting
<1>6. Transactions'
  BY <1>1 DEF Inv, Transactions, Executed
<1>7. Connections'
  <2>1. free \in Nat /\ free + Cardinality(Holding) = Conns
    BY DEF Inv, Types, Connections, PoolSurvives
  <2>2. /\ Cardinality(Holding) \in Nat /\ Cardinality(Holding') \in Nat
        /\ (Held(x) <=> Held(jobs[i])) => Cardinality(Holding') = Cardinality(Holding)
        /\ Held(x) /\ ~ Held(jobs[i]) => Cardinality(Holding') = Cardinality(Holding) + 1
        /\ ~ Held(x) /\ Held(jobs[i]) => Cardinality(Holding) = Cardinality(Holding') + 1
    BY <1>1, HoldingChange
  <2>3. free' + Cardinality(Holding') = Conns
    <3>1. PICK a \in Nat, b \in Nat : a = Cardinality(Holding) /\ b = Cardinality(Holding')
      BY <2>2
    <3>2. free + a = Conns /\ free \in Nat /\ free' \in Nat
      BY <2>1, <3>1
    <3>3. free' + b = free + a
      <4>1. CASE (Held(x) <=> Held(jobs[i])) /\ free' = free
        BY <2>2, <3>1, <4>1
      <4>2. CASE Held(x) /\ ~ Held(jobs[i]) /\ free' + 1 = free
        <5>1. b = a + 1 /\ free = free' + 1
          BY <2>2, <3>1, <4>2
        <5>2. QED BY <3>1, <3>2, <5>1
      <4>3. CASE ~ Held(x) /\ Held(jobs[i]) /\ free' = free + 1
        BY <2>2, <3>1, <3>2, <4>3
      <4>4. QED BY <4>1, <4>2, <4>3
    <3>4. QED BY <3>1, <3>2, <3>3
  <2>4. QED BY <1>2, <2>3 DEF Connections, PoolSurvives
<1>8. QED BY <1>3, <1>4, <1>5, <1>6, <1>7 DEF Inv

-----------------------------------------------------------------------------
(* The panel. *)

(* Nothing changes for the requests. *)
LEMMA RequestsStay ==
  ASSUME Inv, UNCHANGED <<jobs, results, dbVars>>, panel'.id = panel.id
  PROVE  Waiting' /\ Transactions' /\ Connections'
BY DEF Inv, Waiting, Transactions, Executed, Connections, PoolSurvives, Holding, dbVars

(* New contents of the panel wait for no result. *)
LEMMA PanelStep ==
  ASSUME Inv, NEW shown \in Panel, Replace(shown), UNCHANGED dbVars
  PROVE  /\ panel' = shown /\ jobs' \in Seq(Request)
         /\ Waiting' /\ Transactions' /\ Connections'
<1>1. /\ panel' = shown /\ results' = {}
      /\ jobs' = [i \in DOMAIN jobs |-> [jobs[i] EXCEPT !.attached = FALSE]]
      /\ jobs \in Seq(Request)
  BY DEF Replace, Inv, Types
<1>2. /\ jobs' \in Seq(Request) /\ Len(jobs') = Len(jobs)
      /\ \A i \in 1 .. Len(jobs) : /\ jobs'[i].attached = FALSE /\ jobs'[i].pc = jobs[i].pc
                                   /\ jobs'[i].tx = jobs[i].tx
  <2>1. \A i \in 1 .. Len(jobs) : [jobs[i] EXCEPT !.attached = FALSE] \in Request
    <3> SUFFICES ASSUME NEW j \in Request PROVE [j EXCEPT !.attached = FALSE] \in Request
      BY <1>1
    <3>1. QED BY DEF Request
  <2>2. jobs' \in Seq(Request) /\ Len(jobs') = Len(jobs)
    <3>1. DOMAIN jobs = 1 .. Len(jobs) /\ Len(jobs) \in Nat
      BY <1>1
    <3>2. jobs' \in [1 .. Len(jobs) -> Request]
      BY <1>1, <2>1, <3>1
    <3>3. QED BY <3>1, <3>2
  <2>3. \A i \in 1 .. Len(jobs) : /\ jobs'[i].attached = FALSE /\ jobs'[i].pc = jobs[i].pc
                                  /\ jobs'[i].tx = jobs[i].tx
    BY <1>1 DEF Request
  <2>4. QED BY <2>2, <2>3
<1>3. Waiting'
  BY <1>1, <1>2 DEF Waiting
<1>4. Transactions'
  BY <1>2 DEF Inv, Transactions, Executed
<1>5. Connections'
  <2>1. Holding' = Holding
    BY <1>1, <1>2 DEF Holding
  <2>2. QED BY <2>1 DEF Inv, Connections, PoolSurvives, dbVars
<1>6. QED BY <1>1, <1>2, <1>3, <1>4, <1>5

-----------------------------------------------------------------------------
(* The inductive invariant. *)

(* Nothing is selected, shown or asked. *)
LEMMA InitInv == Init => Inv
<1> SUFFICES ASSUME Init PROVE Inv
  OBVIOUS
<1>1. /\ <<>> \in Seq(Message) /\ <<>> \in Seq(Fetch) /\ <<>> \in Seq(Request)
      /\ Len(<<>>) = 0 /\ DOMAIN <<>> = {}
  OBVIOUS
<1>2. Types
  <2>1. stream \in Seq(Message) /\ fetches \in Seq(Fetch) /\ jobs \in Seq(Request)
    BY <1>1, Zenon DEF Init
  <2>2. panel \in Panel
    BY DEF Init, NoPanel, Panel
  <2>3. QED BY <2>1, <2>2, ConnsAssumption DEF Init, Types
<1>3. Selection
  BY DEF Init, Selection, NoPanel
<1>4. Waiting /\ Transactions
  <2>1. results = {} /\ 1 .. Len(jobs) = {}
    <3>1. results = {} /\ Len(jobs) = 0
      BY <1>1, Zenon DEF Init
    <3>2. QED BY <3>1
  <2>2. QED BY <2>1 DEF Waiting, Transactions
<1>5. Connections
  <2>1. Holding = {}
    BY <1>1 DEF Init, Holding
  <2>2. Cardinality({}) = 0
    BY FS_EmptySet
  <2>3. free = Conns /\ pool = "none" /\ free + 0 = Conns
    <3>1. free = Conns /\ pool = "none"
      BY DEF Init
    <3>2. Conns + 0 = Conns
      BY ConnsAssumption
    <3>3. QED BY <3>1, <3>2
  <2>4. QED BY <2>1, <2>2, <2>3 DEF Connections, PoolSurvives
<1>6. QED BY <1>2, <1>3, <1>4, <1>5 DEF Inv

(* A sequence of one fetch that loses it. *)
LEMMA Removed ==
  ASSUME NEW S, NEW s \in Seq(S), NEW i \in 1 .. Len(s)
  PROVE  RemoveAt(s, i) \in Seq(S) /\ Len(RemoveAt(s, i)) = Len(s) - 1
<1>1. i - 1 \in 0 .. Len(s) /\ i + 1 \in 1 .. Len(s) + 1 /\ Len(s) \in Nat
  OBVIOUS
<1>2. SubSeq(s, 1, i - 1) \in Seq(S) /\ Len(SubSeq(s, 1, i - 1)) = i - 1
  BY <1>1
<1>3. SubSeq(s, i + 1, Len(s)) \in Seq(S) /\ Len(SubSeq(s, i + 1, Len(s))) = Len(s) - i
  BY <1>1
<1>4. \A a, b \in Seq(S) : a \o b \in Seq(S) /\ Len(a \o b) = Len(a) + Len(b)
  OBVIOUS
<1>5. (i - 1) + (Len(s) - i) = Len(s) - 1
  BY <1>1
<1>6. QED BY <1>2, <1>3, <1>4, <1>5 DEF RemoveAt

(* What happens to the panel. *)
LEMMA PageStep ==
  ASSUME Inv,
         \/ \E id \in TraceIDs : showDetail(id)
         \/ Handle \/ ClickClose \/ ClickSpan
         \/ \E i \in DOMAIN fetches : TraceArrives(i)
  PROVE  Inv'
<1>1. /\ Types /\ Selection /\ NoPanel \in Panel /\ panel \in Panel
      /\ fetches \in Seq(Fetch) /\ stream \in Seq(Message)
  BY DEF Inv, Types, NoPanel, Panel
<1>2. ASSUME NEW id \in TraceIDs, showDetail(id) PROVE Inv'
  <2>1. /\ disturbed' = (fetches # <<>>)
        /\ UNCHANGED <<stored, added, stream, list, dsn, pool, free>>
    BY <1>2 DEF showDetail, Act, storeVars, dbVars
  <2>2. CASE current = id
    <3>1. current' = NoID /\ Replace(NoPanel) /\ UNCHANGED fetches
      BY <1>2, <2>2 DEF showDetail, closeDetail
    <3>2. panel' = NoPanel /\ jobs' \in Seq(Request) /\ Waiting' /\ Transactions' /\ Connections'
      BY <1>1, <2>1, <3>1, PanelStep DEF dbVars
    <3>3. Types'
      BY <1>1, <2>1, <3>1, <3>2 DEF Types
    <3>4. Selection'
      BY <2>1, <3>1, <3>2 DEF Selection, NoPanel
    <3>5. QED BY <3>2, <3>3, <3>4 DEF Inv
  <2>3. CASE current # id
    <3> DEFINE f == [id |-> id, state |-> "asked", reply |-> 0]
    <3>1. /\ current' = id /\ fetches' = Append(fetches, f) /\ UNCHANGED <<panel, results, jobs>>
      BY <1>2, <2>3 DEF showDetail
    <3>2. f \in Fetch
      BY DEF Fetch
    <3>3. fetches' \in Seq(Fetch)
      BY <1>1, <3>1, <3>2
    <3>4. Types'
      BY <1>1, <2>1, <3>1, <3>3 DEF Types
    <3>5. Selection'
      <4>1. fetches = <<>> => Len(fetches') = 1 /\ fetches'[1] = f
        BY <1>1, <3>1, <3>2
      <4>2. fetches' # <<>>
        BY <1>1, <3>1
      <4>3. f.id = id
        OBVIOUS
      <4>4. ~ disturbed' => fetches = <<>>
        BY <2>1
      <4> HIDE DEF f
      <4>5. QED BY <3>1, <4>1, <4>2, <4>3, <4>4 DEF Selection
    <3>6. Waiting' /\ Transactions' /\ Connections'
      BY <2>1, <3>1, RequestsStay DEF dbVars
    <3>7. QED BY <3>4, <3>5, <3>6 DEF Inv
  <2>4. QED BY <2>2, <2>3
<1>3. CASE Handle
  <2> DEFINE m == Head(stream)
  <2>1. /\ stream # <<>> /\ updateTrace(m) /\ stream' = Tail(stream)
        /\ UNCHANGED <<stored, added, current, fetches, disturbed, dsn, pool, free>>
    BY <1>3 DEF Handle, storeVars, dbVars
  <2>2. m \in Message /\ stream' \in Seq(Message)
    BY <1>1, <2>1
  <2>3. m.id \in TraceIDs /\ m.n \in Nat /\ list' \subseteq TraceIDs
    BY <1>1, <2>1, <2>2 DEF Message, updateTrace, Types
  <2>4. CASE current = m.id
    <3>1. Replace([id |-> m.id, n |-> m.n]) /\ [id |-> m.id, n |-> m.n] \in Panel
      BY <2>1, <2>3, <2>4 DEF updateTrace, renderDetail, Panel
    <3>2. /\ panel' = [id |-> m.id, n |-> m.n] /\ jobs' \in Seq(Request)
          /\ Waiting' /\ Transactions' /\ Connections'
      BY <2>1, <3>1, PanelStep DEF dbVars
    <3>3. Types'
      BY <1>1, <2>1, <2>2, <2>3, <3>1, <3>2 DEF Types
    <3>4. Selection'
      BY <1>1, <2>1, <2>4, <3>2 DEF Selection
    <3>5. QED BY <3>2, <3>3, <3>4 DEF Inv
  <2>5. CASE current # m.id
    <3>1. UNCHANGED <<panel, results, jobs>>
      BY <2>1, <2>5 DEF updateTrace
    <3>2. Types' /\ Selection'
      BY <1>1, <2>1, <2>2, <2>3, <3>1 DEF Types, Selection
    <3>3. Waiting' /\ Transactions' /\ Connections'
      BY <2>1, <3>1, RequestsStay DEF dbVars
    <3>4. QED BY <3>2, <3>3 DEF Inv
  <2>6. QED BY <2>4, <2>5
<1>4. CASE ClickClose
  <2>1. /\ current' = NoID /\ Replace(NoPanel) /\ disturbed' = (fetches # <<>>)
        /\ UNCHANGED <<stored, added, stream, list, fetches, dsn, pool, free>>
    BY <1>4 DEF ClickClose, Act, closeDetail, storeVars, dbVars
  <2>2. panel' = NoPanel /\ jobs' \in Seq(Request) /\ Waiting' /\ Transactions' /\ Connections'
    BY <1>1, <2>1, PanelStep DEF dbVars
  <2>3. Types' /\ Selection'
    BY <1>1, <2>1, <2>2 DEF Types, Selection, NoPanel
  <2>4. QED BY <2>2, <2>3 DEF Inv
<1>5. CASE ClickSpan
  <2>1. /\ Replace([id |-> panel.id, n |-> panel.n])
        /\ UNCHANGED <<stored, added, stream, list, current, fetches, disturbed, dsn, pool, free>>
    BY <1>5 DEF ClickSpan, renderDetail, storeVars, dbVars
  <2>2. [id |-> panel.id, n |-> panel.n] \in Panel
    BY <1>1 DEF Panel
  <2>3. /\ panel' = [id |-> panel.id, n |-> panel.n] /\ jobs' \in Seq(Request)
        /\ Waiting' /\ Transactions' /\ Connections'
    BY <2>1, <2>2, PanelStep DEF dbVars
  <2>4. Types' /\ Selection'
    BY <1>1, <2>1, <2>2, <2>3 DEF Types, Selection
  <2>5. QED BY <2>3, <2>4 DEF Inv
<1>6. ASSUME NEW i \in DOMAIN fetches, TraceArrives(i) PROVE Inv'
  <2> DEFINE f == fetches[i]
  <2>1. i \in 1 .. Len(fetches) /\ f \in Fetch /\ f.id \in TraceIDs /\ f.reply \in Nat
    <3>1. i \in 1 .. Len(fetches) /\ f \in Fetch
      BY <1>1
    <3>2. QED BY <3>1 DEF Fetch
  <2>2. /\ fetches' = RemoveAt(fetches, i)
        /\ UNCHANGED <<stored, added, stream, disturbed, dsn, pool, free>>
    BY <1>6 DEF TraceArrives, storeVars, dbVars
  <2>3. fetches' \in Seq(Fetch) /\ Len(fetches') = Len(fetches) - 1
    BY <1>1, <2>1, <2>2, Removed
  <2>4. ~ disturbed' => fetches' = <<>> /\ f.id = current
    <3>1. ~ disturbed => Len(fetches) = 1 /\ fetches[1].id = current
      BY <1>1, <2>1 DEF Selection
    <3>2. ~ disturbed => i = 1 /\ Len(fetches') = 0
      <4>1. ~ disturbed => Len(fetches) = 1
        BY <3>1
      <4>2. Len(fetches) = 1 => i = 1 /\ Len(fetches') = 0
        BY <2>1, <2>3
      <4>3. QED BY <4>1, <4>2
    <3>3. Len(fetches') = 0 => fetches' = <<>>
      BY <2>3
    <3>4. QED BY <2>2, <3>1, <3>2, <3>3
  <2>5. CASE f.reply = 0
    <3>1. list' \subseteq TraceIDs /\ current' = NoID /\ Replace(NoPanel)
      BY <1>1, <1>6, <2>5 DEF TraceArrives, closeDetail, Types
    <3>2. panel' = NoPanel /\ jobs' \in Seq(Request) /\ Waiting' /\ Transactions' /\ Connections'
      BY <1>1, <2>2, <3>1, PanelStep DEF dbVars
    <3>3. Types'
      BY <1>1, <2>2, <2>3, <3>1, <3>2 DEF Types
    <3>4. Selection'
      BY <2>4, <3>1, <3>2 DEF Selection, NoPanel
    <3>5. QED BY <3>2, <3>3, <3>4 DEF Inv
  <2>6. CASE f.reply # 0
    <3>1. Replace([id |-> f.id, n |-> f.reply]) /\ UNCHANGED <<list, current>>
      BY <1>6, <2>6 DEF TraceArrives, renderDetail
    <3>2. [id |-> f.id, n |-> f.reply] \in Panel
      BY <2>1 DEF Panel
    <3>3. /\ panel' = [id |-> f.id, n |-> f.reply] /\ jobs' \in Seq(Request)
          /\ Waiting' /\ Transactions' /\ Connections'
      BY <2>2, <3>1, <3>2, PanelStep DEF dbVars
    <3>4. Types'
      BY <1>1, <2>2, <2>3, <3>1, <3>2, <3>3 DEF Types
    <3>5. Selection'
      BY <2>4, <3>1, <3>3 DEF Selection
    <3>6. QED BY <3>3, <3>4, <3>5 DEF Inv
  <2>7. QED BY <2>5, <2>6
<1>7. QED BY <1>2, <1>3, <1>4, <1>5, <1>6

(* What happens elsewhere. *)
LEMMA OtherStep ==
  ASSUME Inv,
         \/ \E id \in TraceIDs : Add(id) \/ Evict(id)
         \/ ClickExplain
         \/ \E i \in DOMAIN fetches : GetTrace(i) \/ FetchFails(i)
  PROVE  Inv'
<1>1. /\ Types /\ Selection /\ stored \in [TraceIDs -> Nat] /\ added \in Nat
      /\ fetches \in Seq(Fetch) /\ stream \in Seq(Message) /\ jobs \in Seq(Request)
      /\ panel \in Panel
  BY DEF Inv, Types
<1>2. ASSUME NEW id \in TraceIDs, Add(id) \/ Evict(id) PROVE Inv'
  <2>1. UNCHANGED <<list, current, panel, fetches, disturbed, results, dsn, pool, free, jobs>>
    BY <1>2 DEF Add, Evict, pageVars, dbVars
  <2>2. stored' \in [TraceIDs -> Nat] /\ added' \in Nat
    BY <1>1, <1>2 DEF Add, Evict
  <2>3. stream' \in Seq(Message)
    <3>1. [id |-> id, n |-> added + 1] \in Message
      BY <1>1 DEF Message
    <3>2. Append(stream, [id |-> id, n |-> added + 1]) \in Seq(Message)
      BY <1>1, <3>1
    <3>3. QED BY <1>1, <1>2, <3>2, Zenon DEF Add, Evict
  <2>4. Types' /\ Selection'
    BY <1>1, <2>1, <2>2, <2>3 DEF Types, Selection
  <2>5. Waiting' /\ Transactions' /\ Connections'
    BY <2>1, RequestsStay DEF dbVars
  <2>6. QED BY <2>4, <2>5 DEF Inv
<1>3. CASE ClickExplain
  <2> DEFINE j == [id |-> panel.id, attached |-> TRUE, cancelled |-> FALSE, pc |-> "asked", tx |-> {}]
  <2>1. /\ jobs' = Append(jobs, j)
        /\ UNCHANGED <<stored, added, stream, list, current, panel, fetches, disturbed, results, dsn,
                       pool, free>>
    BY <1>3 DEF ClickExplain, storeVars, dbVars
  <2>2. j \in Request /\ j.id = panel.id /\ Executed(j) /\ ~ Held(j)
    BY <1>1 DEF Request, Panel, Executed, Held
  <2> HIDE DEF j
  <2>3. /\ jobs' \in Seq(Request) /\ Len(jobs') = Len(jobs) + 1 /\ Len(jobs) \in Nat
        /\ \A i \in 1 .. Len(jobs') : \/ i \in 1 .. Len(jobs) /\ jobs'[i] = jobs[i]
                                      \/ i \notin 1 .. Len(jobs) /\ jobs'[i] = j
        /\ \A i \in 1 .. Len(jobs) : i \in 1 .. Len(jobs')
    BY <1>1, <2>1, <2>2
  <2>4. Types' /\ Selection'
    BY <1>1, <2>1, <2>3 DEF Types, Selection
  <2>5. Waiting' /\ Transactions'
    BY <2>1, <2>2, <2>3 DEF Inv, Waiting, Transactions, Executed
  <2>6. Connections'
    <3>1. /\ Holding = {i \in 1 .. Len(jobs) : Held(jobs[i])}
          /\ Holding' = {i \in 1 .. Len(jobs') : Held(jobs'[i])}
      BY <1>1, <2>3 DEF Holding, Held
    <3>2. Holding' = Holding
      BY <2>2, <2>3, <3>1
    <3>3. QED BY <2>1, <3>2 DEF Inv, Connections, PoolSurvives
  <2>7. QED BY <2>4, <2>5, <2>6 DEF Inv
<1>4. ASSUME NEW i \in DOMAIN fetches, GetTrace(i) \/ FetchFails(i) PROVE Inv'
  <2>1. UNCHANGED <<stored, added, stream, list, current, panel, results, dsn, pool, free, jobs>>
    BY <1>4 DEF GetTrace, FetchFails, storeVars, dbVars
  <2>2. i \in 1 .. Len(fetches) /\ fetches[i] \in Fetch
    BY <1>1, <1>4
  <2>3. CASE GetTrace(i)
    <3> DEFINE g == [fetches[i] EXCEPT !.state = "answered", !.reply = stored[fetches[i].id]]
    <3>1. fetches' = [fetches EXCEPT ![i] = g] /\ UNCHANGED disturbed
      BY <2>3 DEF GetTrace
    <3>2. g \in Fetch /\ g.id = fetches[i].id
      <4>1. \A f \in Fetch : \A n \in Nat :
              /\ [f EXCEPT !.state = "answered", !.reply = n] \in Fetch
              /\ [f EXCEPT !.state = "answered", !.reply = n].id = f.id
        BY DEF Fetch
      <4>2. stored[fetches[i].id] \in Nat
        BY <1>1, <2>2 DEF Fetch
      <4>3. QED BY <2>2, <4>1, <4>2
    <3> HIDE DEF g
    <3>3. /\ fetches' \in Seq(Fetch) /\ Len(fetches') = Len(fetches)
          /\ \A k \in 1 .. Len(fetches) : fetches'[k].id = fetches[k].id
      BY <1>1, <2>2, <3>1, <3>2
    <3>4. Types'
      BY <1>1, <2>1, <3>1, <3>3 DEF Types
    <3>5. Selection'
      <4>1. fetches # <<>> /\ fetches' # <<>> /\ (Len(fetches) = 1 => fetches'[1].id = fetches[1].id)
        BY <1>1, <2>2, <3>3
      <4>2. QED BY <1>1, <2>1, <3>1, <3>3, <4>1 DEF Selection
    <3>6. QED BY <2>1, <3>4, <3>5, RequestsStay DEF Inv, dbVars
  <2>4. CASE FetchFails(i)
    <3>1. fetches' = RemoveAt(fetches, i) /\ disturbed' = TRUE
      BY <2>4 DEF FetchFails
    <3>2. fetches' \in Seq(Fetch)
      BY <1>1, <2>2, <3>1, Removed
    <3>3. Types' /\ Selection'
      BY <1>1, <2>1, <3>1, <3>2 DEF Types, Selection
    <3>4. QED BY <2>1, <3>3, RequestsStay DEF Inv, dbVars
  <2>5. QED BY <1>4, <2>3, <2>4
<1>5. QED BY <1>2, <1>3, <1>4

(* What happens on the server, and the result that comes from it. *)
LEMMA ServerStep ==
  ASSUME Inv, NEW i \in DOMAIN jobs, Cancel(i) \/ JobStep(i)
  PROVE  Inv'
<1>1. /\ i \in 1 .. Len(jobs) /\ results \subseteq {panel.id}
      /\ pool \in {"none", "made", "failed"} /\ free \in Nat /\ dsn \in {"", "good", "bad"}
      /\ pool = "failed" => dsn = "bad"
  <2>1. jobs \in Seq(Request)
    BY DEF Inv, Types
  <2>2. i \in 1 .. Len(jobs)
    BY <2>1
  <2>3. pool \in {"none", "made", "failed"} /\ free \in Nat /\ dsn \in {"", "good", "bad"}
    BY DEF Inv, Types
  <2>4. results \subseteq {panel.id} /\ (pool = "failed" => dsn = "bad")
    BY DEF Inv, Waiting, Connections, PoolSurvives
  <2>5. QED BY <2>2, <2>3, <2>4
<1>2. PICK j \in Request : j = jobs[i]
  <2>1. jobs \in Seq(Request)
    BY DEF Inv, Types
  <2>2. jobs[i] \in Request
    BY <2>1
  <2>3. QED BY <2>2
<1>3. Executed(j) /\ (j.attached => j.id = panel.id)
  BY <1>1, <1>2 DEF Inv, Waiting, Transactions
<1>4. \A pc \in {"begin", "readonly", "timeout", "explain", "rollback", "answered"} :
        /\ [j EXCEPT !.pc = pc] \in Request /\ [j EXCEPT !.pc = pc].pc = pc
        /\ [j EXCEPT !.pc = pc].attached = j.attached /\ [j EXCEPT !.pc = pc].id = j.id
        /\ [j EXCEPT !.pc = pc].tx = j.tx
  BY DEF Request
<1>5. ASSUME NEW pc \in {"begin", "readonly", "timeout", "explain", "rollback", "answered"},
             jobs' = [jobs EXCEPT ![i].pc = pc], UNCHANGED <<storeVars, stream, pageVars, results, dsn>>,
             Executed([j EXCEPT !.pc = pc]),
             pool' \in {"none", "made", "failed"}, pool' = "failed" => dsn = "bad", free' \in Nat,
             \/ (Held([j EXCEPT !.pc = pc]) <=> Held(j)) /\ free' = free
             \/ Held([j EXCEPT !.pc = pc]) /\ ~ Held(j) /\ free' + 1 = free
             \/ ~ Held([j EXCEPT !.pc = pc]) /\ Held(j) /\ free' = free + 1
      PROVE  Inv'
  <2>1. PICK x \in Request : x = [j EXCEPT !.pc = pc]
    BY <1>4
  <2>2. jobs' = [jobs EXCEPT ![i] = x] /\ Executed(x) /\ (x.attached => x.id = panel.id)
    BY <1>2, <1>3, <1>4, <1>5, <2>1
  <2>3. results' \subseteq {panel.id}
    BY <1>1, <1>5
  <2>4. \/ (Held(x) <=> Held(jobs[i])) /\ free' = free
        \/ Held(x) /\ ~ Held(jobs[i]) /\ free' + 1 = free
        \/ ~ Held(x) /\ Held(jobs[i]) /\ free' = free + 1
    BY <1>2, <1>5, <2>1
  <2>5. QED BY <1>1, <1>5, <2>2, <2>3, <2>4, RequestStep
<1>6. CASE Cancel(i)
  <2>1. PICK x \in Request : x = [j EXCEPT !.cancelled = TRUE]
    BY DEF Request
  <2>2. x.pc = j.pc /\ x.tx = j.tx /\ x.id = j.id /\ x.attached = j.attached
    BY <2>1 DEF Request
  <2>3. /\ jobs' = [jobs EXCEPT ![i] = x]
        /\ UNCHANGED <<storeVars, stream, pageVars, results, dsn, pool, free>>
    BY <1>2, <1>6, <2>1 DEF Cancel, dbVars
  <2>4. Executed(x) /\ (x.attached => x.id = panel.id) /\ (Held(x) <=> Held(jobs[i]))
    BY <1>2, <1>3, <2>2 DEF Executed, Held
  <2>5. QED BY <1>1, <2>3, <2>4, RequestStep
<1>7. CASE HandleExplain(i)
  <2>1. PICK pc \in {"begin", "answered"} : Job(i, "asked", pc)
    BY <1>7 DEF HandleExplain
  <2>2. /\ j.pc = "asked" /\ jobs' = [jobs EXCEPT ![i].pc = pc]
        /\ UNCHANGED <<storeVars, stream, pageVars, results, dsn>>
    BY <1>2, <2>1 DEF Job
  <2>3. free' = free /\ pool' \in {"none", "made", "failed"} /\ (pool' = "failed" => dsn = "bad")
    BY <1>1, <1>7 DEF HandleExplain, getPGXPool
  <2>4. Executed([j EXCEPT !.pc = pc]) /\ (Held([j EXCEPT !.pc = pc]) <=> Held(j))
    BY <1>3, <1>4, <2>2 DEF Executed, Held
  <2>5. QED BY <1>1, <1>5, <2>2, <2>3, <2>4
<1>8. CASE Begin(i)
  <2>1. CASE free > 0 /\ Job(i, "begin", "readonly") /\ free' = free - 1
    <3>1. /\ j.pc = "begin" /\ jobs' = [jobs EXCEPT ![i].pc = "readonly"]
          /\ UNCHANGED <<storeVars, stream, pageVars, results, dsn, pool>>
      BY <1>2, <1>8, <2>1 DEF Job, Begin
    <3>2. /\ Executed([j EXCEPT !.pc = "readonly"])
          /\ Held([j EXCEPT !.pc = "readonly"]) /\ ~ Held(j)
      BY <1>3, <1>4, <3>1 DEF Executed, Held
    <3>3. free' \in Nat /\ free' + 1 = free
      <4>1. \A n \in Nat : n > 0 => n - 1 \in Nat /\ (n - 1) + 1 = n
        OBVIOUS
      <4>2. QED BY <1>1, <2>1, <4>1, Zenon
    <3>4. QED BY <1>1, <1>5, <3>1, <3>2, <3>3
  <2>2. CASE Job(i, "begin", "answered") /\ UNCHANGED free
    <3>1. /\ j.pc = "begin" /\ jobs' = [jobs EXCEPT ![i].pc = "answered"]
          /\ UNCHANGED <<storeVars, stream, pageVars, results, dsn, pool>>
      BY <1>2, <1>8, <2>2 DEF Job, Begin
    <3>2. /\ Executed([j EXCEPT !.pc = "answered"])
          /\ ~ Held([j EXCEPT !.pc = "answered"]) /\ ~ Held(j)
      BY <1>3, <1>4, <3>1 DEF Executed, Held
    <3>3. QED BY <1>1, <1>5, <2>2, <3>1, <3>2
  <2>3. QED BY <1>8, <2>1, <2>2 DEF Begin
<1>9. ASSUME NEW pc, NEW next, Execute(i, pc, next),
             <<pc, next>> \in {<<"readonly", "timeout">>, <<"timeout", "explain">>,
                               <<"explain", "rollback">>}
      PROVE  Inv'
  <2>1. pc \in {"readonly", "timeout", "explain"} /\ UNCHANGED <<pool, free>>
    BY <1>9 DEF Execute
  <2>2. CASE Job(i, pc, "rollback")
    <3>1. /\ j.pc = pc /\ jobs' = [jobs EXCEPT ![i].pc = "rollback"]
          /\ UNCHANGED <<storeVars, stream, pageVars, results, dsn>>
      BY <1>2, <2>2 DEF Job
    <3>2. /\ Executed([j EXCEPT !.pc = "rollback"])
          /\ Held([j EXCEPT !.pc = "rollback"]) /\ Held(j)
      BY <1>3, <1>4, <2>1, <3>1 DEF Executed, Held
    <3>3. QED BY <1>1, <1>5, <2>1, <3>1, <3>2
  <2>3. CASE /\ jobs[i].pc = pc
             /\ jobs' = [jobs EXCEPT ![i].pc = next, ![i].tx = @ \cup {pc}]
             /\ UNCHANGED <<storeVars, stream, pageVars, results, dsn>>
    <3>1. PICK x \in Request : x = [j EXCEPT !.pc = next, !.tx = @ \cup {pc}]
      BY <1>9, <2>1 DEF Request
    <3>2. /\ x.pc = next /\ x.tx = j.tx \cup {pc} /\ x.id = j.id /\ x.attached = j.attached
      BY <3>1 DEF Request
    <3>3. jobs' = [jobs EXCEPT ![i] = x] /\ j.pc = pc
      BY <1>1, <1>2, <2>3, <3>1 DEF Inv, Types
    <3>4. Executed(x) /\ Held(x) /\ Held(jobs[i])
      BY <1>2, <1>3, <1>9, <3>2, <3>3 DEF Executed, Held
    <3>5. x.attached => x.id = panel.id
      BY <1>3, <3>2
    <3>6. QED BY <1>1, <2>1, <2>3, <3>3, <3>4, <3>5, RequestStep
  <2>4. QED BY <1>9, <2>2, <2>3 DEF Execute
<1>10. CASE Rollback(i)
  <2>1. /\ j.pc = "rollback" /\ jobs' = [jobs EXCEPT ![i].pc = "answered"] /\ free' = free + 1
        /\ UNCHANGED <<storeVars, stream, pageVars, results, dsn, pool>>
    BY <1>2, <1>10 DEF Rollback, Job
  <2>2. Executed([j EXCEPT !.pc = "answered"]) /\ ~ Held([j EXCEPT !.pc = "answered"]) /\ Held(j)
    BY <1>3, <1>4, <2>1 DEF Executed, Held
  <2>3. free' \in Nat
    <3>1. \A n \in Nat : n + 1 \in Nat
      OBVIOUS
    <3>2. QED BY <1>1, <2>1, <3>1, Zenon
  <2>4. QED BY <1>1, <1>5, <2>1, <2>2, <2>3
<1>11. CASE ResultArrives(i)
  <2>1. /\ j.pc = "answered" /\ jobs' = [jobs EXCEPT ![i] = Done]
        /\ results' = (IF j.attached THEN results \cup {j.id} ELSE results)
        /\ UNCHANGED <<storeVars, stream, pageVars, dsn, pool, free>>
    BY <1>2, <1>11 DEF ResultArrives, dbVars
  <2>2. PICK x \in Request : x = Done
    BY DEF Request, Done
  <2>3. Executed(x) /\ ~ Held(x) /\ ~ Held(jobs[i]) /\ x.attached = FALSE
    BY <1>2, <2>1, <2>2 DEF Executed, Held, Done
  <2>4. results' \subseteq {panel.id}
    BY <1>1, <1>3, <2>1
  <2>5. QED BY <1>1, <2>1, <2>2, <2>3, <2>4, RequestStep
<1>12. QED
  BY <1>6, <1>7, <1>8, <1>9, <1>10, <1>11 DEF JobStep, SetReadOnly, SetTimeout, Explain

(* Every step keeps the invariant. *)
LEMMA InvInductive == Inv /\ [Next]_vars => Inv'
<1> SUFFICES ASSUME Inv, [Next]_vars PROVE Inv'
  OBVIOUS
<1>1. CASE Next
  BY <1>1, PageStep, OtherStep, ServerStep DEF Next
<1>2. CASE UNCHANGED vars
  <2>1. Types' /\ Selection'
    BY <1>2 DEF Inv, Types, Selection, vars, storeVars, pageVars, dbVars
  <2>2. QED BY <1>2, <2>1, RequestsStay DEF Inv, vars, pageVars
<1>3. QED BY <1>1, <1>2

(* The invariant, for any user and any database. *)
THEOREM AlwaysInv == Spec => []Inv
<1>1. Init => Inv
  BY InitInv
<1>2. Inv /\ [Next]_vars => Inv'
  BY InvInductive
<1>3. QED BY <1>1, <1>2, PTL DEF Spec

-----------------------------------------------------------------------------
(* The theorems. *)

(* Once no trace is being fetched and none was disturbed, the panel shows  *)
(* the selected trace, however the store, the stream and the answers to    *)
(* fetches interleave.                                                     *)
THEOREM PanelAlwaysSettles == Spec => []SettledPanel
<1>1. Inv => SettledPanel
  BY DEF Inv, Selection, SettledPanel
<1>2. QED BY <1>1, AlwaysInv, PTL

(* A late result of an EXPLAIN never shows up under another trace.         *)
THEOREM ResultsAlwaysUnderTheirTrace == Spec => []ResultUnderItsTrace
<1>1. Inv => ResultUnderItsTrace
  BY DEF Inv, Waiting, ResultUnderItsTrace
<1>2. QED BY <1>1, AlwaysInv, PTL

(* EXPLAIN executes no query outside of a bounded read-only transaction,   *)
(* whichever statement fails and whenever the request is given up.         *)
THEOREM QueryAlwaysConfined == Spec => []QueryIsConfined
<1>1. Inv => QueryIsConfined
  <2> SUFFICES ASSUME Inv, NEW i \in DOMAIN jobs,
                      jobs[i].pc = "explain" \/ "explain" \in jobs[i].tx
               PROVE  {"readonly", "timeout"} \subseteq jobs[i].tx
    BY DEF QueryIsConfined
  <2>1. jobs \in Seq(Request)
    BY DEF Inv, Types
  <2>2. Executed(jobs[i])
    BY <2>1 DEF Inv, Transactions
  <2>3. QED BY <2>2 DEF Executed
<1>2. QED BY <1>1, AlwaysInv, PTL

(* No request keeps a connection, and none spoils the pool of a good DSN.  *)
THEOREM PoolAlwaysSurvives == Spec => []PoolSurvives
<1>1. Inv => PoolSurvives
  BY DEF Inv, Connections
<1>2. QED BY <1>1, AlwaysInv, PTL
=============================================================================
