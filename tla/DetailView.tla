----------------------------- MODULE DetailView -----------------------------
(***************************************************************************)
(* The detail panel of the page and what it asks the server for: showDetail*)
(* and closeDetail of web/app.js over GET /api/traces/{traceID}, and the   *)
(* EXPLAIN buttons over POST /api/explain, which runs a transaction on a   *)
(* lazily made connection pool (internal/ui/api.go and server.go).         *)
(*                                                                         *)
(* JavaScript runs a handler to its next await, so a handler is one step up*)
(* to its fetch and another from its answer on.  Requests overlap, and     *)
(* their answers come in any order or not at all.  Of the store the model  *)
(* keeps the latest span of a trace, by number; the hub and its losses are *)
(* the subject of LiveView, here a message is sent to the page or not.     *)
(***************************************************************************)
EXTENDS Naturals, SequencesExt

CONSTANTS
  TraceIDs, NoID,
  Conns,     \* connections the pool may open
  MaxSpans,  \* bound: spans added
  MaxActs    \* bound: what the user does

ASSUME NoIDAssumption  == NoID \notin TraceIDs
ASSUME ConnsAssumption == Conns \in Nat \ {0}

VARIABLES
  stored,     \* trace -> the number of its last span, 0 if it is not in the store
  added,      \* how many spans were added
  stream,     \* trace messages on their way to the page
  list,       \* the traces in the page's list
  current,    \* currentTraceID
  panel,      \* what detailPanel shows: [id, n]
  fetches,    \* calls of showDetail that wait for fetchTrace
  results,    \* the traces whose EXPLAIN results detailPanel shows
  acts,       \* how often the user has acted
  disturbed,  \* history: the user acted while a trace was fetched, or a fetch failed
  dsn,        \* a.explainDSN: "", "good" or "bad"
  pool,       \* pgxPoolInst and errPGXPool: "none", "made" or "failed"
  free,       \* connections not in use
  jobs        \* requests for an EXPLAIN, each [id, attached, cancelled, pc, tx]

storeVars == <<stored, added>>
pageVars  == <<list, current, panel, fetches, acts, disturbed>>
dbVars    == <<dsn, pool, free>>
vars == <<storeVars, stream, pageVars, results, dbVars, jobs>>

NoPanel == [id |-> NoID, n |-> 0]
Done    == [id |-> NoID, attached |-> FALSE, cancelled |-> FALSE, pc |-> "done", tx |-> {}]

-----------------------------------------------------------------------------
(* The store and the hub. *)

Add(id) ==
  /\ added < MaxSpans
  /\ added' = added + 1 /\ stored' = [stored EXCEPT ![id] = added + 1]
  /\ \/ stream' = Append(stream, [id |-> id, n |-> added + 1])
     \/ UNCHANGED stream
  /\ UNCHANGED <<pageVars, results, dbVars, jobs>>

Evict(id) ==
  /\ stored[id] # 0
  /\ stored' = [stored EXCEPT ![id] = 0]
  /\ UNCHANGED <<added, stream, pageVars, results, dbVars, jobs>>

-----------------------------------------------------------------------------
(* The page. *)

(* The contents of the panel are replaced: the elements that wait for the  *)
(* result of an EXPLAIN are no longer part of it.                          *)
Replace(shown) ==
  /\ panel' = shown /\ results' = {}
  /\ jobs' = [i \in DOMAIN jobs |-> [jobs[i] EXCEPT !.attached = FALSE]]

renderDetail(id, n) == Replace([id |-> id, n |-> n])
closeDetail == current' = NoID /\ Replace(NoPanel)

(* The Mut_ operators of this module are deliberately wrong variants of the *)
(* definitions that follow them.  No definition uses them: each shows that *)
(* some property would notice the bug.                                     *)

(* The panel follows every trace. *)
Mut_updateTrace(m) ==
  /\ list' = list \cup {m.id}
  /\ IF panel # NoPanel THEN renderDetail(m.id, m.n) ELSE UNCHANGED <<panel, results, jobs>>

updateTrace(m) ==
  /\ list' = list \cup {m.id}
  /\ IF current = m.id THEN renderDetail(m.id, m.n) ELSE UNCHANGED <<panel, results, jobs>>

Handle ==
  /\ stream # <<>>
  /\ updateTrace(Head(stream))
  /\ stream' = Tail(stream)
  /\ UNCHANGED <<storeVars, current, fetches, acts, disturbed, dbVars>>

(* The user does something. *)
Act ==
  /\ acts < MaxActs /\ acts' = acts + 1
  /\ disturbed' = (fetches # <<>>)
  /\ UNCHANGED <<storeVars, stream, list, dbVars>>

(* showDetail up to its await: a click on the trace that is already        *)
(* selected closes the panel.                                              *)
showDetail(id) ==
  /\ Act /\ id \in list
  /\ IF current = id
     THEN closeDetail /\ UNCHANGED fetches
     ELSE /\ current' = id
          /\ fetches' = Append(fetches, [id |-> id, state |-> "asked", reply |-> 0])
          /\ UNCHANGED <<panel, results, jobs>>

ClickClose == Act /\ panel # NoPanel /\ closeDetail /\ UNCHANGED fetches

(* A click on another span of the trace shown draws the panel anew.        *)
ClickSpan ==
  /\ panel # NoPanel /\ acts < MaxActs /\ acts' = acts + 1
  /\ renderDetail(panel.id, panel.n)
  /\ UNCHANGED <<storeVars, stream, list, current, fetches, disturbed, dbVars>>

(* HandleGetTrace; the reply 0 stands for "trace not found". *)
GetTrace(i) ==
  /\ fetches[i].state = "asked"
  /\ fetches' = [fetches EXCEPT ![i].state = "answered", ![i].reply = stored[fetches[i].id]]
  /\ UNCHANGED <<storeVars, stream, list, current, panel, acts, disturbed, results, dbVars, jobs>>

(* showDetail from its await on, whatever is selected by now.  A trace that*)
(* is no longer in the store leaves the list, and the panel is closed.     *)
TraceArrives(i) ==
  LET f == fetches[i] IN
  /\ f.state = "answered"
  /\ IF f.reply = 0
     THEN list' = list \ {f.id} /\ closeDetail
     ELSE renderDetail(f.id, f.reply) /\ UNCHANGED <<list, current>>
  /\ fetches' = RemoveAt(fetches, i)
  /\ UNCHANGED <<storeVars, stream, acts, disturbed, dbVars>>

(* fetch rejects: nobody catches it. *)
FetchFails(i) ==
  /\ fetches' = RemoveAt(fetches, i) /\ disturbed' = TRUE
  /\ UNCHANGED <<storeVars, stream, list, current, panel, acts, results, dbVars, jobs>>

(* One of the buttons under the query of a SQL span. *)
ClickExplain ==
  /\ panel # NoPanel /\ acts < MaxActs /\ acts' = acts + 1
  /\ jobs' = Append(jobs, [id |-> panel.id, attached |-> TRUE, cancelled |-> FALSE,
                           pc |-> "asked", tx |-> {}])
  /\ UNCHANGED <<storeVars, stream, list, current, panel, fetches, disturbed, results, dbVars>>

-----------------------------------------------------------------------------
(* HandleExplain and runExplain. *)

Job(i, pc, next) ==
  /\ jobs[i].pc = pc /\ jobs' = [jobs EXCEPT ![i].pc = next]
  /\ UNCHANGED <<storeVars, stream, pageVars, results, dsn>>

(* The context of the request is cancelled when the page is left. *)
Cancel(i) ==
  /\ jobs[i].pc # "done" /\ ~ jobs[i].cancelled
  /\ jobs' = [jobs EXCEPT ![i].cancelled = TRUE]
  /\ UNCHANGED <<storeVars, stream, pageVars, results, dbVars>>

(* The pool is made with the context of the request that comes first. *)
Mut_getPGXPool(i) ==
  pool' = IF pool # "none" THEN pool
          ELSE IF dsn = "good" /\ ~ jobs[i].cancelled THEN "made" ELSE "failed"

(* The first request makes the pool, with a context that nobody cancels; an*)
(* error is kept for all that follow.                                      *)
getPGXPool(i) ==
  pool' = IF pool # "none" THEN pool ELSE IF dsn = "good" THEN "made" ELSE "failed"

(* Not configured, a request that is refused, or no pool: an error reply.  *)
HandleExplain(i) ==
  \/ Job(i, "asked", "answered") /\ UNCHANGED <<pool, free>>
  \/ dsn # "" /\ getPGXPool(i) /\ UNCHANGED free
     /\ Job(i, "asked", IF pool' = "made" THEN "begin" ELSE "answered")

(* Begin waits for a connection, as long as the request does, and may fail *)
(* once it has one.                                                        *)
Begin(i) ==
  /\ UNCHANGED pool
  /\ \/ free > 0 /\ ~ jobs[i].cancelled /\ Job(i, "begin", "readonly") /\ free' = free - 1
     \/ (free > 0 \/ jobs[i].cancelled) /\ Job(i, "begin", "answered") /\ UNCHANGED free

(* A statement of the transaction: it takes effect, or an error or the     *)
(* cancellation leads to the deferred Rollback.                            *)
Execute(i, pc, next) ==
  /\ UNCHANGED <<pool, free>>
  /\ \/ /\ jobs[i].pc = pc /\ ~ jobs[i].cancelled
        /\ jobs' = [jobs EXCEPT ![i].pc = next, ![i].tx = @ \cup {pc}]
        /\ UNCHANGED <<storeVars, stream, pageVars, results, dsn>>
     \/ Job(i, pc, "rollback")

(* The error is ignored. *)
Mut_SetReadOnly(i) ==
  Execute(i, "readonly", "timeout") \/ (Job(i, "readonly", "timeout") /\ UNCHANGED <<pool, free>>)

SetReadOnly(i) == Execute(i, "readonly", "timeout")

SetTimeout(i) == Execute(i, "timeout", "explain")

(* The query and its rows; statement_timeout bounds it. *)
Explain(i) == Execute(i, "explain", "rollback")

(* The connection of a transaction that failed is not given back. *)
Mut_Rollback(i) ==
  /\ Job(i, "rollback", "answered") /\ UNCHANGED pool
  /\ free' = IF jobs[i].cancelled THEN free ELSE free + 1

(* Rollback gives the connection back, or closes it if that fails, so that *)
(* the pool may open another one.                                          *)
Rollback(i) == Job(i, "rollback", "answered") /\ free' = free + 1 /\ UNCHANGED pool

(* The result is shown in whatever panel there is. *)
Mut_ResultArrives(i) ==
  /\ jobs[i].pc = "answered"
  /\ results' = IF panel # NoPanel THEN results \cup {jobs[i].id} ELSE results
  /\ jobs' = [jobs EXCEPT ![i] = Done]
  /\ UNCHANGED <<storeVars, stream, pageVars, dbVars>>

(* The result, or an error, becomes the text of the element made for it.   *)
ResultArrives(i) ==
  /\ jobs[i].pc = "answered"
  /\ results' = IF jobs[i].attached THEN results \cup {jobs[i].id} ELSE results
  /\ jobs' = [jobs EXCEPT ![i] = Done]
  /\ UNCHANGED <<storeVars, stream, pageVars, dbVars>>

-----------------------------------------------------------------------------
Init ==
  /\ stored = [id \in TraceIDs |-> 0] /\ added = 0
  /\ stream = <<>> /\ list = {} /\ current = NoID /\ panel = NoPanel
  /\ fetches = <<>> /\ results = {} /\ acts = 0 /\ disturbed = FALSE
  /\ dsn \in {"", "good", "bad"} /\ pool = "none" /\ free = Conns /\ jobs = <<>>

JobStep(i) ==
  \/ HandleExplain(i) \/ Begin(i) \/ SetReadOnly(i) \/ SetTimeout(i) \/ Explain(i)
  \/ Rollback(i) \/ ResultArrives(i)

Next ==
  \/ \E id \in TraceIDs : Add(id) \/ Evict(id) \/ showDetail(id)
  \/ Handle \/ ClickClose \/ ClickSpan \/ ClickExplain
  \/ \E i \in DOMAIN fetches : GetTrace(i) \/ TraceArrives(i) \/ FetchFails(i)
  \/ \E i \in DOMAIN jobs : Cancel(i) \/ JobStep(i)

(* The server works on each request as far as it can, and the database     *)
(* answers each statement, at the latest when its timeout is over.         *)
Spec ==
  /\ Init /\ [][Next]_vars
  /\ \A i \in 1 .. MaxActs : WF_vars(i \in DOMAIN jobs /\ JobStep(i))

-----------------------------------------------------------------------------
(* Properties. *)

(* When nothing is being fetched, the panel shows the selected trace, and  *)
(* is closed when none is selected: through updates, evictions and traces  *)
(* that come back.  The user must not have acted while the last trace was  *)
(* being fetched, for showDetail does not look at the selection again; the *)
(* next click puts things right even then.                                 *)
SettledPanel == fetches = <<>> /\ ~ disturbed => panel.id = current

(* The result of an EXPLAIN is never shown under another trace than the one*)
(* whose query it explains, however late it comes.                         *)
ResultUnderItsTrace == results \subseteq {panel.id}

(* The query of a request, which EXPLAIN ANALYZE runs, is only ever        *)
(* executed in a transaction that is read only and bounded in time.        *)
QueryIsConfined ==
  \A i \in DOMAIN jobs :
    jobs[i].pc = "explain" \/ "explain" \in jobs[i].tx => {"readonly", "timeout"} \subseteq jobs[i].tx

(* The requests whose transaction has a connection. *)
Holding == {i \in DOMAIN jobs : jobs[i].pc \in {"readonly", "timeout", "explain", "rollback"}}

(* EXPLAIN works as long as the DSN is good: a request that its page gives *)
(* up does not spoil the pool, the failure of which would be kept, nor does*)
(* it keep a connection.                                                   *)
PoolSurvives ==
  /\ pool = "failed" => dsn = "bad"
  /\ free + Cardinality(Holding) = Conns

(* Every request for an EXPLAIN is answered, also when all connections are *)
(* taken when it comes.                                                    *)
ExplainAnswered == \A n \in 1 .. MaxActs : (Len(jobs) >= n) ~> (Len(jobs) >= n /\ jobs[n].pc = "done")
=============================================================================
