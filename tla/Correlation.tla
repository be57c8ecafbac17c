---------------------------- MODULE Correlation ----------------------------
(***************************************************************************)
(* How SQL spans find the request they belong to.  The module composes     *)
(* three parts that share the Correlator: the HTTP proxy (and the gRPC     *)
(* proxy, whose handler has the same shape), which brackets a request with *)
(* OnSpan and OnSpanEnd; the application behind it, which runs queries     *)
(* while it serves the request; and the SQL proxy, whose onQuery callback  *)
(* runs when the answer to the query has already been relayed to the       *)
(* application, and only then asks the correlator.                         *)
(*                                                                         *)
(* The application sends its response when all the queries it issued for   *)
(* the request have been answered.  A query may carry a sqlcommenter       *)
(* comment, valid or not.                                                  *)
(***************************************************************************)
EXTENDS Correlator

CONSTANTS
  Requests,    \* requests through the HTTP and gRPC proxies
  SQLQueries,  \* queries through the SQL proxy
  Comments,    \* the outcomes of ParseSQLComment that occur
  MaxTime,     \* bound of the model: the clock stops there
  MaxOpen,     \* bound: how many requests are under way at a time
  MayAbort     \* whether an upstream may fail in the middle of a response

ASSUME CommentsAssumption == Comments \subseteq {"OK", "Invalid", "Absent"}
ASSUME NoContextAssumption == NoContext \notin Requests
ASSUME MaxTimeAssumption == MaxTime \in Nat

VARIABLES
  phase,      \* request -> how far its handler has got
  began,      \* history: request -> the place and the time of its SetActive
  query,      \* query -> [status, owner, comment]
  parent,     \* query -> the context its span was reported under
  submitted   \* history: the requests whose span was submitted

requestVars == <<phase, began, submitted>>
queryVars   == <<query, parent>>
vars        == <<now, entries, requestVars, queryVars>>

Phases   == {"idle", "open", "relayed", "submitted", "ended", "aborted"}
Handling == {r \in Requests : phase[r] \in {"open", "relayed", "submitted"}}
Begun    == {r \in Requests : phase[r] # "idle"}

Statuses == {"idle", "sent", "answered", "reported"}
NotSent  == [status |-> "idle", owner |-> NoContext, comment |-> "Absent"]

-----------------------------------------------------------------------------
(* A request in the HTTP proxy, http/proxy.go ServeHTTP, or in the gRPC    *)
(* proxy, grpc/proxy.go UnknownHandler.                                    *)

(* The handler starts: OnSpan pushes the request's context. *)
Begin(r) ==
  /\ phase[r] = "idle" /\ Cardinality(Handling) < MaxOpen
  /\ phase' = [phase EXCEPT ![r] = "open"]
  /\ began' = [began EXCEPT ![r] = [place |-> Cardinality(Begun) + 1, time |-> now]]
  /\ SetActive(r)
  /\ UNCHANGED <<now, queryVars, submitted>>

(* The response has been relayed to the caller. *)
Relay(r) ==
  /\ phase[r] = "open"
  /\ \A q \in SQLQueries : query[q].owner = r => query[q].status # "sent"
  /\ phase' = [phase EXCEPT ![r] = "relayed"]
  /\ UNCHANGED <<now, entries, began, submitted, queryVars>>

(* The request's own span goes to the collector. *)
SubmitSpan(r) ==
  /\ phase[r] = "relayed"
  /\ phase' = [phase EXCEPT ![r] = "submitted"]
  /\ submitted' = submitted \cup {r}
  /\ UNCHANGED <<now, entries, began, queryVars>>

(* OnSpanEnd clears the context, and the handler returns. *)
End(r) ==
  /\ phase[r] = "submitted"
  /\ phase' = [phase EXCEPT ![r] = "ended"]
  /\ ClearActive(r)
  /\ UNCHANGED <<now, began, submitted, queryVars>>

(* ReverseProxy panics with http.ErrAbortHandler when copying the response *)
(* body fails; nothing in ServeHTTP is deferred, so neither the span nor   *)
(* OnSpanEnd follows.                                                      *)
Abort(r) ==
  /\ MayAbort /\ phase[r] = "open"
  /\ phase' = [phase EXCEPT ![r] = "aborted"]
  /\ UNCHANGED <<now, entries, began, submitted, queryVars>>

-----------------------------------------------------------------------------
(* A query of the application, and its way through the SQL proxy. *)

Issue(q) ==
  \E r \in Requests, c \in Comments :
    /\ query[q].status = "idle" /\ phase[r] = "open"
    /\ query' = [query EXCEPT ![q] = [status |-> "sent", owner |-> r, comment |-> c]]
    /\ UNCHANGED <<now, entries, requestVars, parent>>

(* proxyServerToClient writes the ReadyForQuery to the application ... *)
Answer(q) ==
  /\ query[q].status = "sent"
  /\ query' = [query EXCEPT ![q].status = "answered"]
  /\ UNCHANGED <<now, entries, requestVars, parent>>

(* The context the onQuery callback of handleConn settles on: the one the  *)
(* application wrote into a valid comment, else the correlator's.          *)
Context(q) == IF query[q].comment = "OK" THEN query[q].owner ELSE Correlate

(* ... and afterwards calls onQuery, which submits the SQL span. *)
Report(q) ==
  /\ query[q].status = "answered"
  /\ query'  = [query EXCEPT ![q].status = "reported"]
  /\ parent' = [parent EXCEPT ![q] = Context(q)]
  /\ UNCHANGED <<now, entries, requestVars>>

Tick ==
  /\ now < MaxTime
  /\ now' = now + 1
  /\ UNCHANGED <<entries, requestVars, queryVars>>

-----------------------------------------------------------------------------
(* NewCorrelator, and no request or query yet. *)
Init ==
  /\ now = 0 /\ entries = <<>>
  /\ phase = [r \in Requests |-> "idle"]
  /\ began = [r \in Requests |-> [place |-> 0, time |-> 0]]
  /\ submitted = {}
  /\ query  = [q \in SQLQueries |-> NotSent]
  /\ parent = [q \in SQLQueries |-> NoContext]

Next ==
  \/ \E r \in Requests : Begin(r) \/ Relay(r) \/ SubmitSpan(r) \/ End(r) \/ Abort(r)
  \/ \E q \in SQLQueries : Issue(q) \/ Answer(q) \/ Report(q)
  \/ Tick

Spec == Init /\ [][Next]_vars

-----------------------------------------------------------------------------
(* Properties. *)

(* Every variable has its type, and no entry comes from the future. *)
TypeOK ==
  /\ now \in Nat
  /\ entries \in Seq([context : Requests, seen : 0 .. now])
  /\ phase \in [Requests -> Phases]
  /\ began \in [Requests -> [place : Nat, time : 0 .. now]]
  /\ submitted \subseteq Requests
  /\ query \in [SQLQueries -> [status : Statuses, owner : Requests \cup {NoContext},
                               comment : {"OK", "Invalid", "Absent"}]]
  /\ parent \in [SQLQueries -> Requests \cup {NoContext}]

Stacked == {entries[i].context : i \in DOMAIN entries}

(* However the handlers of concurrent requests interleave, the stack holds *)
(* exactly the requests that have begun and not ended, each once, in the   *)
(* order in which they began, so that a live entry is never hidden behind  *)
(* an expired one.  ClearActive, which takes entries out of the middle of  *)
(* the stack, always removes the entry of the request that ends.           *)
StackIsOpenRequests ==
  /\ Stacked = {r \in Requests : phase[r] \notin {"idle", "ended"}}
  /\ \A i, j \in DOMAIN entries :
       i < j => /\ began[entries[i].context].place < began[entries[j].context].place
                /\ entries[i].seen <= entries[j].seen

ReportNow(q) == query[q].status = "answered" /\ query'[q].status = "reported"

(* A span without a valid comment is never filed under a request that has  *)
(* already ended, nor under one that began TTL or longer ago: Correlate    *)
(* does not hand out a context that ClearActive missed or that has expired,*)
(* whatever else is still on the stack.                                    *)
ReportedUnderLiveRequest ==
  [][\A q \in SQLQueries :
       ReportNow(q) /\ query[q].comment # "OK" /\ parent'[q] # NoContext
         => /\ phase[parent'[q]] \notin {"idle", "ended"}
            /\ now - began[parent'[q]].time < TTL]_vars

(* r is under way, and no request that began after it is still on the stack.*)
Latest(r) ==
  /\ r \in Handling
  /\ \A s \in Stacked : began[s].place <= began[r].place

(* What the heuristic does guarantee.  A query is filed under the request  *)
(* that issued it if its comment is valid, however late it is reported     *)
(* (README.md: sqlcommenter support), and otherwise if, at the report,     *)
(* that request is still under way, began less than TTL ago, and every     *)
(* request that began after it has ended, in whatever order they did.      *)
FiledWhenLatest ==
  [][\A q \in SQLQueries :
       LET r == query[q].owner
       IN  ReportNow(q) /\ \/ query[q].comment = "OK"
                           \/ Latest(r) /\ now - began[r].time < TTL
             => parent'[q] = r]_vars
=============================================================================
