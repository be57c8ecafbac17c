------------------------------ MODULE LiveView ------------------------------
(***************************************************************************)
(* From the store to the list of traces in the browser.  The module        *)
(* composes TraceStore with the hub of internal/ui/sse.go, a goroutine     *)
(* that is the store's subscriber and broadcasts to one bounded channel    *)
(* per open page, and with the list part of web/app.js, which loads the    *)
(* list once over the API and afterwards lives on the broadcasts.          *)
(*                                                                         *)
(* The hub reads the trace of a span when it broadcasts the span, not when *)
(* the span was added, so its reading is a step of its own.  It holds      *)
(* Hub.mu while it sends; the sends to different pages commute, so the     *)
(* span messages to all pages are one step and the trace messages another. *)
(* A message that HandleSSE has written and the page has not yet handled   *)
(* counts as still buffered.                                               *)
(***************************************************************************)
EXTENDS TraceStore

CONSTANTS
  Hub,        \* the hub, as a subscriber of the store
  Pages,      \* the open browser pages
  ClientCap,  \* capacity of the channel of a page (64 in the code)
  ListLimit,  \* how many traces a page asks for (100 in the code)
  MayBreak    \* whether connections and requests of a page may fail

ASSUME HubAssumption == Hub \in Subscribers
ASSUME ClientCapAssumption == ClientCap \in Nat \ {0} /\ ListLimit \in Nat \ {0}

VARIABLES
  hub,      \* the hub's goroutine: [pc, span, snap]
  clients,  \* Hub.clients: the pages with a registered sseClient
  stream,   \* page -> messages in its channel
  list,     \* page -> its traces: function trace ID -> spans shown
  fetch,    \* page -> the state of fetchTraces: [state, reply]
  reached   \* history: page -> the spans, by number, whose trace message got
            \* onto its channel and was not handled before the list loaded

storeVars == vars
pageVars  == <<list, fetch>>
liveVars  == <<storeVars, hub, clients, stream, pageVars, reached>>

NoSpan  == [n |-> 0]
Idle    == [pc |-> "recv", span |-> NoSpan, snap |-> <<>>]
Message == [type : {"span", "trace"}, trace : TraceIDs, n : 1 .. MaxSpans, spans : Seq(Span)]

-----------------------------------------------------------------------------
(* The hub. *)

(* Hub.Start, which main.run calls when the proxies are already running. *)
HubStart ==
  /\ hub.pc = "off"
  /\ hub' = Idle
  /\ Subscribe(Hub)
  /\ UNCHANGED <<clients, stream, pageVars, reached>>

HubReceive ==
  /\ hub.pc = "recv" /\ channel[Hub] # <<>>
  /\ hub' = [pc |-> "have", span |-> Head(channel[Hub]), snap |-> <<>>]
  /\ Receive(Hub)
  /\ UNCHANGED <<clients, stream, pageVars, reached>>

(* broadcast gives up if the trace has been evicted in the meantime. *)
HubGetTrace ==
  /\ hub.pc = "have"
  /\ LET id == hub.span.trace
     IN  hub' = IF GetTrace(id) = {} THEN Idle
                ELSE [hub EXCEPT !.pc = "lock", !.snap = traces[id].spans]
  /\ UNCHANGED <<storeVars, clients, stream, pageVars, reached>>

HubMessage(type) ==
  [type |-> type, trace |-> hub.span.trace, n |-> hub.span.n,
   spans |-> IF type = "trace" THEN hub.snap ELSE <<>>]

(* The Mut_ operators of this module are deliberately wrong variants of the *)
(* definitions that follow them.  No definition uses them: each shows that *)
(* some property would notice the bug.                                     *)

(* A page whose channel is full misses the message. *)
HasRoom(p) == p \in clients /\ Len(stream[p]) < ClientCap

SendAll(m) == stream' = [p \in Pages |-> IF HasRoom(p) THEN Append(stream[p], m) ELSE stream[p]]

HubSendSpan ==
  /\ hub.pc = "lock"
  /\ SendAll(HubMessage("span"))
  /\ hub' = [hub EXCEPT !.pc = "locked"]
  /\ UNCHANGED <<storeVars, clients, pageVars, reached>>

(* A plain send waits for every page to have room. *)
Mut_BlockingSend ==
  /\ hub.pc = "locked"
  /\ \A p \in clients : HasRoom(p)
  /\ SendAll(HubMessage("trace"))
  /\ reached' = [p \in Pages |-> reached[p] \cup (IF HasRoom(p) THEN {hub.span.n} ELSE {})]
  /\ hub' = Idle
  /\ UNCHANGED <<storeVars, clients, pageVars>>

HubSendTrace ==
  /\ hub.pc = "locked"
  /\ SendAll(HubMessage("trace"))
  /\ reached' = [p \in Pages |-> reached[p] \cup (IF HasRoom(p) THEN {hub.span.n} ELSE {})]
  /\ hub' = Idle
  /\ UNCHANGED <<storeVars, clients, pageVars>>

(* The context is cancelled: the goroutine ends, and the deferred          *)
(* Unsubscribe runs.                                                       *)
HubStop ==
  /\ hub.pc = "recv"
  /\ hub' = [Idle EXCEPT !.pc = "stopped"]
  /\ Unsubscribe(Hub)
  /\ UNCHANGED <<clients, stream, pageVars, reached>>

-----------------------------------------------------------------------------
(* A page: connectSSE and fetchTraces run concurrently from the start.     *)

(* main.run starts the UI server after it has started the hub. *)
ServerUp == hub.pc # "off"

MuFree == hub.pc # "locked"

(* HandleSSE registers the page's channel. *)
Connect(p) ==
  /\ ServerUp /\ p \notin clients /\ MuFree
  /\ clients' = clients \cup {p}
  /\ stream'  = [stream EXCEPT ![p] = <<>>]
  /\ UNCHANGED <<storeVars, hub, pageVars, reached>>

Waiting(p) == {stream[p][i].n : i \in {j \in DOMAIN stream[p] : stream[p][j].type = "trace"}}

(* The connection breaks: HandleSSE deletes the channel with what it       *)
(* buffers.  The page's EventSource connects again, but loads nothing.     *)
Disconnect(p) ==
  /\ MayBreak /\ p \in clients /\ MuFree
  /\ clients' = clients \ {p}
  /\ stream'  = [stream EXCEPT ![p] = <<>>]
  /\ reached' = [reached EXCEPT ![p] = @ \ Waiting(p)]
  /\ UNCHANGED <<storeVars, hub, pageVars>>

(* A trace that is not in the list is not added. *)
Mut_updateTrace(shown, m) ==
  [id \in DOMAIN shown |-> IF id = m.trace THEN m.spans ELSE shown[id]]

(* The spans are added to those shown, which may be of a trace that was    *)
(* evicted and has come back since.                                        *)
Mut_Merge(shown, m) ==
  [id \in DOMAIN shown \cup {m.trace} |->
     IF id # m.trace THEN shown[id]
     ELSE IF id \in DOMAIN shown THEN shown[id] \o m.spans ELSE m.spans]

(* The trace replaces the one in the list or is added to it. *)
updateTrace(shown, m) ==
  [id \in DOMAIN shown \cup {m.trace} |-> IF id = m.trace THEN m.spans ELSE shown[id]]

(* onmessage: messages of type "span" are ignored. *)
Handle(p) ==
  /\ stream[p] # <<>>
  /\ LET m == Head(stream[p])
     IN  list' = IF m.type = "trace" THEN [list EXCEPT ![p] = updateTrace(@, m)] ELSE list
  /\ stream' = [stream EXCEPT ![p] = Tail(@)]
  /\ UNCHANGED <<storeVars, hub, clients, fetch, reached>>

(* HandleListTraces answers GET /api/traces?limit=... *)
AnswerList(p) ==
  /\ ServerUp /\ fetch[p].state = "asked"
  /\ LET found == ListTraces(0, ListLimit)
         reply == [id \in {found[i].id : i \in DOMAIN found} |-> traces[id].spans]
     IN  fetch' = [fetch EXCEPT ![p] = [state |-> "answered", reply |-> reply]]
  /\ UNCHANGED <<storeVars, hub, clients, stream, list, reached>>

NoTraces == [id \in {} |-> <<>>]

(* The page replaces its list by the reply, whatever it shows by now. *)
ListArrives(p) ==
  /\ fetch[p].state = "answered"
  /\ list'    = [list EXCEPT ![p] = fetch[p].reply]
  /\ fetch'   = [fetch EXCEPT ![p] = [state |-> "loaded", reply |-> NoTraces]]
  /\ reached' = [reached EXCEPT ![p] = Waiting(p)]
  /\ UNCHANGED <<storeVars, hub, clients, stream>>

ListFails(p) ==
  /\ MayBreak /\ ServerUp /\ fetch[p].state \in {"asked", "answered"}
  /\ fetch' = [fetch EXCEPT ![p] = [state |-> "failed", reply |-> NoTraces]]
  /\ UNCHANGED <<storeVars, hub, clients, stream, list, reached>>

-----------------------------------------------------------------------------
LiveInit ==
  /\ Init
  /\ hub = [Idle EXCEPT !.pc = "off"]
  /\ clients = {}
  /\ stream  = [p \in Pages |-> <<>>]
  /\ list    = [p \in Pages |-> NoTraces]
  /\ fetch   = [p \in Pages |-> [state |-> "asked", reply |-> NoTraces]]
  /\ reached = [p \in Pages |-> {}]

HubStep == HubReceive \/ HubGetTrace \/ HubSendSpan \/ HubSendTrace

LiveNext ==
  \/ Submit /\ UNCHANGED <<hub, clients, stream, pageVars, reached>>
  \/ HubStart \/ HubStep \/ HubStop
  \/ \E p \in Pages :
       \/ Connect(p) \/ Disconnect(p) \/ Handle(p)
       \/ AnswerList(p) \/ ListArrives(p) \/ ListFails(p)

LiveSpec == LiveInit /\ [][LiveNext]_liveVars

(* The scheduler runs the hub's goroutine.  No page has to read anything,  *)
(* and nobody has to submit spans.                                         *)
FairLiveSpec == LiveSpec /\ WF_liveVars(HubStep)

-----------------------------------------------------------------------------
(* Properties. *)

(* A trace as a page shows it: some spans, the numbers of which tell them. *)
Shown(p, id) == {list[p][id][i].n : i \in DOMAIN list[p][id]}
Stored(id)   == {traces[id].spans[i].n : i \in DOMAIN traces[id].spans}

(* A broadcast that reached a page is never lost on it: once the page has  *)
(* handled its messages, it shows every span whose trace message got onto  *)
(* its channel and that the store still holds, whether the hub read the    *)
(* trace late, other messages were dropped, the connection broke later or  *)
(* the list loaded before or in between.                                   *)
ReachedIsShown ==
  \A p \in Pages : stream[p] = <<>> =>
    \A id \in DOMAIN traces : \A n \in reached[p] \cap Stored(id) :
      id \in DOMAIN list[p] /\ n \in Shown(p, id)

(* What a page shows of a trace is what one reading of the store gave: the *)
(* spans submitted for it from one of them on, without a gap.              *)
ShownWithoutGaps ==
  \A p \in Pages : \A id \in DOMAIN list[p] :
    LET ofTrace == {n \in DOMAIN added : added[n].trace = id}
    IN  /\ Shown(p, id) # {} /\ Shown(p, id) \subseteq ofTrace
        /\ \A n \in ofTrace : Min(Shown(p, id)) <= n /\ n <= Max(Shown(p, id))
                                => n \in Shown(p, id)

(* A page that reads nothing, or that is gone, never holds up the hub, and *)
(* with it every other page: each broadcast comes to an end.               *)
BroadcastEnds == (hub.pc \in {"have", "lock", "locked"}) ~> (hub.pc \in {"recv", "stopped"})
=============================================================================
