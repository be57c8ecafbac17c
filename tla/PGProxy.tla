------------------------------ MODULE PGProxy ------------------------------
(***************************************************************************)
(* One PostgreSQL connection through the SQL proxy, after its startup      *)
(* phase: internal/proxy/sql/pgproxy.go, HandleConnection from its phase 2 *)
(* on.  Two goroutines relay the two directions.  The client-to-server     *)
(* goroutine (c2s) captures queries into the bounded channel pending; the  *)
(* server-to-client goroutine (s2c) takes one entry off it for every       *)
(* ReadyForQuery and reports it, with the rows and the error it counted.   *)
(* The first goroutine to finish makes HandleConnection return, and        *)
(* handleConn (proxy.go) then closes both connections.                     *)
(*                                                                         *)
(* The client runs a program: a sequence of messages, each tagged with the *)
(* query cycle it belongs to (a cycle ends in Q or in Sync, the messages   *)
(* the server answers with ReadyForQuery).  The tag is the specification's *)
(* own; the code does not see it.  Client and server are the environment.  *)
(*                                                                         *)
(* A step ends where a goroutine's effect becomes visible to another one,  *)
(* so reading a message and writing it on is one step unless a channel     *)
(* operation stands between the two.                                       *)
(***************************************************************************)
EXTENDS Integers, Sequences, FiniteSets, FiniteSetsExt

CONSTANTS
  Programs,     \* the client programs: sequences of messages
  Stmts,        \* names of prepared statements
  NoStmt,       \* "": the unnamed statement
  Queries,      \* query texts
  NoQuery,      \* "": no text
  PendingCap,   \* capacity of pending (64 in the code)
  MaxRows,      \* bound: rows the server returns per statement
  Ahead,        \* how many cycles the client sends before their answers
  MayHangUp     \* whether client and server may drop the connection

ASSUME NamesAssumption == NoStmt \notin Stmts /\ NoQuery \notin Queries
ASSUME CapAssumption   == PendingCap \in Nat \ {0} /\ Ahead \in Nat \ {0} /\ MaxRows \in Nat

VARIABLES
  program,        \* what the client will send
  sent,           \* how much of it the client has sent
  clientUp,       \* the client has not hung up
  toProxy,        \* stream client -> c2s
  c2s,            \* the c2s goroutine: [pc, msg]
  preparedStmts,  \* c2s: statement name -> query text, NoQuery if absent
  parseSeen,      \* c2s: a Parse was captured since the last Sync
  toServer,       \* stream c2s -> server
  served,         \* history: what the server has read
  skipping,       \* the server ignores messages up to the next Sync
  serverUp,       \* the server has not closed the connection
  fromServer,     \* stream server -> s2c
  said,           \* history: what the server has written
  s2c,            \* the s2c goroutine: [pc, msg]
  rowCount,       \* s2c: DataRows since the last ReadyForQuery
  lastError,      \* s2c: an ErrorResponse came since the last ReadyForQuery
  toClient,       \* stream s2c -> client
  clientGot,      \* history: what the client has read
  pending,        \* channel c2s -> s2c
  pendingClosed,  \* close(pending) was called
  errCh,          \* how many results wait in errCh
  handler,        \* HandleConnection: "wait" or "returned"
  events          \* history: the QueryEvents reported through onQuery

clientVars == <<program, sent, clientUp, clientGot>>
c2sVars    == <<c2s, preparedStmts, parseSeen>>
serverVars == <<served, skipping, serverUp, said>>
s2cVars    == <<s2c, rowCount, lastError, events>>
chanVars   == <<pending, pendingClosed, errCh, handler>>
vars == <<clientVars, c2sVars, serverVars, s2cVars, chanVars,
          toProxy, toServer, fromServer, toClient>>

(* Messages.  Of the frontend's, "E" stands for Execute and every other    *)
(* type proxyClientToServer only relays; of the backend's, "C" stands for  *)
(* CommandComplete and every other type proxyServerToClient only relays.   *)
ClientMsg == [type : {"Q", "P", "B", "E", "S", "X"}, stmt : Stmts \cup {NoStmt},
              query : Queries \cup {NoQuery}, cycle : Nat]
ServerMsg == [type : {"D", "C", "E", "Z"}, cycle : Nat]
NoMsg     == [type |-> "none"]

(* pendingQuery: the text captured, and the cycle it was captured from. *)
Pending == [query : Queries \cup {NoQuery}, cycle : Nat]
Event   == [query : Queries \cup {NoQuery}, asked : Nat, answered : Nat, rows : Nat,
            error : BOOLEAN]

(* The messages of a program carry their cycles, which are counted from 1. *)
EndsCycle(m) == m.type \in {"Q", "S"}

ASSUME ProgramsAssumption ==
  \A p \in Programs :
    /\ p \in Seq(ClientMsg)
    /\ \A i \in 1 .. Len(p) : p[i].cycle = 1 + Cardinality({j \in 1 .. i - 1 : EndsCycle(p[j])})

Running == handler = "wait"   \* both connections are still open

-----------------------------------------------------------------------------
(* The client. *)

Answered == Cardinality({i \in DOMAIN clientGot : clientGot[i].type = "Z"})

ClientSend ==
  /\ clientUp /\ sent < Len(program)
  /\ program[sent + 1].cycle <= Answered + Ahead
  /\ sent' = sent + 1
  /\ toProxy' = Append(toProxy, program[sent + 1])
  /\ UNCHANGED <<program, clientUp, clientGot, c2sVars, serverVars, s2cVars,
                 chanVars, toServer, fromServer, toClient>>

ClientRecv ==
  /\ clientUp /\ toClient # <<>>
  /\ clientGot' = Append(clientGot, Head(toClient))
  /\ toClient'  = Tail(toClient)
  /\ UNCHANGED <<program, sent, clientUp, c2sVars, serverVars, s2cVars, chanVars,
                 toProxy, toServer, fromServer>>

ClientHangUp ==
  /\ MayHangUp /\ clientUp
  /\ clientUp' = FALSE
  /\ UNCHANGED <<program, sent, clientGot, c2sVars, serverVars, s2cVars, chanVars,
                 toProxy, toServer, fromServer, toClient>>

-----------------------------------------------------------------------------
(* proxyClientToServer. *)

(* The Mut_ operators of this module are deliberately wrong variants of the *)
(* definitions that follow them.  No definition uses them: each shows that *)
(* some property would notice the bug.                                     *)

(* A plain send: c2s waits for room. *)
Mut_BlockingSend(text, cycle) ==
  /\ Len(pending) < PendingCap
  /\ pending' = Append(pending, [query |-> text, cycle |-> cycle])

(* The entry is dropped when the buffer is full: c2s never blocks here. *)
trySend(text, cycle) ==
  pending' = IF Len(pending) < PendingCap
             THEN Append(pending, [query |-> text, cycle |-> cycle])
             ELSE pending

ReadClient(type) ==
  /\ c2s.pc = "read" /\ Running
  /\ toProxy # <<>> /\ Head(toProxy).type = type
  /\ toProxy' = Tail(toProxy)

(* writePGMessage(server, ...) while the connection is open. *)
WriteServer(m) == toServer' = Append(toServer, m)

(* The branch falls through to the write at the end of the loop. *)
Mut_NoContinue ==
  /\ ReadClient("Q")
  /\ toServer' = toServer \o <<Head(toProxy), Head(toProxy)>>
  /\ c2s' = [pc |-> "capture", msg |-> Head(toProxy)]
  /\ UNCHANGED <<clientVars, preparedStmts, parseSeen, serverVars, s2cVars,
                 chanVars, fromServer, toClient>>

(* A simple query is written to the server first ... *)
ReadQuery ==
  /\ ReadClient("Q")
  /\ WriteServer(Head(toProxy))
  /\ c2s' = [pc |-> "capture", msg |-> Head(toProxy)]
  /\ UNCHANGED <<clientVars, preparedStmts, parseSeen, serverVars, s2cVars,
                 chanVars, fromServer, toClient>>

(* ... and captured afterwards. *)
CaptureQuery ==
  /\ c2s.pc = "capture"
  /\ trySend(c2s.msg.query, c2s.msg.cycle)
  /\ c2s' = [pc |-> "read", msg |-> NoMsg]
  /\ UNCHANGED <<clientVars, preparedStmts, parseSeen, serverVars, s2cVars,
                 pendingClosed, errCh, handler, toProxy, toServer, fromServer, toClient>>

(* A Parse is remembered under its name, captured, and then written on. *)
ReadParse ==
  /\ ReadClient("P")
  /\ LET m == Head(toProxy) IN
     /\ preparedStmts' = IF m.stmt # NoStmt /\ m.query # NoQuery
                         THEN [preparedStmts EXCEPT ![m.stmt] = m.query]
                         ELSE preparedStmts
     /\ IF m.query # NoQuery
        THEN trySend(m.query, m.cycle) /\ parseSeen' = TRUE
        ELSE UNCHANGED <<pending, parseSeen>>
     /\ c2s' = [pc |-> "forward", msg |-> m]
  /\ UNCHANGED <<clientVars, serverVars, s2cVars, pendingClosed, errCh, handler,
                 toServer, fromServer, toClient>>

(* The Bind is captured although its Parse was. *)
Mut_ReadBind ==
  /\ ReadClient("B")
  /\ LET m == Head(toProxy) IN
     /\ IF m.stmt \in Stmts /\ preparedStmts[m.stmt] # NoQuery
        THEN trySend(preparedStmts[m.stmt], m.cycle)
        ELSE UNCHANGED pending
     /\ c2s' = [pc |-> "forward", msg |-> m]
  /\ UNCHANGED <<clientVars, preparedStmts, parseSeen, serverVars, s2cVars,
                 pendingClosed, errCh, handler, toServer, fromServer, toClient>>

(* A Bind stands for a query only if its statement is known and no Parse   *)
(* of the same message group was captured.                                 *)
ReadBind ==
  /\ ReadClient("B")
  /\ LET m == Head(toProxy) IN
     /\ IF ~ parseSeen /\ m.stmt \in Stmts /\ preparedStmts[m.stmt] # NoQuery
        THEN trySend(preparedStmts[m.stmt], m.cycle)
        ELSE UNCHANGED pending
     /\ c2s' = [pc |-> "forward", msg |-> m]
  /\ UNCHANGED <<clientVars, preparedStmts, parseSeen, serverVars, s2cVars,
                 pendingClosed, errCh, handler, toServer, fromServer, toClient>>

Forward ==
  /\ c2s.pc = "forward" /\ Running
  /\ WriteServer(c2s.msg)
  /\ c2s' = [pc |-> "read", msg |-> NoMsg]
  /\ UNCHANGED <<clientVars, preparedStmts, parseSeen, serverVars, s2cVars,
                 chanVars, toProxy, fromServer, toClient>>

ReadSync ==
  /\ ReadClient("S")
  /\ parseSeen' = FALSE
  /\ WriteServer(Head(toProxy))
  /\ UNCHANGED <<clientVars, c2s, preparedStmts, serverVars, s2cVars, chanVars,
                 fromServer, toClient>>

ReadOther ==
  /\ ReadClient("E")
  /\ WriteServer(Head(toProxy))
  /\ UNCHANGED <<clientVars, c2sVars, serverVars, s2cVars, chanVars, fromServer, toClient>>

(* Terminate is relayed, and the goroutine returns. *)
ReadTerminate ==
  /\ ReadClient("X")
  /\ WriteServer(Head(toProxy))
  /\ c2s' = [pc |-> "return", msg |-> NoMsg]
  /\ UNCHANGED <<clientVars, preparedStmts, parseSeen, serverVars, s2cVars,
                 chanVars, fromServer, toClient>>

(* A read fails once the client has hung up and its stream is drained, a   *)
(* write may fail once the server has closed, and both fail after          *)
(* handleConn has closed the connections.                                  *)
C2SFails ==
  /\ \/ c2s.pc = "read" /\ toProxy = <<>> /\ ~ clientUp
     \/ c2s.pc \in {"read", "forward"} /\ ~ Running
     \/ c2s.pc = "forward" /\ ~ serverUp
     \/ /\ c2s.pc = "read" /\ toProxy # <<>> /\ ~ serverUp
        /\ Head(toProxy).type \in {"Q", "E", "S", "X"}
  /\ c2s' = [pc |-> "return", msg |-> NoMsg]
  /\ UNCHANGED <<clientVars, preparedStmts, parseSeen, serverVars, s2cVars,
                 chanVars, toProxy, toServer, fromServer, toClient>>

-----------------------------------------------------------------------------
(* The server.  Inside a failed extended-query group it ignores everything *)
(* up to the Sync.                                                         *)

Rows(n, cycle) == [i \in 1 .. n |-> [type |-> "D", cycle |-> cycle]]
Reply(type, cycle) == <<[type |-> type, cycle |-> cycle]>>

(* What the server may write in answer to m, and whether it then skips. *)
Replies(m) ==
  LET outcomes == {Rows(n, m.cycle) \o Reply("C", m.cycle) : n \in 0 .. MaxRows}
                  \cup {Reply("E", m.cycle)}
  IN CASE m.type = "Q" -> {[out |-> o \o Reply("Z", m.cycle), skip |-> FALSE] : o \in outcomes}
       [] m.type = "S" -> {[out |-> Reply("Z", m.cycle), skip |-> FALSE]}
       [] m.type = "E" /\ ~ skipping ->
            {[out |-> o, skip |-> o = Reply("E", m.cycle)] : o \in outcomes}
       [] m.type \in {"P", "B"} /\ ~ skipping ->
            {[out |-> <<>>, skip |-> FALSE], [out |-> Reply("E", m.cycle), skip |-> TRUE]}
       [] OTHER -> {[out |-> <<>>, skip |-> skipping]}

Serve ==
  /\ serverUp /\ toServer # <<>>
  /\ LET m == Head(toServer) IN
     /\ served' = Append(served, m)
     /\ \E r \in Replies(m) :
          /\ fromServer' = fromServer \o r.out
          /\ said' = said \o r.out
          /\ skipping' = r.skip
     /\ serverUp' = (m.type # "X")
  /\ toServer' = Tail(toServer)
  /\ UNCHANGED <<clientVars, c2sVars, s2cVars, chanVars, toProxy, toClient>>

ServerHangUp ==
  /\ MayHangUp /\ serverUp
  /\ serverUp' = FALSE
  /\ UNCHANGED <<clientVars, c2sVars, served, skipping, said, s2cVars, chanVars,
                 toProxy, toServer, fromServer, toClient>>

-----------------------------------------------------------------------------
(* proxyServerToClient. *)

(* A message is relayed, and counted if it is a DataRow or an error. *)
RelayToClient ==
  /\ s2c.pc = "read" /\ Running /\ fromServer # <<>>
  /\ LET m == Head(fromServer) IN
     /\ toClient'  = Append(toClient, m)
     /\ rowCount'  = IF m.type = "D" THEN rowCount + 1 ELSE rowCount
     /\ lastError' = (m.type = "E" \/ lastError)
     /\ s2c' = IF m.type = "Z" THEN [pc |-> "ready", msg |-> m] ELSE s2c
  /\ fromServer' = Tail(fromServer)
  /\ UNCHANGED <<clientVars, c2sVars, serverVars, chanVars, toProxy, toServer, events>>

(* The counters start again only when an event was reported. *)
Mut_ResetOnlyWithEvent ==
  /\ s2c.pc = "ready"
  /\ IF pending # <<>>
     THEN /\ events' = Append(events, [query    |-> Head(pending).query,
                                       asked    |-> Head(pending).cycle,
                                       answered |-> s2c.msg.cycle,
                                       rows     |-> rowCount,
                                       error    |-> lastError])
          /\ pending' = Tail(pending)
          /\ rowCount' = 0 /\ lastError' = FALSE
     ELSE UNCHANGED <<events, pending, rowCount, lastError>>
  /\ s2c' = [pc |-> "read", msg |-> NoMsg]
  /\ UNCHANGED <<clientVars, c2sVars, serverVars, pendingClosed, errCh, handler,
                 toProxy, toServer, fromServer, toClient>>

(* ReadyForQuery, already on its way to the client, takes the entry at the *)
(* front of pending, if there is one, and reports it; the counters start   *)
(* again either way.                                                       *)
ReadyForQuery ==
  /\ s2c.pc = "ready"
  /\ IF pending # <<>>
     THEN /\ events' = Append(events, [query    |-> Head(pending).query,
                                       asked    |-> Head(pending).cycle,
                                       answered |-> s2c.msg.cycle,
                                       rows     |-> rowCount,
                                       error    |-> lastError])
          /\ pending' = Tail(pending)
     ELSE UNCHANGED <<events, pending>>
  /\ rowCount' = 0 /\ lastError' = FALSE
  /\ s2c' = [pc |-> "read", msg |-> NoMsg]
  /\ UNCHANGED <<clientVars, c2sVars, serverVars, pendingClosed, errCh, handler,
                 toProxy, toServer, fromServer, toClient>>

(* The read fails at the end of the server's stream, the write may fail    *)
(* once the client has hung up, and both fail on closed connections.       *)
S2CFails ==
  /\ s2c.pc = "read"
  /\ \/ fromServer = <<>> /\ ~ serverUp
     \/ fromServer # <<>> /\ ~ clientUp
     \/ ~ Running
  /\ s2c' = [pc |-> "return", msg |-> NoMsg]
  /\ UNCHANGED <<clientVars, c2sVars, serverVars, rowCount, lastError, events,
                 chanVars, toProxy, toServer, fromServer, toClient>>

-----------------------------------------------------------------------------
(* HandleConnection. *)

(* An unbuffered channel, of which only one result is received. *)
Mut_ErrCap == 0

(* make(chan error, 2) *)
ErrCap == 2

(* A send on errCh proceeds if the buffer has room or a receiver waits. *)
CanReport == errCh < ErrCap \/ (errCh = 0 /\ handler = "wait")

(* c2s has returned: pending is closed, and its error is reported. *)
C2SReturns ==
  /\ c2s.pc = "return" /\ CanReport
  /\ pendingClosed' = TRUE
  /\ errCh' = errCh + 1
  /\ c2s' = [pc |-> "done", msg |-> NoMsg]
  /\ UNCHANGED <<clientVars, preparedStmts, parseSeen, serverVars, s2cVars, pending,
                 handler, toProxy, toServer, fromServer, toClient>>

S2CReturns ==
  /\ s2c.pc = "return" /\ CanReport
  /\ errCh' = errCh + 1
  /\ s2c' = [pc |-> "done", msg |-> NoMsg]
  /\ UNCHANGED <<clientVars, c2sVars, serverVars, rowCount, lastError, events, pending,
                 pendingClosed, handler, toProxy, toServer, fromServer, toClient>>

(* <-errCh: HandleConnection returns, and handleConn closes both ends. *)
HandlerReturns ==
  /\ handler = "wait" /\ errCh > 0
  /\ errCh' = errCh - 1
  /\ handler' = "returned"
  /\ UNCHANGED <<clientVars, c2sVars, serverVars, s2cVars, pending, pendingClosed,
                 toProxy, toServer, fromServer, toClient>>

-----------------------------------------------------------------------------
(* The state in which relayStartup has returned true: the ReadyForQuery    *)
(* that ends authentication has been relayed already.                      *)
Init ==
  /\ program \in Programs
  /\ sent = 0 /\ clientUp = TRUE /\ clientGot = <<>>
  /\ c2s = [pc |-> "read", msg |-> NoMsg]
  /\ preparedStmts = [s \in Stmts |-> NoQuery]
  /\ parseSeen = FALSE
  /\ served = <<>> /\ skipping = FALSE /\ serverUp = TRUE /\ said = <<>>
  /\ s2c = [pc |-> "read", msg |-> NoMsg]
  /\ rowCount = 0 /\ lastError = FALSE /\ events = <<>>
  /\ pending = <<>> /\ pendingClosed = FALSE
  /\ errCh = 0 /\ handler = "wait"
  /\ toProxy = <<>> /\ toServer = <<>> /\ fromServer = <<>> /\ toClient = <<>>

C2SStep ==
  \/ ReadQuery \/ CaptureQuery \/ ReadParse \/ ReadBind \/ Forward
  \/ ReadSync \/ ReadOther \/ ReadTerminate \/ C2SFails \/ C2SReturns

S2CStep == RelayToClient \/ ReadyForQuery \/ S2CFails \/ S2CReturns

Next ==
  \/ ClientSend \/ ClientRecv \/ ClientHangUp
  \/ C2SStep
  \/ Serve \/ ServerHangUp
  \/ S2CStep
  \/ HandlerReturns

Spec == Init /\ [][Next]_vars

(* The scheduler runs the three goroutines whenever they can proceed, the  *)
(* server answers, and the client reads its answers.  Nobody has to send.  *)
Fairness ==
  /\ WF_vars(C2SStep) /\ WF_vars(S2CStep) /\ WF_vars(HandlerReturns)
  /\ WF_vars(Serve) /\ WF_vars(ClientRecv)

FairSpec == Spec /\ Fairness

-----------------------------------------------------------------------------
(* Properties. *)

InHand == IF c2s.pc = "forward" THEN <<c2s.msg>> ELSE <<>>

(* Capturing is invisible on the wire: as long as the connection is open,  *)
(* what the server has read, what is under way and what c2s holds is       *)
(* exactly what the client sent, and likewise in the other direction.  No  *)
(* branch of the switch forwards a message twice, drops or reorders one.   *)
TransparentRelay ==
  Running /\ c2s.pc \notin {"return", "done"} /\ s2c.pc \notin {"return", "done"} =>
    /\ served \o toServer \o InHand \o toProxy = SubSeq(program, 1, sent)
    /\ clientGot \o toClient \o fromServer = said

RowsOf(cycle)  == Cardinality({i \in DOMAIN said : said[i] = [type |-> "D", cycle |-> cycle]})
ErrorIn(cycle) == \E i \in DOMAIN said : said[i] = [type |-> "E", cycle |-> cycle]

(* The rows and the error a QueryEvent reports are those of one cycle, the *)
(* one whose ReadyForQuery triggered it: nothing is carried over from a    *)
(* cycle that reported no event, however the two goroutines interleave.    *)
EventCountsOneCycle ==
  \A i \in DOMAIN events :
    /\ events[i].rows  = RowsOf(events[i].answered)
    /\ events[i].error = ErrorIn(events[i].answered)

(* Reports keep step with answers: when s2c is about to read, it has       *)
(* reported one event for each ReadyForQuery it relayed, and the event     *)
(* names the query of that very cycle.                                     *)
EventsMatchCycles ==
  /\ \A i \in DOMAIN events : events[i].asked = i /\ events[i].answered = i
  /\ s2c.pc = "read" =>
       LET relayed == clientGot \o toClient
       IN  Len(events) = Cardinality({i \in DOMAIN relayed : relayed[i].type = "Z"})

(* A Parse with a query text. *)
IsParse(m) == m.type = "P" /\ m.query # NoQuery

(* The messages whose query proxyClientToServer captures ahead of the      *)
(* server: every Parse, and a Bind of a known statement in a cycle in      *)
(* which no Parse precedes it.                                             *)
CapturesAhead(i) ==
  \/ IsParse(program[i])
  \/ /\ program[i].type = "B" /\ program[i].stmt # NoStmt
     /\ \E j \in 1 .. i - 1 : IsParse(program[j]) /\ program[j].stmt = program[i].stmt
     /\ \A j \in 1 .. i - 1 : IsParse(program[j]) => program[j].cycle # program[i].cycle

OneCapturePerCycle ==
  /\ \A i \in DOMAIN program : program[i].type # "Q"
  /\ \A c \in {program[i].cycle : i \in DOMAIN program} :
       Cardinality({i \in DOMAIN program : program[i].cycle = c /\ CapturesAhead(i)}) = 1

(* A client that uses the extended protocol with one statement per Sync,   *)
(* as pgx does by default, and keeps fewer cycles under way than pending   *)
(* holds, gets events that match its cycles, up to the moment one of the   *)
(* directions ends.                                                        *)
OneStatementPerSync ==
  OneCapturePerCycle /\ Ahead < PendingCap /\ Running => EventsMatchCycles

Longest == Max({Len(p) : p \in Programs})

(* Every message the client sends is written to the server unless the      *)
(* connection ends first: c2s is never stuck on the pending channel, which *)
(* only a ReadyForQuery drains, and the Sync that provokes it may be the   *)
(* very message c2s has yet to write.                                      *)
EverythingForwarded ==
  \A n \in 1 .. Longest : (sent >= n) ~> (Len(served) + Len(toServer) >= n \/ ~ Running)

(* Once either direction has ended, both goroutines come to an end: the    *)
(* second one is woken by the closed connections and does not block on     *)
(* reporting an error nobody receives.                                     *)
TeardownCompletes ==
  (c2s.pc = "return" \/ s2c.pc = "return") ~> (c2s.pc = "done" /\ s2c.pc = "done")
=============================================================================
