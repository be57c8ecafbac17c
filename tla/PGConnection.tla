---------------------------- MODULE PGConnection ----------------------------
(***************************************************************************)
(* The life of one connection through the SQL proxy: handleConn of         *)
(* internal/proxy/sql/proxy.go dials the server and sets a deadline,       *)
(* relayStartup and relayAuth (pgproxy.go) pass the handshake through, and *)
(* what follows is PGProxy, whose variables and actions are used here.     *)
(*                                                                         *)
(* A handshake message is one string; "N" and "S" are the one-byte replies *)
(* to a request for encryption, the authentication requests start with R.  *)
(* "tls" stands for the bytes of an encrypted connection.  Client and      *)
(* server are the environment; they follow the protocol, or hang up.  That *)
(* 30 seconds have passed is possible at any time while a deadline is set. *)
(***************************************************************************)
EXTENDS PGProxy, SequencesExt

CONSTANTS
  Clients,  \* what the client tries: sequences of first messages
  Servers   \* [ssl: its reply to an SSLRequest, auth: its messages]

FirstMessages == {"SSLRequest", "GSSENCRequest", "Startup", "CancelRequest", "Junk"}
LoginMessages == {"Rpassword", "Rsasl", "Rcontinue", "Rfinal", "Rok", "K", "Z", "E"}

(* After its startup message a client has nothing else to try. *)
IsAttempt(c) ==
  c \in Seq(FirstMessages) /\ \A i \in DOMAIN c : c[i] = "Startup" => i = Len(c)

(* A login ends in ReadyForQuery or an error, and with the first of them. *)
IsLogin(auth) ==
  /\ auth \in Seq(LoginMessages) /\ auth # <<>>
  /\ \A i \in DOMAIN auth : auth[i] \in {"Z", "E"} <=> i = Len(auth)

ASSUME ClientsAssumption == \A c \in Clients : IsAttempt(c)
ASSUME ServersAssumption == \A s \in Servers : s.ssl \in {"N", "S"} /\ IsLogin(s.auth)

VARIABLES
  stage,     \* handleConn: "dial", "first", "reply", "pipe", "auth", "answer", "relay"
  deadline,  \* of both connections: "none", "armed", "passed"
  tries,     \* what the client has yet to try
  waiting,   \* the client waits for an answer
  server,    \* what the server has yet to say
  cin, sin,  \* streams from client and server to the proxy
  cout, sout \* streams from the proxy to client and server

startVars == <<stage, deadline, tries, waiting, server, cin, sin, cout, sout>>
allVars   == <<vars, startVars>>
peerVars  == <<tries, waiting, server>>

(* The Mut_ operators of this module are deliberately wrong variants of the *)
(* definitions that follow them.  No definition uses them: each shows that *)
(* some property would notice the bug.                                     *)

(* AuthenticationSASLFinal is taken for a request. *)
Mut_NeedsAnswer(m) == m \in {"Rpassword", "Rsasl", "Rcontinue", "Rfinal"}

(* The authentication types other than Ok (0) and SASLFinal (12). *)
NeedsAnswer(m) == m \in {"Rpassword", "Rsasl", "Rcontinue"}

-----------------------------------------------------------------------------
(* Client and server. *)

ClientTries ==
  /\ clientUp /\ stage # "relay" /\ handler = "wait" /\ ~ waiting /\ tries # <<>>
  /\ cin' = Append(cin, Head(tries)) /\ tries' = Tail(tries) /\ waiting' = TRUE
  /\ UNCHANGED <<vars, stage, deadline, server, sin, cout, sout>>

(* A refusal of encryption makes the client try what is next, an acceptance*)
(* makes it start TLS, and a request is answered.                          *)
ClientReads ==
  /\ clientUp /\ cout # <<>>
  /\ cout' = Tail(cout)
  /\ LET m == Head(cout) IN
     /\ waiting' = (m # "N" /\ waiting)
     /\ cin' = IF m \in {"Rpassword", "Rsasl", "Rcontinue"} THEN Append(cin, "p")
               ELSE IF m = "S" THEN Append(cin, "tls") ELSE cin
     /\ tries' = IF m = "S" THEN <<>> ELSE tries
  /\ UNCHANGED <<vars, stage, deadline, server, sin, sout>>

(* The server's messages up to the first that waits for an answer. *)
UpToRequest(auth) ==
  LET i == SelectInSeq(auth, LAMBDA m : m \in {"Rpassword", "Rsasl", "Rcontinue"})
  IN  IF i = 0 THEN Len(auth) ELSE i

(* A refused login and a request to cancel end the connection. *)
ServerAnswers ==
  /\ serverUp /\ sout # <<>>
  /\ LET m == Head(sout)
         n == UpToRequest(server.auth)
     IN CASE m = "SSLRequest"     -> sin' = Append(sin, server.ssl) /\ UNCHANGED <<server, serverUp>>
          [] m = "GSSENCRequest"  -> sin' = Append(sin, "N") /\ UNCHANGED <<server, serverUp>>
          [] m = "tls"            -> sin' = Append(sin, "tls") /\ UNCHANGED <<server, serverUp>>
          [] m = "CancelRequest"  -> serverUp' = FALSE /\ UNCHANGED <<server, sin>>
          [] m \in {"Startup", "p"} ->
               /\ sin' = sin \o SubSeq(server.auth, 1, n)
               /\ server' = [ssl |-> "N", auth |-> SubSeq(server.auth, n + 1, Len(server.auth))]
               /\ serverUp' = (Last(SubSeq(server.auth, 1, n)) # "E")
  /\ sout' = Tail(sout)
  /\ UNCHANGED <<clientVars, c2sVars, served, skipping, said, s2cVars, chanVars,
                 toProxy, toServer, fromServer, toClient,
                 stage, deadline, tries, waiting, cin, cout>>

-----------------------------------------------------------------------------
(* handleConn, relayStartup and relayAuth. *)

Waits == handler = "wait"

(* handleConn returns, which closes both connections. *)
Close == handler' = "returned" /\ UNCHANGED <<clientVars, c2sVars, serverVars, s2cVars,
           pending, pendingClosed, errCh, toProxy, toServer, fromServer, toClient>>

(* No deadline for the startup. *)
Mut_Dial ==
  /\ stage = "dial" /\ Waits
  /\ \/ stage' = "first" /\ UNCHANGED <<vars, deadline>>
     \/ Close /\ UNCHANGED <<stage, deadline>>
  /\ UNCHANGED <<peerVars, cin, sin, cout, sout>>

Dial ==
  /\ stage = "dial" /\ Waits
  /\ \/ stage' = "first" /\ deadline' = "armed" /\ UNCHANGED vars
     \/ Close /\ UNCHANGED <<stage, deadline>>
  /\ UNCHANGED <<peerVars, cin, sin, cout, sout>>

(* The first message: one of an impossible length ends the connection, an  *)
(* SSLRequest leads to a one-byte reply, and every other one, also a       *)
(* GSSENCRequest, is taken for the startup message.                        *)
ReadFirst ==
  /\ stage = "first" /\ Waits /\ cin # <<>>
  /\ LET m == Head(cin) IN
       IF m = "Junk"
       THEN Close /\ UNCHANGED <<stage, sout>>
       ELSE /\ sout' = Append(sout, m)
            /\ stage' = IF m = "SSLRequest" THEN "reply" ELSE "auth"
            /\ UNCHANGED vars
  /\ cin' = Tail(cin)
  /\ UNCHANGED <<deadline, peerVars, sin, cout>>

ReadReply ==
  /\ stage = "reply" /\ Waits /\ sin # <<>>
  /\ cout' = Append(cout, Head(sin)) /\ sin' = Tail(sin)
  /\ stage' = IF Head(sin) = "N" THEN "first" ELSE "pipe"
  /\ UNCHANGED <<vars, deadline, peerVars, cin, sout>>

(* io.Copy in both directions. *)
Pipe ==
  /\ stage = "pipe" /\ Waits
  /\ \/ cin # <<>> /\ sout' = Append(sout, Head(cin)) /\ cin' = Tail(cin) /\ UNCHANGED <<sin, cout>>
     \/ sin # <<>> /\ cout' = Append(cout, Head(sin)) /\ sin' = Tail(sin) /\ UNCHANGED <<cin, sout>>
  /\ UNCHANGED <<vars, stage, deadline, peerVars>>

(* The deadlines stay. *)
Mut_NoClear ==
  /\ stage = "auth" /\ Waits /\ sin # <<>> /\ Head(sin) # "N"
  /\ cout' = Append(cout, Head(sin)) /\ sin' = Tail(sin)
  /\ stage' = CASE NeedsAnswer(Head(sin)) -> "answer"
                [] Head(sin) = "Z"        -> "relay"
                [] OTHER                  -> "auth"
  /\ UNCHANGED <<vars, deadline, peerVars, cin, sout>>

(* A message of the server, of which a one-byte reply is no more than the  *)
(* beginning; ReadyForQuery ends the startup, and the deadlines with it.   *)
RelayAuth ==
  /\ stage = "auth" /\ Waits /\ sin # <<>> /\ Head(sin) # "N"
  /\ cout' = Append(cout, Head(sin)) /\ sin' = Tail(sin)
  /\ stage' = CASE NeedsAnswer(Head(sin)) -> "answer"
                [] Head(sin) = "Z"        -> "relay"
                [] OTHER                  -> "auth"
  /\ deadline' = IF stage' = "relay" THEN "none" ELSE deadline
  /\ UNCHANGED <<vars, peerVars, cin, sout>>

RelayAnswer ==
  /\ stage = "answer" /\ Waits /\ cin # <<>>
  /\ sout' = Append(sout, Head(cin)) /\ cin' = Tail(cin) /\ stage' = "auth"
  /\ UNCHANGED <<vars, deadline, peerVars, sin, cout>>

(* A read fails at the end of a stream, a write may fail once its reader   *)
(* has gone.  The end of the client's stream is not noticed in the pipe.   *)
StartupFails ==
  /\ Waits
  /\ \/ stage \in {"first", "answer"} /\ cin = <<>> /\ ~ clientUp
     \/ stage \in {"reply", "auth", "pipe"} /\ sin = <<>> /\ ~ serverUp
     \/ stage \in {"reply", "auth", "pipe"} /\ sin # <<>> /\ ~ clientUp
     \/ stage \in {"first", "answer"} /\ cin # <<>> /\ ~ serverUp
  /\ Close /\ UNCHANGED startVars

DeadlinePasses ==
  /\ deadline = "armed" /\ Waits
  /\ deadline' = "passed"
  /\ UNCHANGED <<vars, stage, peerVars, cin, sin, cout, sout>>

(* Every read and write fails after the deadline, whatever the stage. *)
TimesOut ==
  /\ deadline = "passed" /\ Waits
  /\ IF stage = "relay"
     THEN /\ c2s.pc = "read" /\ c2s' = [pc |-> "return", msg |-> NoMsg]
          /\ UNCHANGED <<clientVars, preparedStmts, parseSeen, serverVars, s2cVars, chanVars,
                         toProxy, toServer, fromServer, toClient>>
     ELSE Close
  /\ UNCHANGED startVars

-----------------------------------------------------------------------------
ConnInit ==
  /\ Init
  /\ stage = "dial" /\ deadline = "none"
  /\ tries \in Clients /\ waiting = FALSE /\ server \in Servers
  /\ cin = <<>> /\ sin = <<>> /\ cout = <<>> /\ sout = <<>>

StartupStep ==
  \/ Dial \/ ReadFirst \/ ReadReply \/ Pipe \/ RelayAuth \/ RelayAnswer
  \/ StartupFails \/ TimesOut

PeerStep == ClientTries \/ ClientReads \/ ServerAnswers

(* The relay of PGProxy.  Nothing happens in it before the client has read *)
(* the end of the handshake, as far as the proxy can tell.                 *)
InRelay(A) ==
  stage = "relay" /\ (cout = <<>> \/ ~ clientUp) /\ A /\ UNCHANGED startVars

ConnNext ==
  \/ StartupStep \/ PeerStep \/ DeadlinePasses
  \/ stage # "relay" /\ (ClientHangUp \/ ServerHangUp) /\ UNCHANGED startVars
  \/ InRelay(Next)

(* The fairness of PGProxy, and: the proxy handles what has arrived, client*)
(* and server answer while they are there, and time passes.                *)
ConnSpec ==
  /\ ConnInit /\ [][ConnNext]_allVars
  /\ WF_allVars(StartupStep) /\ WF_allVars(PeerStep) /\ WF_allVars(DeadlinePasses)
  /\ WF_allVars(InRelay(C2SStep)) /\ WF_allVars(InRelay(S2CStep))
  /\ WF_allVars(InRelay(HandlerReturns))
  /\ WF_allVars(InRelay(Serve)) /\ WF_allVars(InRelay(ClientRecv))

-----------------------------------------------------------------------------
(* Properties. *)

(* The relay takes over at a message boundary at which all three agree that*)
(* the startup is over: nothing of the handshake is left to be read as a   *)
(* query or as an answer, whatever the kind of authentication and however  *)
(* often encryption was refused before.                                    *)
RelayStartsInStep ==
  stage = "relay" => cin = <<>> /\ sin = <<>> /\ sout = <<>> /\ server.auth = <<>> /\ tries = <<>>

(* relayStartup and relayAuth never read from the peer that is itself      *)
(* waiting: as long as both are there, the one they read from has said     *)
(* something or has something to answer.  (The refusal of a GSSENCRequest  *)
(* is such a something, but one byte that relayAuth cannot read: only the  *)
(* deadline ends that connection.)                                         *)
NoMutualWait ==
  Waits /\ clientUp /\ serverUp =>
    /\ stage \in {"first", "answer"} => cin # <<>> \/ cout # <<>> \/ ~ waiting
    /\ stage \in {"reply", "auth"} => sin # <<>> \/ sout # <<>>

(* The proxy goes through the handshake in step with its peers.            *)
HandshakeInStep == RelayStartsInStep /\ NoMutualWait

(* A connection does not stay in its startup: whatever the peers do, it    *)
(* reaches the relay or is closed.  That includes the connections that     *)
(* switched to SSL, which the same deadline cuts while they are in use.    *)
StartupEnds == (stage # "relay") ~> (stage = "relay" \/ ~ Waits)

(* The deadline of the startup never ends a connection that has reached    *)
(* the relay, however long that takes: a direction only ends after one of  *)
(* the peers has hung up, the client has terminated the session, or the    *)
(* other direction has ended.                                              *)
RelayIsUntimed ==
  [][stage = "relay" /\ c2s.pc # "return" /\ c2s'.pc = "return"
       => ~ clientUp \/ ~ serverUp \/ ~ Running
          \/ (toProxy # <<>> /\ Head(toProxy).type = "X")]_allVars
=============================================================================
