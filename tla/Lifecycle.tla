----------------------------- MODULE Lifecycle -----------------------------
(***************************************************************************)
(* The process: run of main.go starts up to four servers in an error group *)
(* and waits for them.  Each has a goroutine that serves and one that      *)
(* waits for the context and then makes the first one stop; the context is *)
(* done after a signal or after the first error of the group.  The signal  *)
(* may come at any time from NotifyContext on, and whatever binds, accepts *)
(* or parses a target may fail.                                            *)
(***************************************************************************)
EXTENDS Config

CONSTANTS
  Commands,  \* the commands of the instance
  MaxOpen    \* bound: gRPC calls and SQL connections open at a time

VARIABLES
  command,    \* what the process was started with
  cfg,        \* the settings, once parsed
  main,       \* run: "parse", "http", "grpc", "sql", "ui", "wait", "exited"
  exit,       \* exit status of the process
  signalled,  \* SIGINT or SIGTERM came
  groupErr,   \* a goroutine of the group returned an error
  srv,        \* server -> its goroutine in the group
  deaf,       \* the servers whose listener was closed, by Shutdown, GracefulStop or Close
  closed,     \* p.closed of the SQL proxy is closed
  open,       \* gRPC calls and SQL connections that are served
  failed,     \* history: something failed of itself
  early       \* history: the signal came before all servers were serving

serverVars == <<srv, groupErr, deaf, closed, open>>
vars == <<command, cfg, main, exit, signalled, serverVars, failed, early>>

Servers == {"http", "grpc", "sql", "ui"}
HTTPServers == {"http", "ui"}

Alive == main # "exited"

(* The Mut_ operators of this module are deliberately wrong variants of the *)
(* definitions that follow them.  No definition uses them: each shows that *)
(* some property would notice the bug.                                     *)

(* The shutdown goroutines got the context of the signal only. *)
Mut_ctxDone == signalled

ctxDone == signalled \/ groupErr

Enabled(s) ==
  CASE s = "grpc" -> cfg["grpc-target"] # ""
    [] s = "sql"  -> cfg["sql-target"] # ""
    [] OTHER      -> TRUE

-----------------------------------------------------------------------------
(* run *)

ExitsWith(code) == main' = "exited" /\ exit' = code

ParseArgs ==
  /\ main = "parse"
  /\ CASE command.version                         -> ExitsWith(0) /\ UNCHANGED <<cfg, failed>>
       [] ~ command.version /\ ~ Parse(command).ok -> ExitsWith(1) /\ failed' = TRUE /\ UNCHANGED cfg
       [] ~ command.version /\ Parse(command).ok   ->
            main' = "http" /\ cfg' = Parse(command).settings /\ UNCHANGED <<exit, failed>>
  /\ command' = [command EXCEPT !.flags = <<>>, !.default = NoFile, !.named = NoFile]
  /\ UNCHANGED <<signalled, serverVars, early>>

Following == [http |-> "grpc", grpc |-> "sql", sql |-> "ui", ui |-> "wait"]

(* A disabled server is skipped.  Of the others, the proxy cannot be made  *)
(* for its target, or the SQL listener cannot be opened: run returns at    *)
(* once; or the goroutine is started.                                      *)
Launch(s) ==
  /\ main = s
  /\ \/ Enabled(s) /\ srv' = [srv EXCEPT ![s] = "launched"]
        /\ main' = Following[s] /\ UNCHANGED <<exit, failed>>
     \/ ~ Enabled(s) /\ main' = Following[s] /\ UNCHANGED <<srv, exit, failed>>
     \/ Enabled(s) /\ s # "ui" /\ ExitsWith(1) /\ failed' = TRUE /\ UNCHANGED srv
  /\ UNCHANGED <<command, cfg, signalled, groupErr, deaf, closed, open, early>>

(* g.Wait *)
Wait ==
  /\ main = "wait"
  /\ \A s \in Servers : srv[s] \in {"none", "returned"}
  /\ ExitsWith(IF groupErr THEN 1 ELSE 0)
  /\ UNCHANGED <<command, cfg, signalled, serverVars, failed, early>>

Signal ==
  /\ Alive /\ main # "parse" /\ ~ signalled
  /\ signalled' = TRUE
  /\ early' = (main # "wait" \/ \E s \in Servers : srv[s] \in {"launched", "bound"})
  /\ UNCHANGED <<command, cfg, main, exit, serverVars, failed>>

-----------------------------------------------------------------------------
(* The goroutines of the group. *)

Becomes(s, state) ==
  /\ Alive /\ srv' = [srv EXCEPT ![s] = state]
  /\ UNCHANGED <<command, cfg, main, exit, signalled, deaf, closed, open, early>>

Returns(s, err) == Becomes(s, "returned") /\ groupErr' = (groupErr \/ err)

(* ListenAndServe notices a Shutdown that came before it. *)
ServeHTTP(s) ==
  /\ s \in HTTPServers /\ srv[s] = "launched"
  /\ \/ s \in deaf    /\ Returns(s, FALSE) /\ UNCHANGED failed
     \/ s \notin deaf /\ Becomes(s, "serving") /\ UNCHANGED <<groupErr, failed>>
     \/ s \notin deaf /\ Returns(s, TRUE) /\ failed' = TRUE

(* ErrServerClosed is no error.  It is returned while Shutdown still waits *)
(* for requests, up to five seconds, which nothing waits for.              *)
HTTPReturns(s) ==
  s \in HTTPServers /\ srv[s] = "serving" /\ s \in deaf /\ Returns(s, FALSE) /\ UNCHANGED failed

ListenGRPC ==
  /\ srv["grpc"] = "launched"
  /\ \/ Becomes("grpc", "bound") /\ UNCHANGED <<groupErr, failed>>
     \/ Returns("grpc", TRUE) /\ failed' = TRUE

(* Serve after GracefulStop returns ErrServerStopped. *)
ServeGRPC ==
  /\ srv["grpc"] = "bound" /\ UNCHANGED failed
  /\ \/ "grpc" \in deaf    /\ Returns("grpc", TRUE)
     \/ "grpc" \notin deaf /\ Becomes("grpc", "serving") /\ UNCHANGED groupErr

(* Serve waits until GracefulStop is done, which waits for the calls. *)
GRPCReturns ==
  /\ srv["grpc"] = "serving" /\ "grpc" \in deaf /\ open["grpc"] = 0
  /\ Returns("grpc", FALSE) /\ UNCHANGED failed

ServeSQL ==
  srv["sql"] = "launched" /\ Becomes("sql", "serving") /\ UNCHANGED <<groupErr, failed>>

(* Serve waits for its connections. *)
Mut_SQLReturns ==
  /\ srv["sql"] = "serving" /\ "sql" \in deaf /\ open["sql"] = 0
  /\ Returns("sql", ~ closed) /\ UNCHANGED failed

(* Accept fails on the closed listener: an error unless p.closed is closed. *)
SQLReturns ==
  srv["sql"] = "serving" /\ "sql" \in deaf /\ Returns("sql", ~ closed) /\ UNCHANGED failed

(* Accept fails of itself.  That is an error for each of the servers,      *)
(* except for the SQL proxy between the two steps of its Close.            *)
AcceptFails(s) ==
  /\ srv[s] = "serving" /\ s \notin deaf
  /\ Returns(s, s # "sql" \/ ~ closed)
  /\ failed' = (failed \/ s # "sql" \/ ~ closed)

-----------------------------------------------------------------------------
(* The goroutines that wait for the context. *)

Stopper(s, states) ==
  /\ Alive /\ ctxDone /\ srv[s] \in states /\ s \notin deaf
  /\ UNCHANGED <<command, cfg, main, exit, signalled, srv, groupErr, open, failed, early>>

(* Shutdown and GracefulStop; gRPC's goroutine starts once Listen is done. *)
Stop(s) ==
  /\ s # "sql"
  /\ Stopper(s, IF s = "grpc" THEN {"bound", "serving"} ELSE {"launched", "serving"})
  /\ deaf' = deaf \cup {s} /\ UNCHANGED closed

(* The listener is closed first. *)
Mut_Close ==
  /\ srv["sql"] \in {"launched", "serving", "returned"} /\ Alive /\ ctxDone
  /\ \/ "sql" \notin deaf /\ deaf' = deaf \cup {"sql"} /\ UNCHANGED closed
     \/ "sql" \in deaf /\ ~ closed /\ closed' = TRUE /\ UNCHANGED deaf
  /\ UNCHANGED <<command, cfg, main, exit, signalled, srv, groupErr, open, failed, early>>

(* Close of the SQL proxy: the channel, then the listener.  It then waits  *)
(* for the connections, and nothing waits for it.                          *)
Close ==
  /\ Stopper("sql", {"launched", "serving"})
  /\ \/ ~ closed /\ closed' = TRUE /\ UNCHANGED deaf
     \/ closed /\ deaf' = deaf \cup {"sql"} /\ UNCHANGED closed

-----------------------------------------------------------------------------
(* Calls and connections. *)

Served(s, n) ==
  /\ Alive /\ open' = [open EXCEPT ![s] = n]
  /\ UNCHANGED <<command, cfg, main, exit, signalled, srv, groupErr, deaf, closed, failed, early>>

Opens(s)  == srv[s] = "serving" /\ s \notin deaf /\ open[s] < MaxOpen /\ Served(s, open[s] + 1)
Closes(s) == open[s] > 0 /\ Served(s, open[s] - 1)

-----------------------------------------------------------------------------
Init ==
  /\ command \in Commands /\ cfg = Defaults /\ main = "parse" /\ exit = 0
  /\ signalled = FALSE /\ groupErr = FALSE
  /\ srv = [s \in Servers |-> "none"] /\ deaf = {} /\ closed = FALSE
  /\ open = [s \in {"grpc", "sql"} |-> 0]
  /\ failed = FALSE /\ early = FALSE

Run == ParseArgs \/ (\E s \in Servers : Launch(s)) \/ Wait

ServerStep(s) ==
  \/ ServeHTTP(s) \/ HTTPReturns(s)
  \/ s = "grpc" /\ (ListenGRPC \/ ServeGRPC \/ GRPCReturns)
  \/ s = "sql" /\ (ServeSQL \/ SQLReturns)

Next ==
  \/ Run \/ Signal
  \/ \E s \in Servers : ServerStep(s) \/ AcceptFails(s) \/ Stop(s)
  \/ Close
  \/ \E s \in {"grpc", "sql"} : Opens(s) \/ Closes(s)

(* Every goroutine goes on.  Nobody has to end a call or a connection.     *)
Fairness ==
  /\ WF_vars(Run) /\ WF_vars(Close)
  /\ \A s \in Servers : WF_vars(ServerStep(s)) /\ WF_vars(Stop(s))

Spec == Init /\ [][Next]_vars /\ Fairness

-----------------------------------------------------------------------------
(* Properties. *)

Over(f, g) == [x \in DOMAIN f \cup DOMAIN g |-> IF x \in DOMAIN f THEN f[x] ELSE g[x]]

(* What README.md says of the configuration: a flag beats the file, which  *)
(* beats the default.                                                      *)
Chosen(c) ==
  LET file == IF configPath(c) = "" THEN <<>> ELSE File(c).settings
  IN  [n \in Names |-> Over(c.flags, Over(file, Defaults))[n]]

(* Settings with which the servers can do their work: with somewhere to    *)
(* send requests, a place in the ring, and no negative limit.              *)
Servable(c) == c["http-target"] # "" /\ c["max-body-size"] >= 0 /\ c["max-traces"] >= 1

(* The process starts with exactly these settings, or not at all: it never *)
(* serves without a target, with a ring of no slots, which would make the  *)
(* first Add of the store write past its end, or with a SQL proxy and no   *)
(* database for EXPLAIN; and a file that cannot be read is not passed over.*)
StartsAsChosen ==
  [][main = "parse" /\ main' = "http" =>
       LET c == Chosen(command) IN
       /\ Servable(c) /\ Servable(cfg')
       /\ \A n \in Names : cfg'[n] = c[n] \/ (n = "explain-dsn" /\ c[n] = "")
       /\ cfg'["sql-target"] # "" => cfg'["explain-dsn"] # ""
       /\ configPath(command) # "" => File(command).there /\ File(command).valid]_vars

(* The exit status tells a failure from a stop.  A failure of any server,  *)
(* at any time, also after a signal, makes it 1; the goroutines that are   *)
(* made to return do not.  The exception is a signal before all servers    *)
(* are serving, which gRPC takes for an error.                             *)
ExitTellsFailure == ~ Alive => (failed => exit = 1) /\ (exit = 1 => failed \/ early)

(* A process that exits with status 0 has served all its gRPC calls to the *)
(* end.  (The same cannot be said of HTTP requests and SQL connections.)   *)
CallsAreDrained == ~ Alive /\ exit = 0 => open["grpc"] = 0

(* What main.go promises with its exit status.                             *)
ExitIsTruthful == ExitTellsFailure /\ CallsAreDrained

Accepting(s) == srv[s] = "serving" /\ s \notin deaf

(* One signal, or the failure of one server, stops all: no server is left  *)
(* accepting, whatever the calls and connections under way do.             *)
AllStop == (ctxDone \/ failed) ~> (~ Alive \/ \A s \in Servers : ~ Accepting(s))

(* And the process ends, unless some gRPC call never does: idle SQL        *)
(* connections, for which Close waits, do not keep it, nor does an error   *)
(* between the start of the servers.                                       *)
StopCompletes == <>[](open["grpc"] = 0) => ((ctxDone \/ failed) ~> ~ Alive)
=============================================================================
