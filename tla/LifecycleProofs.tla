-------------------------- MODULE LifecycleProofs ---------------------------
(***************************************************************************)
(* Theorems about Lifecycle and Config, for every set of command lines and *)
(* files and every number of open calls.                                   *)
(*                                                                         *)
(* ExitIsTruthful is about the moment main returns, so the invariant has to*)
(* follow the error of the group (ErrorKnown) and the open calls (Drained) *)
(* up to there.  A gRPC server that is told to stop before it serves is the*)
(* one error that is no failure; NotYetServing says that the signal behind *)
(* it came early.                                                          *)
(***************************************************************************)
EXTENDS Lifecycle, SequenceTheorems, TLAPS

States == {"none", "launched", "bound", "serving", "returned"}

Types ==
  /\ srv \in [Servers -> States]
  /\ open \in [{"grpc", "sql"} -> Nat]
  /\ signalled \in BOOLEAN /\ groupErr \in BOOLEAN /\ closed \in BOOLEAN
  /\ failed \in BOOLEAN /\ early \in BOOLEAN

(* Until its arguments are parsed the process has not begun anything, and  *)
(* run starts the gRPC server once.                                        *)
NothingBegun ==
  /\ main = "parse" => /\ \A s \in Servers : srv[s] = "none"
                       /\ ~ signalled /\ ~ groupErr /\ ~ failed
  /\ main \in {"parse", "http", "grpc"} => srv["grpc"] = "none"

(* A signal that did not come early found no server on its way up, and run *)
(* will start no other.                                                    *)
NotYetServing ==
  /\ early => signalled
  /\ signalled /\ ~ early => /\ main \in {"wait", "exited"}
                             /\ \A s \in Servers : srv[s] \notin {"launched", "bound"}

(* A listener is closed only for a reason, and that of the SQL proxy after *)
(* its channel.                                                            *)
DeafForAReason == (deaf # {} => ctxDone) /\ ("sql" \in deaf => closed)

(* The error of the group is a failure, or comes from an early signal; and *)
(* no failure is forgotten.                                                *)
ErrorKnown == (groupErr => failed \/ early) /\ (Alive /\ failed => groupErr)

(* A gRPC server has no calls before it serves, and none when it returned  *)
(* without an error.                                                       *)
Drained ==
  /\ srv["grpc"] \in {"none", "launched", "bound"} => open["grpc"] = 0
  /\ srv["grpc"] = "returned" => open["grpc"] = 0 \/ groupErr

Inv == Types /\ NothingBegun /\ NotYetServing /\ DeafForAReason /\ ErrorKnown
       /\ Drained /\ ExitIsTruthful

-----------------------------------------------------------------------------
(* The inductive invariant. *)

(* A process that is about to parse its arguments satisfies Inv. *)
LEMMA InitInv == Init => Inv
<1> SUFFICES ASSUME Init PROVE Inv
  OBVIOUS
<1>1. Types
  BY DEF Init, Types, States, Servers
<1>2. NothingBegun /\ Drained
  BY DEF Init, NothingBegun, Drained, Servers
<1>3. NotYetServing /\ DeafForAReason /\ ErrorKnown
  BY DEF Init, NotYetServing, DeafForAReason, ErrorKnown, Alive
<1>4. ExitIsTruthful
  BY DEF Init, ExitIsTruthful, ExitTellsFailure, CallsAreDrained, Alive
<1>5. QED BY <1>1, <1>2, <1>3, <1>4 DEF Inv

(* Parsing: the process exits, with status 1 for a failure, or goes on.    *)
LEMMA ParseArgsInv ==
  ASSUME Inv, ParseArgs
  PROVE  Inv'
<1>1. /\ main = "parse" /\ srv["grpc"] = "none" /\ open["grpc"] = 0
      /\ ~ signalled /\ ~ early /\ ~ groupErr /\ ~ failed /\ Types /\ deaf = {}
  BY DEF ParseArgs, Inv, NothingBegun, NotYetServing, Drained, DeafForAReason, ctxDone
<1>2. UNCHANGED <<signalled, srv, groupErr, deaf, closed, open, early>>
  BY DEF ParseArgs, serverVars
<1>3. \/ main' = "exited" /\ exit' = 0 /\ UNCHANGED failed
      \/ main' = "exited" /\ exit' = 1 /\ failed' = TRUE
      \/ main' = "http" /\ UNCHANGED <<exit, failed>>
  BY DEF ParseArgs, ExitsWith
<1>4. Types'
  BY <1>1, <1>2, <1>3 DEF Types
<1>5. NothingBegun' /\ NotYetServing' /\ DeafForAReason' /\ Drained'
  BY <1>1, <1>2, <1>3 DEF NothingBegun, NotYetServing, DeafForAReason, Drained
<1>6. ErrorKnown'
  BY <1>1, <1>2, <1>3 DEF ErrorKnown, Alive
<1>7. ExitIsTruthful'
  BY <1>1, <1>2, <1>3 DEF ExitIsTruthful, ExitTellsFailure, CallsAreDrained, Alive
<1>8. QED BY <1>4, <1>5, <1>6, <1>7 DEF Inv

(* Launching: a server is on its way up, or is skipped, or the process     *)
(* exits with status 1 for a failure.                                      *)
LEMMA LaunchInv ==
  ASSUME Inv, NEW s \in Servers, Launch(s)
  PROVE  Inv'
<1>1. /\ main = s /\ s \notin {"parse", "wait", "exited"} /\ ~ (signalled /\ ~ early)
      /\ (early => signalled)
      /\ UNCHANGED <<signalled, groupErr, deaf, closed, open, early>>
  BY DEF Launch, Servers, Inv, NotYetServing
<1>2. /\ main' # "parse" /\ (main' \in {"http", "grpc"} => main' = "grpc" /\ s = "http")
      /\ s = "grpc" => srv["grpc"] = "none"
  BY <1>1 DEF Launch, Following, ExitsWith, Servers, Inv, NothingBegun
<1>3. NotYetServing' /\ DeafForAReason' /\ NothingBegun'
  <2>1. srv'["grpc"] = srv["grpc"] \/ s = "grpc"
    BY DEF Launch, Servers, Inv, Types
  <2>2. s = "http" => srv["grpc"] = "none"
    BY <1>1 DEF Inv, NothingBegun
  <2>3. QED
    BY <1>1, <1>2, <2>1, <2>2 DEF NotYetServing, DeafForAReason, NothingBegun, Inv, ctxDone
<1>4. CASE Enabled(s) /\ srv' = [srv EXCEPT ![s] = "launched"] /\ main' = Following[s]
           /\ UNCHANGED <<exit, failed>>
  <2>1. main' \notin {"exited"} /\ main # "exited"
    BY <1>1, <1>4 DEF Following, Servers
  <2>2. Types' /\ Drained'
    BY <1>1, <1>2, <1>4 DEF Inv, Types, Drained, States
  <2>3. ErrorKnown' /\ ExitIsTruthful'
    BY <1>1, <1>4, <2>1 DEF Inv, ErrorKnown, ExitIsTruthful, ExitTellsFailure,
       CallsAreDrained, Alive
  <2>4. QED BY <1>3, <2>2, <2>3 DEF Inv
<1>5. CASE main' = Following[s] /\ UNCHANGED <<srv, exit, failed>>
  <2>1. main' \notin {"exited"} /\ main # "exited"
    BY <1>1, <1>5 DEF Following, Servers
  <2>2. Types' /\ Drained'
    BY <1>1, <1>5 DEF Inv, Types, Drained
  <2>3. ErrorKnown' /\ ExitIsTruthful'
    BY <1>1, <1>5, <2>1 DEF Inv, ErrorKnown, ExitIsTruthful, ExitTellsFailure,
       CallsAreDrained, Alive
  <2>4. QED BY <1>3, <2>2, <2>3 DEF Inv
<1>6. CASE ExitsWith(1) /\ failed' = TRUE /\ UNCHANGED srv
  <2>1. Types' /\ Drained'
    BY <1>1, <1>6 DEF Inv, Types, Drained
  <2>2. ErrorKnown' /\ ExitIsTruthful'
    BY <1>1, <1>6 DEF Inv, ErrorKnown, ExitIsTruthful, ExitTellsFailure,
       CallsAreDrained, Alive, ExitsWith
  <2>3. QED BY <1>3, <2>1, <2>2 DEF Inv
<1>7. QED BY <1>4, <1>5, <1>6 DEF Launch

(* The group is over: the status says whether it had an error.             *)
LEMMA WaitInv ==
  ASSUME Inv, Wait
  PROVE  Inv'
<1>1. /\ UNCHANGED <<signalled, srv, groupErr, deaf, closed, open, failed, early>>
      /\ main = "wait" /\ main' = "exited" /\ exit' = IF groupErr THEN 1 ELSE 0
      /\ srv["grpc"] \in {"none", "returned"}
  BY DEF Wait, serverVars, ExitsWith, Servers
<1>2. Types' /\ NothingBegun' /\ NotYetServing' /\ DeafForAReason' /\ Drained'
  BY <1>1 DEF Inv, Types, NothingBegun, NotYetServing, DeafForAReason, Drained, ctxDone
<1>3. ErrorKnown' /\ ExitIsTruthful'
  BY <1>1 DEF Inv, Types, ErrorKnown, Drained, ExitIsTruthful, ExitTellsFailure,
     CallsAreDrained, Alive
<1>4. QED BY <1>2, <1>3 DEF Inv

(* A signal is early exactly if some server is not serving yet.            *)
LEMMA SignalInv ==
  ASSUME Inv, Signal
  PROVE  Inv'
<1>1. /\ UNCHANGED <<main, exit, srv, groupErr, deaf, closed, open, failed>>
      /\ main \notin {"parse", "exited"} /\ ~ signalled /\ signalled' = TRUE
      /\ early' = (main # "wait" \/ \E s \in Servers : srv[s] \in {"launched", "bound"})
  BY DEF Signal, serverVars, Alive
<1>2. early' \in BOOLEAN
  BY <1>1
<1>3. Types' /\ NothingBegun' /\ NotYetServing' /\ DeafForAReason' /\ Drained'
  BY <1>1, <1>2 DEF Inv, Types, NothingBegun, NotYetServing, DeafForAReason, Drained, ctxDone
<1>4. ErrorKnown' /\ ExitIsTruthful'
  BY <1>1 DEF Inv, NotYetServing, ErrorKnown, ExitIsTruthful, ExitTellsFailure,
     CallsAreDrained, Alive
<1>5. QED BY <1>3, <1>4 DEF Inv

(* A step of a goroutine of the group preserves Inv if it reports every    *)
(* failure, and an error only for a failure or an early signal; if it does *)
(* not begin anew; and if gRPC calls are over before it returns without an *)
(* error.                                                                  *)
LEMMA GoroutineInv ==
  ASSUME Inv, NEW s \in Servers, NEW state \in States, Becomes(s, state),
         srv[s] # "none", state \in {"launched", "bound"} => srv[s] \in {"launched", "bound"},
         groupErr' \in BOOLEAN, failed' \in BOOLEAN, groupErr => groupErr',
         groupErr' => failed' \/ early, failed' => groupErr',
         s = "grpc" => /\ state \in {"none", "launched", "bound"} => open["grpc"] = 0
                       /\ state = "returned" => open["grpc"] = 0 \/ groupErr'
  PROVE  Inv'
<1>1. /\ srv' = [srv EXCEPT ![s] = state] /\ main # "exited"
      /\ UNCHANGED <<main, exit, signalled, deaf, closed, open, early>>
  BY DEF Becomes, Alive
<1>2. \A r \in Servers : srv'[r] = IF r = s THEN state ELSE srv[r]
  BY <1>1 DEF Inv, Types
<1>3. "grpc" \in Servers
  BY DEF Servers
<1>4. main # "parse"
  BY DEF Inv, NothingBegun
<1>5. Types' /\ Drained' /\ DeafForAReason'
  BY <1>1, <1>2, <1>3 DEF Inv, Types, Drained, DeafForAReason, ctxDone
<1>6. NotYetServing'
  BY <1>1, <1>2 DEF Inv, NotYetServing
<1>7. ErrorKnown' /\ ExitIsTruthful'
  BY <1>1 DEF Inv, ErrorKnown, ExitIsTruthful, ExitTellsFailure, CallsAreDrained, Alive
<1>8. NothingBegun'
  BY <1>1, <1>2, <1>3, <1>4 DEF Inv, NothingBegun
<1>9. QED BY <1>5, <1>6, <1>7, <1>8 DEF Inv

(* The goroutines that serve: for each step, what GoroutineInv asks for.   *)
LEMMA ServerStepInv ==
  ASSUME Inv, NEW s \in Servers, ServerStep(s) \/ AcceptFails(s)
  PROVE  Inv'
<1>1. /\ groupErr \in BOOLEAN /\ failed \in BOOLEAN /\ closed \in BOOLEAN
      /\ groupErr => failed \/ early
      /\ Alive /\ failed => groupErr
      /\ srv["grpc"] \in {"none", "launched", "bound"} => open["grpc"] = 0
      /\ "sql" \in deaf => closed
  BY DEF Inv, Types, ErrorKnown, Drained, DeafForAReason
<1>2. CASE ServeHTTP(s) \/ HTTPReturns(s)
  <2>1. s # "grpc" /\ Alive /\ srv[s] \in {"launched", "serving"}
    BY <1>2 DEF ServeHTTP, HTTPReturns, HTTPServers, Returns, Becomes
  <2>2. CASE Returns(s, FALSE) /\ UNCHANGED failed
    BY <1>1, <2>1, <2>2, GoroutineInv DEF Returns, States
  <2>3. CASE Becomes(s, "serving") /\ UNCHANGED <<groupErr, failed>>
    BY <1>1, <2>1, <2>3, GoroutineInv DEF States
  <2>4. CASE Returns(s, TRUE) /\ failed' = TRUE
    BY <1>1, <2>1, <2>4, GoroutineInv DEF Returns, States
  <2>5. QED BY <1>2, <2>2, <2>3, <2>4 DEF ServeHTTP, HTTPReturns
<1>3. CASE s = "grpc" /\ ListenGRPC
  <2>1. Alive /\ srv["grpc"] = "launched" /\ open["grpc"] = 0
    BY <1>1, <1>3 DEF ListenGRPC, Returns, Becomes
  <2>2. CASE Becomes("grpc", "bound") /\ UNCHANGED <<groupErr, failed>>
    BY <1>1, <1>3, <2>1, <2>2, GoroutineInv DEF States
  <2>3. CASE Returns("grpc", TRUE) /\ failed' = TRUE
    BY <1>1, <1>3, <2>1, <2>3, GoroutineInv DEF Returns, States
  <2>4. QED BY <1>3, <2>2, <2>3 DEF ListenGRPC
<1>4. CASE s = "grpc" /\ (ServeGRPC \/ GRPCReturns)
  <2>1. Alive /\ srv["grpc"] \in {"bound", "serving"} /\ UNCHANGED failed
    BY <1>4 DEF ServeGRPC, GRPCReturns, Returns, Becomes
  <2>2. CASE srv["grpc"] = "bound" /\ "grpc" \in deaf /\ Returns("grpc", TRUE)
    <3>1. failed \/ early
      BY <1>1, <1>4, <2>2 DEF Inv, DeafForAReason, NotYetServing, ctxDone
    <3>2. groupErr' = TRUE
      BY <1>1, <2>2 DEF Returns
    <3>3. QED BY <1>1, <1>4, <2>1, <2>2, <3>1, <3>2, GoroutineInv DEF Returns, States
  <2>3. CASE Becomes("grpc", "serving") /\ UNCHANGED groupErr
    BY <1>1, <1>4, <2>1, <2>3, GoroutineInv DEF States
  <2>4. CASE open["grpc"] = 0 /\ Returns("grpc", FALSE)
    BY <1>1, <1>4, <2>1, <2>4, GoroutineInv DEF Returns, States
  <2>5. QED BY <1>4, <2>2, <2>3, <2>4 DEF ServeGRPC, GRPCReturns
<1>5. CASE s = "sql" /\ (ServeSQL \/ SQLReturns)
  BY <1>1, <1>5, GoroutineInv DEF ServeSQL, SQLReturns, Returns, Becomes, States
<1>6. CASE AcceptFails(s)
  BY <1>1, <1>6, GoroutineInv DEF AcceptFails, Returns, Becomes, States
<1>7. QED BY <1>2, <1>3, <1>4, <1>5, <1>6 DEF ServerStep

(* The goroutines that stop a server act only once the context is done.    *)
LEMMA StopInv ==
  ASSUME Inv, NEW s \in Servers, Stop(s) \/ Close
  PROVE  Inv'
<1>1. /\ UNCHANGED <<main, exit, signalled, srv, groupErr, open, failed, early>>
      /\ ctxDone
      /\ \/ deaf' = deaf \cup {s} /\ s # "sql" /\ UNCHANGED closed
         \/ closed' = TRUE /\ UNCHANGED deaf
         \/ closed /\ deaf' = deaf \cup {"sql"} /\ UNCHANGED closed
  BY DEF Stop, Close, Stopper
<1>2. Types' /\ NothingBegun' /\ NotYetServing' /\ Drained'
  BY <1>1 DEF Inv, Types, NothingBegun, NotYetServing, Drained
<1>3. DeafForAReason'
  BY <1>1 DEF Inv, DeafForAReason, ctxDone
<1>4. ErrorKnown' /\ ExitIsTruthful'
  BY <1>1 DEF Inv, ErrorKnown, ExitIsTruthful, ExitTellsFailure, CallsAreDrained, Alive
<1>5. QED BY <1>2, <1>3, <1>4 DEF Inv

(* Calls and connections come while a server serves, and end.              *)
LEMMA CallInv ==
  ASSUME Inv, NEW s \in {"grpc", "sql"}, Opens(s) \/ Closes(s)
  PROVE  Inv'
<1>1. /\ UNCHANGED <<main, exit, signalled, srv, groupErr, deaf, closed, failed, early>>
      /\ Alive
  BY DEF Opens, Closes, Served
<1>2. open[s] \in Nat
  BY DEF Inv, Types
<1>3. \/ open' = [open EXCEPT ![s] = open[s] + 1] /\ srv[s] = "serving"
      \/ open' = [open EXCEPT ![s] = open[s] - 1] /\ open[s] > 0
  BY DEF Opens, Closes, Served
<1>4. Types'
  BY <1>1, <1>2, <1>3 DEF Inv, Types
<1>5. Drained'
  BY <1>1, <1>2, <1>3 DEF Inv, Types, Drained
<1>6. NothingBegun' /\ NotYetServing' /\ DeafForAReason'
  BY <1>1 DEF Inv, NothingBegun, NotYetServing, DeafForAReason, ctxDone
<1>7. ErrorKnown' /\ ExitIsTruthful'
  BY <1>1 DEF Inv, ErrorKnown, ExitIsTruthful, ExitTellsFailure, CallsAreDrained, Alive
<1>8. QED BY <1>4, <1>5, <1>6, <1>7 DEF Inv

(* The conjunction Inv is inductive. *)
LEMMA InvInductive == Inv /\ [Next]_vars => Inv'
<1> SUFFICES ASSUME Inv, [Next]_vars PROVE Inv'
  OBVIOUS
<1>1. CASE Run
  BY <1>1, ParseArgsInv, LaunchInv, WaitInv DEF Run
<1>2. CASE Signal
  BY <1>2, SignalInv
<1>3. CASE \E s \in Servers : ServerStep(s) \/ AcceptFails(s) \/ Stop(s)
  BY <1>3, ServerStepInv, StopInv
<1>4. CASE Close
  BY <1>4, StopInv DEF Servers
<1>5. CASE \E s \in {"grpc", "sql"} : Opens(s) \/ Closes(s)
  BY <1>5, CallInv
<1>6. CASE UNCHANGED vars
  BY <1>6
  DEF vars, serverVars, Inv, Types, NothingBegun, NotYetServing, DeafForAReason, ErrorKnown,
      Drained, ExitIsTruthful, ExitTellsFailure, CallsAreDrained, Alive, ctxDone
<1>7. QED BY <1>1, <1>2, <1>3, <1>4, <1>5, <1>6 DEF Next

-----------------------------------------------------------------------------
(* The results. *)

(* The exit status of main.go can be trusted, whatever fails, is signalled *)
(* and is open when: it is 1 if a server failed of itself, and only then or*)
(* after a signal before all servers were serving; and with status 0 no    *)
(* gRPC call was cut off.                                                  *)
THEOREM ExitAlwaysTruthful == Spec => []ExitIsTruthful
<1>1. Inv => ExitIsTruthful
  BY DEF Inv
<1>2. QED BY <1>1, InitInv, InvInductive, PTL DEF Spec

(* The settings of no file.                                                *)
LEMMA EmptyDomain == DOMAIN <<>> = {}
<1>1. \A s \in Seq({}) : DOMAIN s = 1 .. Len(s)
  BY LenProperties
<1>2. <<>> \in Seq({}) /\ Len(<<>>) = 0
  OBVIOUS
<1>3. DOMAIN <<>> = 1 .. Len(<<>>)
  BY <1>1, <1>2, Zenon
<1>4. QED BY <1>2, <1>3

(* What one of two functions says where the second says anything.          *)
LEMMA OverAt ==
  ASSUME NEW f, NEW g, NEW x \in DOMAIN g
  PROVE  x \in DOMAIN Over(f, g) /\ Over(f, g)[x] = IF x \in DOMAIN f THEN f[x] ELSE g[x]
BY DEF Over

(* What Parse makes of a command it accepts is what was chosen, but for the*)
(* DSN that it fills in.                                                   *)
LEMMA ParseChooses ==
  ASSUME NEW c, Parse(c).ok
  PROVE  LET chosen == Chosen(c)
             settings == Parse(c).settings
         IN  /\ Servable(chosen) /\ Servable(settings)
             /\ \A n \in Names : settings[n] = chosen[n] \/ (n = "explain-dsn" /\ chosen[n] = "")
             /\ settings["sql-target"] # "" => settings["explain-dsn"] # ""
             /\ configPath(c) # "" => File(c).there /\ File(c).valid
<1> DEFINE flagged == [n \in Names |-> IF n \in DOMAIN c.flags THEN c.flags[n] ELSE Defaults[n]]
           merged  == IF configPath(c) = "" THEN flagged
                      ELSE applyFileConfig(flagged, File(c).settings, DOMAIN c.flags)
<1>1. /\ configPath(c) # "" => File(c).there /\ File(c).valid
      /\ Servable(merged)
      /\ Parse(c).settings = WithDSN(merged)
  BY DEF Parse, Refused, Valid, Servable
<1>2. merged = [n \in Names |-> merged[n]]
  BY DEF applyFileConfig
<1>3. Chosen(c) = merged
  <2> DEFINE file == IF configPath(c) = "" THEN <<>> ELSE File(c).settings
  <2>1. ASSUME NEW n \in Names
        PROVE  Over(c.flags, Over(file, Defaults))[n] = merged[n]
    <3>1. n \in DOMAIN Defaults
      BY DEF Defaults
    <3>2. /\ n \in DOMAIN Over(file, Defaults)
          /\ Over(file, Defaults)[n] = IF n \in DOMAIN file THEN file[n] ELSE Defaults[n]
      BY <3>1, OverAt
    <3>3. Over(c.flags, Over(file, Defaults))[n]
            = IF n \in DOMAIN c.flags THEN c.flags[n] ELSE Over(file, Defaults)[n]
      BY <3>2, OverAt
    <3>4. CASE configPath(c) = ""
      <4>1. file = <<>>
        BY <3>4
      <4>2. QED BY <3>2, <3>3, <3>4, <4>1, EmptyDomain
    <3>5. CASE configPath(c) # ""
      BY <3>2, <3>3, <3>5 DEF applyFileConfig
    <3>6. QED BY <3>4, <3>5
  <2>2. QED BY <2>1, <1>2 DEF Chosen
<1> HIDE DEF merged
<1>4. \A n \in Names : WithDSN(merged)[n] = merged[n] \/ (n = "explain-dsn" /\ merged[n] = "")
  BY <1>2 DEF WithDSN
<1>5. WithDSN(merged)["sql-target"] # "" => WithDSN(merged)["explain-dsn"] # ""
  BY <1>2 DEF WithDSN, Names
<1>6. Servable(WithDSN(merged))
  BY <1>1, <1>4 DEF Servable, Names
<1>7. QED BY <1>1, <1>3, <1>4, <1>5, <1>6

(* A process that begins to serve has the settings its command and file    *)
(* chose, and they are valid: for every command line and every file.       *)
THEOREM AlwaysStartsAsChosen == Spec => StartsAsChosen
<1> DEFINE Start ==
      main = "parse" /\ main' = "http" =>
        LET c == Chosen(command) IN
        /\ Servable(c) /\ Servable(cfg')
        /\ \A n \in Names : cfg'[n] = c[n] \/ (n = "explain-dsn" /\ c[n] = "")
        /\ cfg'["sql-target"] # "" => cfg'["explain-dsn"] # ""
        /\ configPath(command) # "" => File(command).there /\ File(command).valid
<1>1. ASSUME Next PROVE Start
  <2> SUFFICES ASSUME main = "parse", main' = "http"
               PROVE  Parse(command).ok /\ cfg' = Parse(command).settings
    BY ParseChooses
  <2>1. ParseArgs
    BY <1>1
    DEF Next, Run, Launch, Wait, Signal, ServerStep, ServeHTTP, HTTPReturns, ListenGRPC,
        ServeGRPC, GRPCReturns, ServeSQL, SQLReturns, AcceptFails, Returns, Becomes, Stop,
        Close, Stopper, Opens, Closes, Served, Servers
  <2>2. QED BY <2>1 DEF ParseArgs, ExitsWith
<1>2. [Next]_vars => [Start]_vars
  BY <1>1
<1>3. QED BY <1>2, PTL DEF Spec, StartsAsChosen
=============================================================================
