-------------------------- MODULE GrpcRelayProofs ---------------------------
(***************************************************************************)
(* Theorems about GrpcRelay, for any number of requests and responses and  *)
(* any statuses.                                                           *)
(*                                                                         *)
(* errCh does not say which goroutine an error came from, but the status of*)
(* the call depends on it.  The invariant therefore says of the results of *)
(* each goroutine what they mean (C2SResult, S2CResult) and that errCh     *)
(* holds one of each goroutine that has ended, in either order (Results).  *)
(* Messages are numbered, so what each stream holds follows from the number*)
(* received last (Requests, Responses).                                    *)
(***************************************************************************)
EXTENDS GrpcRelay, SequenceTheorems, TLAPS

Types ==
  /\ caller \in {"open", "closed", "cancelled"}
  /\ upstream \in {"serving", "reset", "OK"} \cup Failures
  /\ refused \subseteq {"request", "response"}
  /\ sent \in Nat /\ said \in Nat /\ reqBytes \in Nat /\ respBytes \in Nat
  /\ toProxy \in Seq(Nat) /\ toUpstream \in Seq(Nat) /\ upstreamRead \in Seq(Nat)
  /\ fromUpstream \in Seq(Nat) /\ toCaller \in Seq(Nat) /\ callerGot \in Seq(Nat)
  /\ sendClosed \in BOOLEAN /\ active \in BOOLEAN

(* The numbers after m, up to n. *)
After(m, n) == [i \in 1 .. n - m |-> m + i]

(* The goroutine c2s has received the requests up to reqBytes, and has sent*)
(* all of them on unless it has failed.                                    *)
Requests ==
  /\ reqBytes <= sent
  /\ toProxy = After(reqBytes, sent)
  /\ c2s # "end" \/ sendClosed => upstreamRead \o toUpstream = Numbers(reqBytes)
  /\ sendClosed => c2s = "end" /\ toProxy = <<>> /\ caller # "open"

(* Likewise s2c with the responses; it drops one only when the call's      *)
(* context is done.                                                        *)
Responses ==
  /\ respBytes <= said
  /\ fromUpstream = After(respBytes, said)
  /\ s2c # "end" \/ (caller # "cancelled" /\ "request" \notin refused) =>
       callerGot \o toCaller = Numbers(respBytes)

C2SResult(e) == (e = "none") = sendClosed

(* The status of the upstream. *)
Ended == IF upstream = "OK" THEN "none" ELSE upstream

S2CResult(e) ==
  \/ /\ upstream \notin {"serving", "reset"} /\ fromUpstream = <<>> /\ "response" \notin refused
     /\ e = Ended
  \/ (caller = "cancelled" \/ "request" \in refused) /\ e = "Canceled"
  \/ "response" \in refused /\ e = "ResourceExhausted"

(* What a goroutine may put on errCh. *)
Outcomes == Errors \cup {"none"}

Results ==
  \/ c2s # "end" /\ s2c # "end" /\ errCh = <<>>
  \/ c2s = "end" /\ s2c # "end" /\ \E a \in Outcomes : C2SResult(a) /\ errCh = <<a>>
  \/ c2s # "end" /\ s2c = "end" /\ \E b \in Outcomes : S2CResult(b) /\ errCh = <<b>>
  \/ /\ c2s = "end" /\ s2c = "end"
     /\ \E a, b \in Outcomes : C2SResult(a) /\ S2CResult(b) /\ errCh \in {<<a, b>>, <<b, a>>}

(* The error of the call, once the goroutines have been waited for. *)
Waited ==
  \/ c2s = "off" /\ s2c = "off" /\ relayErr = "Unavailable"
  \/ c2s = "end" /\ s2c = "end" /\ relayErr = LastError(errCh)

Submitted == <<[error |-> relayErr, request |-> reqBytes, response |-> respBytes]>>

(* How far the handler is. *)
Phase ==
  \/ handler = "start" /\ c2s = "off" /\ s2c = "off" /\ spans = <<>> /\ ~ active
  \/ handler = "relay" /\ c2s # "off" /\ s2c # "off" /\ spans = <<>> /\ active
  \/ handler = "submit" /\ Waited /\ spans = <<>> /\ active
  \/ handler = "clear" /\ Waited /\ spans = Submitted /\ active
  \/ handler = "done" /\ Waited /\ spans = Submitted /\ ~ active

(* The status of the stream is that of a request refused, or else that of  *)
(* the handler's error; only a goroutine that runs refuses messages, and   *)
(* the call to the upstream is reset for a response refused.               *)
Closing ==
  /\ IF "request" \in refused
     THEN c2s = "end" /\ ~ sendClosed /\ trailer = "ResourceExhausted"
     ELSE trailer = IF handler = "done" THEN Status(relayErr) ELSE "none"
  /\ "response" \in refused => s2c = "end"
  /\ upstream = "reset" => "response" \in refused

(* What the caller saw is that status, after all the responses.            *)
Seen ==
  callerStatus # "none" =>
    toCaller = <<>> /\ caller # "cancelled" /\ callerStatus = trailer

Inv == Types /\ Requests /\ Responses /\ Results /\ Phase /\ Closing /\ Seen

-----------------------------------------------------------------------------
(* Numbered messages. *)

(* The numbers up to n, and one more. *)
LEMMA NumbersSeq ==
  ASSUME NEW n \in Nat
  PROVE  /\ Numbers(n) \in Seq(Nat) /\ Len(Numbers(n)) = n
         /\ Append(Numbers(n), n + 1) = Numbers(n + 1)
BY DEF Numbers

(* The numbers after m: one more at the end, and one less at the front.    *)
LEMMA AfterSeq ==
  ASSUME NEW m \in Nat, NEW n \in Nat, m <= n
  PROVE  /\ After(m, n) \in Seq(Nat) /\ Len(After(m, n)) = n - m
         /\ Append(After(m, n), n + 1) = After(m, n + 1)
         /\ After(m, n) = <<>> <=> m = n
         /\ After(m, n) # <<>> => /\ m + 1 <= n
                                  /\ Head(After(m, n)) = m + 1
                                  /\ Tail(After(m, n)) = After(m + 1, n)
<1>1. /\ After(m, n) \in Seq(Nat) /\ Len(After(m, n)) = n - m
      /\ Append(After(m, n), n + 1) = After(m, n + 1)
      /\ After(m, n) = <<>> <=> m = n
  BY DEF After
<1>2. ASSUME After(m, n) # <<>>
      PROVE  /\ m + 1 <= n /\ Head(After(m, n)) = m + 1
             /\ Tail(After(m, n)) = After(m + 1, n)
  BY <1>1, <1>2 DEF After
<1>3. QED BY <1>1, <1>2

(* A message moves from the front of one stream to the end of another.     *)
LEMMA TakeHead ==
  ASSUME NEW s \in Seq(Nat), NEW t \in Seq(Nat), t # <<>>
  PROVE  Head(t) \in Nat /\ Tail(t) \in Seq(Nat) /\ Append(s, Head(t)) \in Seq(Nat)
OBVIOUS

(* What is read from the front of a stream was sent before the rest of it. *)
LEMMA MoveHead ==
  ASSUME NEW s \in Seq(Nat), NEW t \in Seq(Nat), t # <<>>
  PROVE  Append(s, Head(t)) \o Tail(t) = s \o t
OBVIOUS

(* What is sent comes after all that was sent before. *)
LEMMA ConcatAppend ==
  ASSUME NEW s \in Seq(Nat), NEW t \in Seq(Nat), NEW n \in Nat
  PROVE  s \o Append(t, n) = Append(s \o t, n)
OBVIOUS

(* The last error of two results. *)
LEMMA LastErrorOfTwo ==
  ASSUME NEW a, NEW b
  PROVE  LastError(<<a, b>>) = IF b = "none" THEN a ELSE b
<1> DEFINE errors == <<a, b>>
           failed == {i \in DOMAIN errors : errors[i] # "none"}
<1>1. DOMAIN errors = {1, 2} /\ errors[1] = a /\ errors[2] = b
  OBVIOUS
<1>2. CASE b # "none"
  <2>1. 2 \in failed /\ \A i \in failed : i <= 2
    BY <1>1, <1>2
  <2>2. (CHOOSE i \in failed : \A j \in failed : j <= i) = 2
    <3>1. \E i \in failed : \A j \in failed : j <= i
      BY <2>1
    <3>2. \A i \in failed : (\A j \in failed : j <= i) => i = 2
      BY <1>1, <2>1
    <3>3. QED BY <3>1, <3>2
  <2>3. QED BY <1>1, <1>2, <2>1, <2>2 DEF LastError
<1>3. CASE b = "none" /\ a # "none"
  <2>1. failed = {1}
    BY <1>1, <1>3
  <2>2. (CHOOSE i \in failed : \A j \in failed : j <= i) = 1
    BY <2>1
  <2>3. QED BY <1>1, <1>3, <2>1, <2>2 DEF LastError
<1>4. CASE b = "none" /\ a = "none"
  <2>1. failed = {}
    BY <1>1, <1>4
  <2>2. QED BY <1>4, <2>1 DEF LastError
<1>5. QED BY <1>2, <1>3, <1>4

-----------------------------------------------------------------------------
(* The inductive invariant: one lemma for each of its parts. *)

(* A call that has just arrived. *)
LEMMA InitInv == Init => Inv
<1> SUFFICES ASSUME Init PROVE Inv
  OBVIOUS
<1>1. Types
  <2>1. <<>> \in Seq(Nat)
    OBVIOUS
  <2>2. QED BY <2>1 DEF Init, Types
<1>2. Numbers(0) = <<>> /\ After(0, 0) = <<>>
  BY DEF Numbers, After
<1>3. <<>> \o <<>> = <<>>
  OBVIOUS
<1>4. Requests /\ Responses
  BY <1>2, <1>3 DEF Init, Requests, Responses
<1>5. Results /\ Phase /\ Closing /\ Seen
  BY DEF Init, Results, Phase, Closing, Seen
<1>6. QED BY <1>1, <1>4, <1>5 DEF Inv

(* Every variable keeps its type. *)
LEMMA TypesStep ==
  ASSUME Inv, Next
  PROVE  Types'
<1>1. Types
  BY DEF Inv
<1>2. CASE CallerSend
  <2>1. Append(toProxy, sent + 1) \in Seq(Nat)
    BY <1>1 DEF Types
  <2>2. QED BY <1>1, <1>2, <2>1 DEF CallerSend, Types, libraryVars, upstreamVars, relayVars, spanVars
<1>3. CASE CallerLeaves("closed") \/ CallerLeaves("cancelled")
  BY <1>1, <1>3 DEF CallerLeaves, Types, libraryVars, upstreamVars, relayVars, streamVars, spanVars
<1>4. CASE CallerRecv
  <2>1. Append(callerGot, Head(toCaller)) \in Seq(Nat) /\ Tail(toCaller) \in Seq(Nat)
    BY <1>1, <1>4, TakeHead DEF CallerRecv, Types
  <2>2. QED BY <1>1, <1>4, <2>1 DEF CallerRecv, Types, libraryVars, upstreamVars, relayVars, spanVars
<1>5. CASE CallerStatus
  BY <1>1, <1>5 DEF CallerStatus, Types, libraryVars, upstreamVars, relayVars, streamVars, spanVars
<1>6. CASE UpstreamReads
  <2>1. Append(upstreamRead, Head(toUpstream)) \in Seq(Nat) /\ Tail(toUpstream) \in Seq(Nat)
    BY <1>1, <1>6, TakeHead DEF UpstreamReads, Types
  <2>2. QED BY <1>1, <1>6, <2>1 DEF UpstreamReads, Types, libraryVars, callerVars, relayVars, spanVars
<1>7. CASE UpstreamSays
  <2>1. Append(fromUpstream, said + 1) \in Seq(Nat)
    BY <1>1 DEF Types
  <2>2. QED BY <1>1, <1>7, <2>1 DEF UpstreamSays, Types, libraryVars, callerVars, relayVars, spanVars
<1>8. CASE UpstreamEnds
  BY <1>1, <1>8 DEF UpstreamEnds, Types, libraryVars, callerVars, relayVars, streamVars, spanVars
<1>9. CASE C2SRelay \/ C2SSendFails
  <2>1. c2s = "run" /\ toProxy # <<>> /\ reqBytes' = Head(toProxy) /\ toProxy' = Tail(toProxy)
    BY <1>9 DEF C2SRelay, C2SSendFails, Received
  <2>2. Head(toProxy) \in Nat /\ Tail(toProxy) \in Seq(Nat)
        /\ Append(toUpstream, Head(toProxy)) \in Seq(Nat)
    BY <1>1, <2>1, TakeHead DEF Types
  <2>3. QED
    BY <1>1, <1>9, <2>1, <2>2
    DEF C2SRelay, C2SSendFails, Types, libraryVars, callerVars, upstreamVars, spanVars
<1>10. CASE C2SCloses \/ C2SRecvFails
  BY <1>1, <1>10
  DEF C2SCloses, C2SRecvFails, Types, libraryVars, callerVars, upstreamVars, streamVars, spanVars
<1>11. CASE S2CRelay \/ S2CSendFails
  <2>1. /\ fromUpstream # <<>> /\ respBytes' = Head(fromUpstream)
        /\ fromUpstream' = Tail(fromUpstream)
    BY <1>11 DEF S2CRelay, S2CSendFails
  <2>2. Head(fromUpstream) \in Nat /\ Tail(fromUpstream) \in Seq(Nat)
        /\ Append(toCaller, Head(fromUpstream)) \in Seq(Nat)
    BY <1>1, <2>1, TakeHead DEF Types
  <2>3. QED
    BY <1>1, <1>11, <2>1, <2>2
    DEF S2CRelay, S2CSendFails, Types, libraryVars, callerVars, upstreamVars, spanVars
<1>12. CASE S2CRecvFails
  BY <1>1, <1>12 DEF S2CRecvFails, Types, libraryVars, callerVars, upstreamVars, streamVars, spanVars
<1>13. CASE HandlerStep
  BY <1>1, <1>13
  DEF HandlerStep, Start, StartFails, Wait, SubmitSpan, Return, Types, libraryVars, callerVars,
      upstreamVars, relayVars, streamVars
<1>14. QED
  BY <1>2, <1>3, <1>4, <1>5, <1>6, <1>7, <1>8, <1>9, <1>10, <1>11, <1>12, <1>13
  DEF Next, C2SStep, S2CStep

(* Requests pass on in order. *)
LEMMA RequestsStep ==
  ASSUME Inv, Next
  PROVE  Requests'
<1>1. /\ Types /\ Requests /\ reqBytes \in Nat /\ sent \in Nat /\ reqBytes <= sent
      /\ toProxy = After(reqBytes, sent)
  BY DEF Inv, Types, Requests
<1>2. CASE CallerSend
  <2>1. /\ sent' = sent + 1 /\ toProxy' = Append(toProxy, sent + 1) /\ caller = "open"
        /\ UNCHANGED <<caller, reqBytes, c2s, sendClosed, upstreamRead, toUpstream>>
    BY <1>2 DEF CallerSend, upstreamVars, relayVars
  <2>2. toProxy' = After(reqBytes, sent + 1)
    BY <1>1, <2>1, AfterSeq
  <2>3. QED BY <1>1, <2>1, <2>2 DEF Requests
<1>3. CASE CallerLeaves("closed") \/ CallerLeaves("cancelled")
  BY <1>1, <1>3 DEF CallerLeaves, Requests, upstreamVars, relayVars, streamVars
<1>4. CASE UpstreamReads
  <2>1. /\ toUpstream # <<>> /\ upstreamRead' = Append(upstreamRead, Head(toUpstream))
        /\ toUpstream' = Tail(toUpstream)
        /\ UNCHANGED <<caller, sent, toProxy, reqBytes, c2s, sendClosed>>
    BY <1>4 DEF UpstreamReads, callerVars, relayVars
  <2>2. upstreamRead' \o toUpstream' = upstreamRead \o toUpstream
    BY <1>1, <2>1, MoveHead DEF Types
  <2>3. QED BY <1>1, <2>1, <2>2 DEF Requests
<1>5. CASE C2SRelay
  <2>1. /\ c2s = "run" /\ toProxy # <<>> /\ reqBytes' = Head(toProxy)
        /\ toProxy' = Tail(toProxy) /\ toUpstream' = Append(toUpstream, Head(toProxy))
        /\ UNCHANGED <<caller, sent, c2s, sendClosed, upstreamRead>>
    BY <1>5 DEF C2SRelay, Received, callerVars, upstreamVars
  <2>2. /\ reqBytes + 1 <= sent /\ Head(toProxy) = reqBytes + 1
        /\ toProxy' = After(reqBytes + 1, sent)
    BY <1>1, <2>1, AfterSeq
  <2>3. ~ sendClosed /\ upstreamRead \o toUpstream = Numbers(reqBytes)
    BY <1>1, <2>1 DEF Requests
  <2>4. upstreamRead \o Append(toUpstream, reqBytes + 1) = Numbers(reqBytes + 1)
    <3>1. upstreamRead \in Seq(Nat) /\ toUpstream \in Seq(Nat) /\ reqBytes + 1 \in Nat
      BY <1>1 DEF Types
    <3>2. upstreamRead \o Append(toUpstream, reqBytes + 1)
            = Append(upstreamRead \o toUpstream, reqBytes + 1)
      BY <3>1, ConcatAppend, Zenon
    <3>3. Append(Numbers(reqBytes), reqBytes + 1) = Numbers(reqBytes + 1)
      BY <1>1, NumbersSeq
    <3>4. QED BY <2>3, <3>2, <3>3, Zenon
  <2>5. QED BY <1>1, <2>1, <2>2, <2>3, <2>4 DEF Requests
<1>6. CASE C2SSendFails
  <2>1. /\ c2s = "run" /\ toProxy # <<>> /\ reqBytes' = Head(toProxy)
        /\ toProxy' = Tail(toProxy) /\ c2s' = "end"
        /\ UNCHANGED <<caller, sent, sendClosed, upstreamRead, toUpstream>>
    BY <1>6 DEF C2SSendFails, Received, C2SEnds, callerVars, upstreamVars
  <2>2. /\ reqBytes + 1 <= sent /\ Head(toProxy) = reqBytes + 1
        /\ toProxy' = After(reqBytes + 1, sent)
    BY <1>1, <2>1, AfterSeq
  <2>3. QED BY <1>1, <2>1, <2>2 DEF Requests
<1>7. CASE C2SCloses
  BY <1>1, <1>7 DEF C2SCloses, C2SEnds, Requests, callerVars, upstreamVars
<1>8. CASE C2SRecvFails
  BY <1>1, <1>8 DEF C2SRecvFails, C2SEnds, Requests, callerVars, upstreamVars, streamVars
<1>9. CASE Start
  BY <1>1, <1>9 DEF Start, Requests, callerVars, upstreamVars, streamVars, Inv, Phase, Waited
<1>10. CASE UNCHANGED <<caller, sent, toProxy, reqBytes, c2s, sendClosed, upstreamRead, toUpstream>>
  BY <1>1, <1>10 DEF Requests
<1>11. QED
  BY <1>2, <1>3, <1>4, <1>5, <1>6, <1>7, <1>8, <1>9, <1>10
  DEF Next, CallerRecv, CallerStatus, UpstreamSays, UpstreamEnds, C2SStep, S2CStep, S2CRelay,
      S2CSendFails, S2CRecvFails, HandlerStep, StartFails, Wait, SubmitSpan, Return,
      callerVars, upstreamVars, relayVars, streamVars

(* While s2c runs, nothing but the caller or a request refused ends the    *)
(* context of the call.                                                    *)
LEMMA NotDone ==
  ASSUME Inv, s2c = "run"
  PROVE  Done <=> caller = "cancelled" \/ "request" \in refused
<1>1. handler = "relay"
  BY DEF Inv, Phase, Waited
<1>2. QED BY <1>1 DEF Done, Inv, Closing

(* Responses pass on in order. *)
LEMMA ResponsesStep ==
  ASSUME Inv, Next
  PROVE  Responses'
<1>1. /\ Types /\ Responses /\ respBytes \in Nat /\ said \in Nat /\ respBytes <= said
      /\ fromUpstream = After(respBytes, said)
  BY DEF Inv, Types, Responses
<1>2. CASE UpstreamSays
  <2>1. /\ said' = said + 1 /\ fromUpstream' = Append(fromUpstream, said + 1)
        /\ UNCHANGED <<caller, refused, respBytes, s2c, callerGot, toCaller>>
    BY <1>2 DEF UpstreamSays, callerVars, libraryVars, relayVars
  <2>2. fromUpstream' = After(respBytes, said + 1)
    BY <1>1, <2>1, AfterSeq
  <2>3. QED BY <1>1, <2>1, <2>2 DEF Responses
<1>3. CASE CallerLeaves("closed") \/ CallerLeaves("cancelled")
  BY <1>1, <1>3 DEF CallerLeaves, Responses, libraryVars, upstreamVars, relayVars, streamVars
<1>4. CASE CallerRecv
  <2>1. /\ toCaller # <<>> /\ callerGot' = Append(callerGot, Head(toCaller))
        /\ toCaller' = Tail(toCaller)
        /\ UNCHANGED <<caller, refused, said, fromUpstream, respBytes, s2c>>
    BY <1>4 DEF CallerRecv, libraryVars, upstreamVars, relayVars
  <2>2. callerGot' \o toCaller' = callerGot \o toCaller
    BY <1>1, <2>1, MoveHead DEF Types
  <2>3. QED BY <1>1, <2>1, <2>2 DEF Responses
<1>5. CASE S2CRelay
  <2>1. /\ s2c = "run" /\ fromUpstream # <<>> /\ respBytes' = Head(fromUpstream)
        /\ fromUpstream' = Tail(fromUpstream) /\ toCaller' = Append(toCaller, Head(fromUpstream))
        /\ UNCHANGED <<caller, refused, said, s2c, callerGot>>
    BY <1>5 DEF S2CRelay, libraryVars, callerVars, upstreamVars
  <2>2. /\ respBytes + 1 <= said /\ Head(fromUpstream) = respBytes + 1
        /\ fromUpstream' = After(respBytes + 1, said)
    BY <1>1, <2>1, AfterSeq
  <2>3. callerGot \o toCaller = Numbers(respBytes)
    BY <1>1, <2>1 DEF Responses
  <2>4. callerGot \o Append(toCaller, respBytes + 1) = Numbers(respBytes + 1)
    <3>1. callerGot \in Seq(Nat) /\ toCaller \in Seq(Nat) /\ respBytes + 1 \in Nat
      BY <1>1 DEF Types
    <3>2. callerGot \o Append(toCaller, respBytes + 1)
            = Append(callerGot \o toCaller, respBytes + 1)
      BY <3>1, ConcatAppend, Zenon
    <3>3. Append(Numbers(respBytes), respBytes + 1) = Numbers(respBytes + 1)
      BY <1>1, NumbersSeq
    <3>4. QED BY <2>3, <3>2, <3>3, Zenon
  <2>5. QED BY <1>1, <2>1, <2>2, <2>4 DEF Responses
<1>6. CASE S2CSendFails
  <2>1. /\ caller = "cancelled" \/ "request" \in refused
        /\ s2c = "run" /\ s2c' = "end" /\ fromUpstream # <<>>
        /\ respBytes' = Head(fromUpstream) /\ fromUpstream' = Tail(fromUpstream)
        /\ UNCHANGED <<caller, said, refused>>
    BY <1>6, NotDone DEF S2CSendFails, S2CEnds, callerVars, upstreamVars, libraryVars
  <2>2. /\ respBytes + 1 <= said /\ Head(fromUpstream) = respBytes + 1
        /\ fromUpstream' = After(respBytes + 1, said)
    BY <1>1, <2>1, AfterSeq
  <2>3. QED BY <1>1, <2>1, <2>2 DEF Responses
<1>7. CASE S2CRecvFails
  <2>1. s2c = "run" /\ UNCHANGED <<caller, said, fromUpstream, respBytes, callerGot, toCaller>>
    BY <1>7 DEF S2CRecvFails, S2CEnds, callerVars, streamVars
  <2>2. s2c' = "end" /\ ("request" \in refused => "request" \in refused')
    BY <1>7 DEF S2CRecvFails, S2CEnds
  <2>3. QED BY <1>1, <2>1, <2>2 DEF Responses
<1>8. CASE Start
  BY <1>1, <1>8 DEF Start, Responses, libraryVars, callerVars, upstreamVars, streamVars, Inv, Phase, Waited
<1>9. CASE /\ UNCHANGED <<caller, said, fromUpstream, respBytes, s2c, callerGot, toCaller>>
           /\ "request" \in refused => "request" \in refused'
  BY <1>1, <1>9 DEF Responses
<1>10. QED
  BY <1>2, <1>3, <1>4, <1>5, <1>6, <1>7, <1>8, <1>9
  DEF Next, CallerSend, CallerStatus, UpstreamReads, UpstreamEnds, C2SStep, S2CStep, C2SRelay,
      C2SSendFails, C2SCloses, C2SRecvFails, C2SEnds, Received, HandlerStep, StartFails, Wait,
      SubmitSpan, Return, libraryVars, callerVars, upstreamVars, relayVars, streamVars

(* A result stays true once it is on errCh: c2s has stopped, and the call  *)
(* of the upstream ends only once.                                         *)
LEMMA ResultsStay ==
  ASSUME Inv, Next, NEW e
  PROVE  /\ c2s = "end" /\ C2SResult(e) => C2SResult(e)'
         /\ s2c = "end" /\ S2CResult(e) => S2CResult(e)'
<1>1. Types
  BY DEF Inv
<1>2. c2s = "end" => UNCHANGED sendClosed
  BY <1>1
  DEF Types, Inv, Phase, Next, CallerSend, CallerLeaves, CallerRecv, CallerStatus, UpstreamReads,
      UpstreamSays, UpstreamEnds, C2SStep, C2SRelay, C2SSendFails, C2SCloses, C2SRecvFails, Received,
      S2CStep, S2CRelay, S2CSendFails, S2CRecvFails, HandlerStep, Start, StartFails, Wait,
      SubmitSpan, Return, streamVars
<1>3. s2c = "end" /\ upstream # "serving" => UNCHANGED <<upstream, fromUpstream>>
  BY DEF Next, CallerSend, CallerLeaves, CallerRecv, CallerStatus, UpstreamReads,
      UpstreamSays, UpstreamEnds, C2SStep, C2SRelay, C2SSendFails, C2SCloses, C2SRecvFails,
      S2CStep, S2CRelay, S2CSendFails, S2CRecvFails, HandlerStep, Start, StartFails, Wait,
      SubmitSpan, Return, streamVars, upstreamVars
<1>4. caller = "cancelled" => caller' = "cancelled"
  BY DEF Next, CallerSend, CallerLeaves, CallerRecv, CallerStatus, UpstreamReads,
      UpstreamSays, UpstreamEnds, C2SStep, C2SRelay, C2SSendFails, C2SCloses, C2SRecvFails,
      S2CStep, S2CRelay, S2CSendFails, S2CRecvFails, HandlerStep, Start, StartFails, Wait,
      SubmitSpan, Return, callerVars
<1>8. /\ refused \subseteq refused'
      /\ s2c = "end" => ("response" \in refused' => "response" \in refused)
  BY DEF Next, CallerSend, CallerLeaves, CallerRecv, CallerStatus, UpstreamReads,
      UpstreamSays, UpstreamEnds, C2SStep, C2SRelay, C2SSendFails, C2SCloses, C2SRecvFails,
      S2CStep, S2CRelay, S2CSendFails, S2CRecvFails, HandlerStep, Start, StartFails, Wait,
      SubmitSpan, Return, libraryVars
<1>5. c2s = "end" /\ C2SResult(e) => C2SResult(e)'
  BY <1>2 DEF C2SResult
<1>6. s2c = "end" /\ S2CResult(e) => S2CResult(e)'
  BY <1>3, <1>4, <1>8 DEF S2CResult, Ended
<1>7. QED BY <1>5, <1>6

(* Appending a first and a second result. *)
LEMMA AppendResult ==
  ASSUME NEW a, NEW b
  PROVE  Append(<<>>, a) = <<a>> /\ Append(<<a>>, b) = <<a, b>>
<1> DEFINE S == {a, b}
<1>1. ASSUME NEW s \in Seq(S), s = <<a>>
      PROVE  Append(s, b) = <<a, b>>
  <2>1. Append(s, b) \in Seq(S) /\ Len(Append(s, b)) = 2
    BY <1>1
  <2>2. Append(s, b)[1] = a
    BY <1>1
  <2>3. Append(s, b)[2] = b
    BY <1>1
  <2>4. \A t \in Seq(S) : (Len(t) = 2 /\ t[1] = a /\ t[2] = b) => t = <<a, b>>
    OBVIOUS
  <2>5. QED BY <2>1, <2>2, <2>3, <2>4, Zenon
<1>2. <<a>> \in Seq(S)
  OBVIOUS
<1>3. Append(<<>>, a) = <<a>>
  OBVIOUS
<1>4. QED BY <1>1, <1>2, <1>3, Zenon

(* errCh holds a true result of each goroutine that has ended. *)
LEMMA ResultsStep ==
  ASSUME Inv, Next
  PROVE  Results'
<1>1. Types /\ Results /\ (sendClosed => c2s = "end")
  BY DEF Inv, Requests
<1>2. \A e : /\ c2s = "end" /\ C2SResult(e) => C2SResult(e)'
             /\ s2c = "end" /\ S2CResult(e) => S2CResult(e)'
  BY ResultsStay
<1>3. ASSUME NEW e, e \in Outcomes, c2s = "run", s2c' = s2c, C2SEnds(e), C2SResult(e)'
      PROVE  Results'
  <2>1. c2s' = "end" /\ errCh' = Append(errCh, e)
    BY <1>3 DEF C2SEnds
  <2>2. CASE s2c # "end" /\ errCh = <<>>
    <3>1. errCh' = <<e>>
      BY <2>1, <2>2, AppendResult
    <3>2. QED BY <1>3, <2>1, <2>2, <3>1 DEF Results
  <2>3. ASSUME NEW b \in Outcomes, s2c = "end", S2CResult(b), errCh = <<b>>
        PROVE  Results'
    <3>1. errCh' = <<b, e>> /\ S2CResult(b)'
      BY <1>2, <2>1, <2>3, AppendResult
    <3>2. QED BY <1>3, <2>1, <2>3, <3>1 DEF Results
  <2>4. QED BY <1>1, <1>3, <2>2, <2>3 DEF Results
<1>4. ASSUME NEW e, e \in Outcomes, s2c = "run", c2s' = c2s, S2CEnds(e), S2CResult(e)'
      PROVE  Results'
  <2>1. s2c' = "end" /\ errCh' = Append(errCh, e)
    BY <1>4 DEF S2CEnds
  <2>2. CASE c2s # "end" /\ errCh = <<>>
    <3>1. errCh' = <<e>>
      BY <2>1, <2>2, AppendResult
    <3>2. QED BY <1>4, <2>1, <2>2, <3>1 DEF Results
  <2>3. ASSUME NEW a \in Outcomes, c2s = "end", C2SResult(a), errCh = <<a>>
        PROVE  Results'
    <3>1. errCh' = <<a, e>> /\ C2SResult(a)'
      BY <1>2, <2>1, <2>3, AppendResult
    <3>2. QED BY <1>4, <2>1, <2>3, <3>1 DEF Results
  <2>4. QED BY <1>1, <1>4, <2>2, <2>3 DEF Results
<1>5. CASE C2SSendFails
  <2>1. c2s = "run" /\ s2c' = s2c /\ sendClosed' = sendClosed
    BY <1>5 DEF C2SSendFails, Received
  <2>2. PICK e \in {"EOF", "Canceled"} : C2SEnds(e)
    BY <1>5 DEF C2SSendFails
  <2>3. C2SResult(e)' /\ e \in Outcomes
    BY <1>1, <2>1, <2>2 DEF C2SResult, Types, Outcomes, Errors
  <2>4. QED BY <1>3, <2>1, <2>2, <2>3
<1>6. CASE C2SCloses
  <2>1. /\ c2s = "run" /\ s2c' = s2c /\ sendClosed' = TRUE /\ C2SEnds("none")
        /\ "none" \in Outcomes
    BY <1>6 DEF C2SCloses, Outcomes
  <2>2. C2SResult("none")'
    BY <2>1 DEF C2SResult
  <2>3. QED BY <1>3, <2>1, <2>2
<1>7. CASE C2SRecvFails
  <2>1. c2s = "run" /\ s2c' = s2c /\ sendClosed' = sendClosed
    BY <1>7 DEF C2SRecvFails, streamVars
  <2>2. PICK e \in {"Canceled", "ResourceExhausted"} : C2SEnds(e)
    BY <1>7 DEF C2SRecvFails
  <2>3. C2SResult(e)' /\ e \in Outcomes
    BY <1>1, <2>1, <2>2 DEF C2SResult, Types, Outcomes, Errors
  <2>4. QED BY <1>3, <2>1, <2>2, <2>3
<1>8. CASE S2CSendFails \/ (S2CRecvFails /\ S2CEnds("Canceled") /\ Done)
  <2>1. /\ s2c = "run" /\ c2s' = c2s /\ S2CEnds("Canceled") /\ "Canceled" \in Outcomes
        /\ Done /\ UNCHANGED caller
    BY <1>8 DEF S2CSendFails, S2CRecvFails, callerVars, Outcomes, Errors
  <2>2. "request" \in refused => "request" \in refused'
    BY <1>8 DEF S2CSendFails, S2CRecvFails, libraryVars
  <2>3. S2CResult("Canceled")'
    BY <2>1, <2>2, NotDone DEF S2CResult
  <2>4. QED BY <1>4, <2>1, <2>3
<1>9. CASE /\ S2CRecvFails /\ upstream # "serving" /\ fromUpstream = <<>> /\ S2CEnds(Ended)
           /\ UNCHANGED <<upstream, refused>>
  <2>1. s2c = "run" /\ c2s' = c2s /\ UNCHANGED <<upstream, fromUpstream, refused>>
    BY <1>9 DEF S2CRecvFails, streamVars
  <2>2. upstream # "reset" /\ "response" \notin refused
    BY <2>1 DEF Inv, Closing
  <2>3. Ended \in Outcomes
    BY <1>1, <1>9, <2>2 DEF Ended, Outcomes, Errors, Types
  <2>4. PICK e \in Outcomes : e = Ended
    BY <2>3
  <2>5. S2CResult(e)' /\ S2CEnds(e)
    BY <1>9, <2>1, <2>2, <2>4 DEF S2CResult, Ended
  <2>6. QED BY <1>4, <2>1, <2>4, <2>5
<1>13. CASE S2CRecvFails /\ S2CEnds("ResourceExhausted") /\ "response" \in refused'
  <2>1. s2c = "run" /\ c2s' = c2s /\ "ResourceExhausted" \in Outcomes
    BY <1>13 DEF S2CRecvFails, Outcomes, Errors
  <2>2. S2CResult("ResourceExhausted")'
    BY <1>13 DEF S2CResult
  <2>3. QED BY <1>4, <1>13, <2>1, <2>2
<1>10. CASE Start
  BY <1>1, <1>10 DEF Start, Results, Inv, Phase, Waited
<1>11. CASE UNCHANGED <<c2s, s2c, errCh>>
  BY <1>1, <1>2, <1>11 DEF Results
<1>12. QED
  BY <1>5, <1>6, <1>7, <1>8, <1>9, <1>10, <1>11, <1>13
  DEF Next, CallerSend, CallerLeaves, CallerRecv, CallerStatus, UpstreamReads, UpstreamSays,
      UpstreamEnds, C2SStep, S2CStep, C2SRelay, S2CRelay, S2CRecvFails, Ended, HandlerStep,
      StartFails, Wait, SubmitSpan, Return, callerVars, upstreamVars, relayVars, streamVars

(* The handler submits what the goroutines left behind. *)
LEMMA PhaseStep ==
  ASSUME Inv, Next
  PROVE  Phase'
<1>1. Phase
  BY DEF Inv
<1>2. CASE C2SStep \/ S2CStep
  <2>1. /\ c2s = "run" \/ s2c = "run"
        /\ UNCHANGED <<handler, relayErr, active, spans>>
    BY <1>2
    DEF C2SStep, S2CStep, C2SRelay, C2SSendFails, C2SCloses, C2SRecvFails, Received, S2CRelay,
        S2CSendFails, S2CRecvFails, spanVars
  <2>2. handler = "relay" /\ UNCHANGED <<handler, relayErr, active, spans>>
    BY <1>1, <1>2, <2>1
    DEF Phase, Waited, C2SStep, S2CStep, C2SRelay, C2SSendFails, C2SCloses, C2SRecvFails,
        Received, S2CRelay, S2CSendFails, S2CRecvFails, spanVars
  <2>3. c2s' # "off" /\ s2c' # "off"
    BY <1>1, <1>2, <2>2
    DEF Phase, C2SStep, S2CStep, C2SRelay, C2SSendFails, C2SCloses, C2SRecvFails, C2SEnds,
        Received, S2CRelay, S2CSendFails, S2CRecvFails, S2CEnds
  <2>4. QED BY <1>1, <2>2, <2>3 DEF Phase
<1>3. CASE Start
  BY <1>1, <1>3 DEF Start, Phase
<1>4. CASE StartFails
  BY <1>1, <1>4 DEF StartFails, Phase, Waited, relayVars
<1>5. CASE Wait
  <2>1. c2s = "end" /\ s2c = "end"
    <3>1. Len(errCh) = 2 /\ Results
      BY <1>5 DEF Wait, Inv
    <3>2. errCh # <<>> /\ \A a \in Outcomes : errCh # <<a>>
      BY <3>1
    <3>3. QED BY <3>1, <3>2, Zenon DEF Results
  <2>2. QED BY <1>1, <1>5, <2>1 DEF Wait, Phase, Waited, relayVars
<1>6. CASE SubmitSpan
  <2>1. Append(<<>>, [error |-> relayErr, request |-> reqBytes, response |-> respBytes]) = Submitted
    BY AppendResult DEF Submitted
  <2>2. QED BY <1>1, <1>6, <2>1 DEF SubmitSpan, Phase, Waited, Submitted, relayVars
<1>7. CASE Return
  BY <1>1, <1>7 DEF Return, Phase, Waited, Submitted, relayVars
<1>8. CASE UNCHANGED <<handler, relayVars, spanVars>>
  BY <1>1, <1>8 DEF Phase, Waited, Submitted, relayVars, spanVars
<1>9. QED
  BY <1>2, <1>3, <1>4, <1>5, <1>6, <1>7, <1>8
  DEF Next, CallerSend, CallerLeaves, CallerRecv, CallerStatus, UpstreamReads, UpstreamSays,
      UpstreamEnds, HandlerStep

(* The status of the stream is written once.                               *)
LEMMA ClosingStep ==
  ASSUME Inv, Next
  PROVE  Closing'
<1>1. /\ Types /\ Requests /\ Phase /\ Closing
  BY DEF Inv
<1>2. CASE C2SRecvFails
  <2>1. c2s = "run" /\ c2s' = "end" /\ UNCHANGED <<s2c, sendClosed, handler, relayErr, upstream>>
    BY <1>2 DEF C2SRecvFails, C2SEnds, streamVars, spanVars, upstreamVars
  <2>2. \/ UNCHANGED <<trailer, refused>>
        \/ trailer' = "ResourceExhausted" /\ refused' = refused \cup {"request"}
    BY <1>2 DEF C2SRecvFails, libraryVars
  <2>3. ~ sendClosed
    BY <1>1, <2>1 DEF Requests
  <2>4. QED BY <1>1, <2>1, <2>2, <2>3 DEF Closing
<1>3. CASE S2CRecvFails
  <2>1. /\ s2c = "run" /\ s2c' = "end"
        /\ UNCHANGED <<trailer, c2s, sendClosed, handler, relayErr>>
    BY <1>3 DEF S2CRecvFails, S2CEnds, streamVars, spanVars
  <2>2. \/ UNCHANGED <<upstream, refused>>
        \/ refused' = refused \cup {"response"}
    BY <1>3 DEF S2CRecvFails
  <2>3. QED BY <1>1, <2>1, <2>2 DEF Closing
<1>4. CASE Return
  <2>1. handler = "clear" /\ handler' = "done"
        /\ trailer' = IF trailer = "none" THEN Status(relayErr) ELSE trailer
    BY <1>4, Zenon DEF Return
  <2>2. UNCHANGED <<c2s, s2c, sendClosed, upstream, refused, relayErr>>
    BY <1>4 DEF Return, relayVars, streamVars, upstreamVars
  <2>3. Status(relayErr)' = Status(relayErr)
    BY <2>2 DEF Status
  <2>4. QED BY <1>1, <2>1, <2>2, <2>3 DEF Closing
<1>5. CASE /\ UNCHANGED <<trailer, refused>>
           /\ c2s = "end" => c2s' = "end" /\ sendClosed' = sendClosed
           /\ s2c = "end" => s2c' = "end"
           /\ upstream' = "reset" => upstream = "reset"
           /\ handler' = "done" <=> handler = "done"
           /\ handler = "done" => relayErr' = relayErr
  BY <1>1, <1>5 DEF Closing, Status
<1>6. CASE CallerSend \/ CallerLeaves("closed") \/ CallerLeaves("cancelled") \/ CallerRecv
           \/ CallerStatus \/ UpstreamReads \/ UpstreamSays
  BY <1>5, <1>6
  DEF CallerSend, CallerLeaves, CallerRecv, CallerStatus, UpstreamReads, UpstreamSays,
      libraryVars, upstreamVars, relayVars, streamVars, spanVars
<1>7. CASE UpstreamEnds
  <2>1. upstream' # "reset"
    BY <1>7, FailuresAssumption DEF UpstreamEnds
  <2>2. QED BY <1>5, <1>7, <2>1
          DEF UpstreamEnds, libraryVars, relayVars, streamVars, spanVars
<1>8. CASE C2SRelay \/ C2SSendFails \/ C2SCloses
  BY <1>5, <1>8
  DEF C2SRelay, C2SSendFails, C2SCloses, C2SEnds, Received, libraryVars, upstreamVars, spanVars
<1>9. CASE S2CRelay \/ S2CSendFails
  BY <1>5, <1>9
  DEF S2CRelay, S2CSendFails, S2CEnds, libraryVars, upstreamVars, spanVars
<1>10. CASE Start \/ StartFails \/ Wait \/ SubmitSpan
  <2>1. Start => c2s # "end" /\ s2c # "end"
    BY <1>1 DEF Start, Phase, Waited
  <2>2. QED BY <1>5, <1>10, <2>1
          DEF Start, StartFails, Wait, SubmitSpan, libraryVars, upstreamVars, relayVars, streamVars
<1>11. QED
  BY <1>2, <1>3, <1>4, <1>6, <1>7, <1>8, <1>9, <1>10, Zenon
  DEF Next, C2SStep, S2CStep, HandlerStep

(* Nothing the caller has seen changes afterwards. *)
LEMMA SeenStep ==
  ASSUME Inv, Next
  PROVE  Seen'
<1>1. Seen /\ Phase /\ Closing
  BY DEF Inv
<1>2. CASE CallerStatus
  BY <1>2 DEF CallerStatus, Seen, libraryVars, streamVars
<1>3. CASE callerStatus # "none" /\ callerStatus' = callerStatus
  <2>1. trailer # "none" /\ toCaller = <<>> /\ c2s # "run"
    <3>1. trailer # "none" /\ toCaller = <<>>
      BY <1>1, <1>3 DEF Seen
    <3>2. "request" \in refused \/ handler = "done"
      BY <1>1, <3>1 DEF Closing
    <3>3. c2s # "run"
      BY <1>1, <3>2 DEF Closing, Phase, Waited
    <3>4. QED BY <3>1, <3>3
  <2>2. UNCHANGED <<trailer, toCaller, caller>>
    BY <1>3, <2>1
    DEF Next, CallerSend, CallerLeaves, CallerRecv, CallerStatus, UpstreamReads, UpstreamSays,
        UpstreamEnds, C2SStep, C2SRelay, C2SSendFails, C2SCloses, C2SRecvFails, Received, S2CStep,
        S2CRelay, S2CSendFails, S2CRecvFails, HandlerStep, Start, StartFails, Wait, SubmitSpan,
        Return, callerVars, streamVars, libraryVars
  <2>3. QED BY <1>1, <1>3, <2>2 DEF Seen
<1>4. CASE callerStatus' = "none"
  BY <1>4 DEF Seen
<1>5. QED
  BY <1>2, <1>3, <1>4
  DEF Next, CallerSend, CallerLeaves, CallerRecv, CallerStatus, UpstreamReads, UpstreamSays,
      UpstreamEnds, C2SStep, C2SRelay, C2SSendFails, C2SCloses, C2SRecvFails, S2CStep, S2CRelay,
      S2CSendFails, S2CRecvFails, HandlerStep, Start, StartFails, Wait, SubmitSpan, Return,
      callerVars

-----------------------------------------------------------------------------
(* The theorems. *)

(* The invariant, for any call. *)
LEMMA InvInductive == Spec => []Inv
<1>1. Inv /\ [Next]_vars => Inv'
  <2> SUFFICES ASSUME Inv, [Next]_vars PROVE Inv'
    OBVIOUS
  <2>1. CASE Next
    BY <2>1, TypesStep, RequestsStep, ResponsesStep, ResultsStep, PhaseStep, ClosingStep,
       SeenStep, Zenon
    DEF Inv
  <2>2. CASE UNCHANGED vars
    <3>1. /\ UNCHANGED <<callerVars, libraryVars, upstreamVars, relayVars>>
          /\ UNCHANGED <<streamVars, handler, spanVars>>
      BY <2>2 DEF vars
    <3>2. /\ UNCHANGED <<caller, sent, callerGot, callerStatus, upstream, upstreamRead, said>>
          /\ UNCHANGED <<c2s, s2c, reqBytes, respBytes, errCh, handler>>
          /\ UNCHANGED <<toProxy, toUpstream, sendClosed, fromUpstream, toCaller>>
          /\ UNCHANGED <<relayErr, active, spans, trailer, refused>>
      BY <3>1 DEF callerVars, libraryVars, upstreamVars, relayVars, streamVars, spanVars
    <3>3. Types' /\ Requests' /\ Responses'
      BY <3>2 DEF Inv, Types, Requests, Responses
    <3>4. Results'
      BY <3>2 DEF Inv, Results, C2SResult, S2CResult, Ended
    <3>5. Phase' /\ Closing' /\ Seen'
      BY <3>2 DEF Inv, Phase, Closing, Seen, Waited, Submitted, Status
    <3>6. QED BY <3>3, <3>4, <3>5 DEF Inv
  <2>3. QED BY <2>1, <2>2
<1>2. QED BY InitInv, <1>1, PTL DEF Spec

(* What the caller was told: ResourceExhausted for a request refused, or   *)
(* else the error of the call.  Nil comes from an upstream that ended the  *)
(* call with OK after the caller had closed its side, and behind a closed  *)
(* side the status of the upstream comes through, unless the proxy refused *)
(* a response.                                                             *)
LEMMA ErrorOfCall ==
  ASSUME Inv, callerStatus # "none", "request" \notin refused
  PROVE  /\ handler = "done" /\ caller # "cancelled" /\ callerStatus = Status(relayErr)
         /\ sendClosed => IF "response" \in refused THEN relayErr = "ResourceExhausted"
                          ELSE upstream \notin {"serving", "reset"} /\ relayErr = Ended
         /\ relayErr = "none" => sendClosed /\ upstream = "OK" /\ fromUpstream = <<>>
         /\ relayErr # "OK"
<1>1. /\ handler = "done" /\ caller # "cancelled" /\ callerStatus = Status(relayErr)
      /\ Waited /\ upstream \in {"serving", "reset", "OK"} \cup Failures
      /\ sendClosed => c2s = "end"
  <2>1. trailer # "none" /\ caller # "cancelled" /\ callerStatus = trailer
    BY DEF Inv, Seen
  <2>2. handler = "done" /\ trailer = Status(relayErr)
    BY <2>1 DEF Inv, Closing
  <2>3. QED BY <2>1, <2>2 DEF Inv, Phase, Types, Requests
<1>2. CASE c2s = "off" /\ relayErr = "Unavailable"
  BY <1>1, <1>2
<1>3. CASE c2s = "end" /\ s2c = "end" /\ relayErr = LastError(errCh)
  <2>1. PICK a \in Outcomes, b \in Outcomes :
               C2SResult(a) /\ S2CResult(b) /\ errCh \in {<<a, b>>, <<b, a>>}
    BY <1>3 DEF Inv, Results
  <2>2. relayErr \in {a, b} /\ (relayErr = "none" => a = "none" /\ b = "none")
        /\ (a = "none" => relayErr = b)
    BY <1>3, <2>1, LastErrorOfTwo
  <2>3. \/ /\ upstream \notin {"serving", "reset"} /\ fromUpstream = <<>>
           /\ "response" \notin refused /\ b = Ended
        \/ "response" \in refused /\ b = "ResourceExhausted"
    BY <1>1, <2>1 DEF S2CResult
  <2>4. "OK" \notin Outcomes
    BY FailuresAssumption DEF Outcomes, Errors
  <2>5. b = "none" => upstream = "OK" /\ fromUpstream = <<>>
    BY <1>1, <2>3, FailuresAssumption DEF Ended
  <2>6. QED BY <1>1, <2>1, <2>2, <2>3, <2>4, <2>5 DEF C2SResult
<1>4. QED BY <1>1, <1>2, <1>3 DEF Waited

(* A caller that sees OK has a complete call, however the two goroutines   *)
(* and the peers interleave: everything it sent was passed on, everything  *)
(* the upstream said has arrived, and the span says the same.              *)
THEOREM OKAlwaysComplete == Spec => []OKMeansComplete
<1>1. Inv => OKMeansComplete
  <2> SUFFICES ASSUME Inv, callerStatus = "OK" PROVE OKMeansComplete
    BY DEF OKMeansComplete
  <2>1. "request" \notin refused
    BY DEF Inv, Closing, Seen
  <2>2. /\ handler = "done" /\ caller # "cancelled" /\ Status(relayErr) = "OK"
        /\ relayErr = "none" => sendClosed /\ upstream = "OK" /\ fromUpstream = <<>>
        /\ relayErr # "OK"
    BY <2>1, ErrorOfCall
  <2>3. relayErr = "none" /\ sendClosed /\ upstream = "OK" /\ fromUpstream = <<>>
    BY <2>2 DEF Status
  <2>4. Types /\ Requests /\ Responses /\ Phase /\ Seen
    BY DEF Inv
  <2>5. caller = "closed" /\ toCaller = <<>>
    BY <2>2, <2>3, <2>4 DEF Types, Requests, Seen
  <2>6. reqBytes = sent /\ upstreamRead \o toUpstream = Numbers(sent)
    <3>1. /\ reqBytes \in Nat /\ sent \in Nat /\ reqBytes <= sent
          /\ After(reqBytes, sent) = <<>>
      BY <2>3, <2>4 DEF Types, Requests
    <3>2. reqBytes = sent
      BY <3>1, AfterSeq
    <3>3. QED BY <2>3, <2>4, <3>2 DEF Requests
  <2>7. respBytes = said /\ callerGot \o toCaller = Numbers(said)
    <3>1. /\ respBytes \in Nat /\ said \in Nat /\ respBytes <= said
          /\ After(respBytes, said) = <<>>
      BY <2>3, <2>4 DEF Types, Responses
    <3>2. respBytes = said
      BY <3>1, AfterSeq
    <3>3. QED BY <2>1, <2>2, <2>4, <3>2 DEF Responses
  <2>8. callerGot \o <<>> = callerGot
    BY <2>4 DEF Types
  <2>9. spans = <<[error |-> "none", request |-> sent, response |-> said]>>
    BY <2>2, <2>3, <2>4, <2>6, <2>7 DEF Phase, Submitted
  <2>10. QED BY <2>3, <2>5, <2>6, <2>7, <2>8, <2>9 DEF OKMeansComplete
<1>2. QED BY InvInductive, <1>1, PTL

(* The status of the upstream comes through behind a closed side, in       *)
(* whichever order the goroutines report, unless the proxy refused one of  *)
(* its responses, which the caller then learns from its status.            *)
THEOREM StatusAlwaysKept == Spec => []StatusKept
<1>1. Inv => StatusKept
  <2> SUFFICES ASSUME Inv, sendClosed, callerStatus # "none"
               PROVE  callerStatus = IF "response" \in refused THEN "ResourceExhausted"
                                     ELSE upstream
    BY DEF StatusKept
  <2>1. "request" \notin refused
    BY DEF Inv, Closing
  <2>2. callerStatus = Status(relayErr)
    BY <2>1, ErrorOfCall
  <2>3. CASE "response" \in refused
    BY <2>1, <2>2, <2>3, ErrorOfCall DEF Status
  <2>4. CASE "response" \notin refused
    <3>1. relayErr = Ended /\ upstream \notin {"serving", "reset"}
      BY <2>1, <2>4, ErrorOfCall
    <3>2. upstream = "OK" \/ upstream \in Failures
      BY <3>1 DEF Inv, Types
    <3>3. QED BY <2>2, <2>4, <3>1, <3>2, FailuresAssumption DEF Ended, Status
  <2>5. QED BY <2>3, <2>4
<1>2. QED BY InvInductive, <1>1, PTL

(* The span is submitted exactly once, while the call is active.           *)
THEOREM SpanAlwaysBeforeEnd == Spec => []SpanBeforeEnd
<1>1. Inv => SpanBeforeEnd
  <2> SUFFICES ASSUME Inv PROVE SpanBeforeEnd
    OBVIOUS
  <2>1. Submitted # <<>> /\ Len(Submitted) = 1 /\ Submitted[1].error = relayErr
    BY DEF Submitted
  <2>2. QED BY <2>1 DEF Inv, Phase, SpanBeforeEnd
<1>2. QED BY InvInductive, <1>1, PTL
=============================================================================
