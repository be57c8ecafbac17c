----------------------------- MODULE GrpcRelay -----------------------------
(***************************************************************************)
(* One call through the gRPC proxy: UnknownHandler of internal/proxy/grpc/ *)
(* proxy.go.  The handler opens a stream to the upstream, starts two       *)
(* goroutines that relay the two directions, waits for both, and submits   *)
(* the span.  The caller learns the status of the call only when the       *)
(* handler has returned.                                                   *)
(*                                                                         *)
(* Caller, upstream and the gRPC library (grpc-go 1.79) are the            *)
(* environment.  What the library does: RecvMsg returns io.EOF when the    *)
(* peer has closed its side (for the upstream: with status OK), SendMsg to *)
(* an upstream that has ended the call returns io.EOF whatever the status  *)
(* is, and cancelling the call of the caller cancels the one to the        *)
(* upstream, which uses its context.  Either RecvMsg may refuse a message  *)
(* by itself: nobody raises the limit of 4 MB, so a longer one ends it with*)
(* ResourceExhausted.  Refusing a request writes that status to the caller *)
(* at once and cancels the call's context; refusing a response resets the  *)
(* call to the upstream.                                                   *)
(*                                                                         *)
(* Receiving a message and sending it on is one step: what the peer does   *)
(* in between is covered by the outcomes of sending.                       *)
(***************************************************************************)
EXTENDS Naturals, Sequences

CONSTANTS
  MaxRequests,   \* bound: messages the caller sends
  MaxResponses,  \* bound: messages the upstream sends
  Failures       \* statuses other than OK with which the upstream ends calls

ASSUME BoundsAssumption == MaxRequests \in Nat /\ MaxResponses \in Nat
ASSUME FailuresAssumption ==
  Failures \cap {"serving", "reset", "none", "OK", "EOF"} = {}

VARIABLES
  caller,        \* the caller's side of the call: "open", "closed", "cancelled"
  sent,          \* how many requests the caller has sent; they are numbered
  toProxy,       \* requests the caller has sent and the proxy has not received
  upstream,      \* "serving", the status with which it ended the call, or
                 \* "reset" by the proxy
  toUpstream,    \* requests sent on and not yet read
  upstreamRead,  \* history: the requests the upstream has read
  sendClosed,    \* CloseSend was called
  said,          \* how many responses the upstream has sent
  fromUpstream,  \* responses the proxy has not received
  toCaller,      \* responses sent on to the caller
  callerGot,     \* history: the responses the caller has read
  callerStatus,  \* the status the caller has seen, "none" before
  trailer,       \* the status written to the caller's stream, "none" before
  refused,       \* history: a "request", a "response" that RecvMsg refused
  handler,       \* UnknownHandler: "start", "relay", "submit", "clear", "done"
  c2s, s2c,      \* the relay goroutines: "off", "run", "end"
  reqBytes,      \* the last request received, 0 if none
  respBytes,     \* the last response received, 0 if none
  errCh,         \* results of the goroutines, in order; "none" is nil
  relayErr,      \* the error of the call, "none" is nil
  active,        \* OnSpan was called and OnSpanEnd was not
  spans          \* history: the spans submitted

callerVars   == <<caller, sent, callerGot, callerStatus>>
libraryVars  == <<trailer, refused>>
upstreamVars == <<upstream, upstreamRead, said>>
relayVars    == <<c2s, s2c, reqBytes, respBytes, errCh>>
streamVars   == <<toProxy, toUpstream, sendClosed, fromUpstream, toCaller>>
spanVars     == <<relayErr, active, spans>>
vars == <<callerVars, libraryVars, upstreamVars, relayVars, streamVars, handler, spanVars>>

Errors == Failures \cup {"EOF", "Canceled", "Unavailable", "ResourceExhausted"}

(* What the library makes of the error a handler returns: one that is not  *)
(* a status becomes Unknown.                                               *)
Status(error) ==
  CASE error = "none" -> "OK" [] error = "EOF" -> "Unknown" [] OTHER -> error

(* The context of the call, and of the call to the upstream, is done: the  *)
(* caller gave up, or its stream has been given a status.                  *)
Done == caller = "cancelled" \/ trailer # "none"

-----------------------------------------------------------------------------
(* The caller. *)

CallerSend ==
  /\ caller = "open" /\ callerStatus = "none" /\ sent < MaxRequests
  /\ sent' = sent + 1
  /\ toProxy' = Append(toProxy, sent + 1)
  /\ UNCHANGED <<libraryVars, caller, callerGot, callerStatus, upstreamVars,
                 relayVars, toUpstream, sendClosed, fromUpstream, toCaller, handler,
                 spanVars>>

(* It closes its side, or gives the whole call up (cancels it, or lets its *)
(* deadline pass).                                                         *)
CallerLeaves(how) ==
  /\ caller = "open" \/ (caller = "closed" /\ how = "cancelled")
  /\ callerStatus = "none"
  /\ caller' = how
  /\ UNCHANGED <<libraryVars, sent, callerGot, callerStatus, upstreamVars, relayVars,
                 streamVars, handler, spanVars>>

CallerRecv ==
  /\ toCaller # <<>>
  /\ callerGot' = Append(callerGot, Head(toCaller))
  /\ toCaller' = Tail(toCaller)
  /\ UNCHANGED <<libraryVars, caller, sent, callerStatus, upstreamVars, relayVars,
                 toProxy, toUpstream, sendClosed, fromUpstream, handler, spanVars>>

(* The status follows the responses. *)
CallerStatus ==
  /\ trailer # "none" /\ toCaller = <<>>
  /\ caller # "cancelled" /\ callerStatus = "none"
  /\ callerStatus' = trailer
  /\ UNCHANGED <<libraryVars, caller, sent, callerGot, upstreamVars, relayVars,
                 streamVars, handler, spanVars>>

-----------------------------------------------------------------------------
(* The upstream. *)

UpstreamReads ==
  /\ upstream = "serving" /\ toUpstream # <<>>
  /\ upstreamRead' = Append(upstreamRead, Head(toUpstream))
  /\ toUpstream' = Tail(toUpstream)
  /\ UNCHANGED <<libraryVars, callerVars, upstream, said, relayVars, toProxy,
                 sendClosed, fromUpstream, toCaller, handler, spanVars>>

UpstreamSays ==
  /\ upstream = "serving" /\ c2s # "off" /\ said < MaxResponses
  /\ said' = said + 1
  /\ fromUpstream' = Append(fromUpstream, said + 1)
  /\ UNCHANGED <<libraryVars, callerVars, upstream, upstreamRead, relayVars, toProxy,
                 toUpstream, sendClosed, toCaller, handler, spanVars>>

(* It may end the call at any time, whether it has read everything or not. *)
UpstreamEnds ==
  /\ upstream = "serving" /\ c2s # "off"
  /\ upstream' \in {"OK"} \cup Failures
  /\ UNCHANGED <<libraryVars, callerVars, upstreamRead, said, relayVars, streamVars,
                 handler, spanVars>>

-----------------------------------------------------------------------------
(* The handler, up to the start of the goroutines. *)

(* OnSpan is called, and the stream to the upstream is opened ... *)
Start ==
  /\ handler = "start"
  /\ active' = TRUE
  /\ handler' = "relay" /\ c2s' = "run" /\ s2c' = "run"
  /\ UNCHANGED <<libraryVars, callerVars, upstreamVars, reqBytes, respBytes, errCh,
                 streamVars, relayErr, spans>>

(* The Mut_ operators of this module are deliberately wrong variants of the *)
(* definitions that follow them.  No definition uses them: each shows that *)
(* some property would notice the bug.                                     *)

(* The early return forgets the span and OnSpanEnd. *)
Mut_EarlyReturn ==
  /\ handler = "start"
  /\ active' = TRUE
  /\ relayErr' = "Unavailable" /\ trailer' = "Unavailable"
  /\ handler' = "done"
  /\ UNCHANGED <<callerVars, refused, upstreamVars, relayVars, streamVars, spans>>

(* ... or cannot be: no goroutine is started, the error goes on the span. *)
StartFails ==
  /\ handler = "start"
  /\ active' = TRUE
  /\ relayErr' = "Unavailable"
  /\ handler' = "submit"
  /\ UNCHANGED <<libraryVars, callerVars, upstreamVars, relayVars, streamVars, spans>>

-----------------------------------------------------------------------------
(* The goroutine from the caller to the upstream. *)

C2SEnds(error) ==
  /\ c2s' = "end"
  /\ errCh' = Append(errCh, error)

Received ==
  /\ c2s = "run" /\ toProxy # <<>>
  /\ reqBytes' = Head(toProxy)
  /\ toProxy' = Tail(toProxy)

(* A request is sent on.  If the upstream has ended the call, but the proxy*)
(* has not heard of it yet, the request gets lost without an error.        *)
C2SRelay ==
  /\ Received
  /\ upstream # "serving" => s2c = "run"
  /\ toUpstream' = Append(toUpstream, Head(toProxy))
  /\ UNCHANGED <<libraryVars, callerVars, upstreamVars, c2s, s2c, respBytes, errCh,
                 sendClosed, fromUpstream, toCaller, handler, spanVars>>

(* SendMsg fails: the upstream has ended the call, or the caller has       *)
(* cancelled it.                                                           *)
C2SSendFails ==
  /\ Received
  /\ \/ upstream # "serving" /\ C2SEnds("EOF")
     \/ caller = "cancelled" /\ \E e \in {"EOF", "Canceled"} : C2SEnds(e)
  /\ UNCHANGED <<libraryVars, callerVars, upstreamVars, s2c, respBytes, toUpstream,
                 sendClosed, fromUpstream, toCaller, handler, spanVars>>

(* The end of the requests is not passed on. *)
Mut_NoCloseSend ==
  /\ c2s = "run" /\ toProxy = <<>> /\ caller = "closed"
  /\ C2SEnds("none")
  /\ UNCHANGED <<libraryVars, callerVars, upstreamVars, s2c, reqBytes, respBytes,
                 streamVars, handler, spanVars>>

(* The end of the requests is reported as an error. *)
Mut_EOFIsError ==
  /\ c2s = "run" /\ toProxy = <<>> /\ caller = "closed"
  /\ sendClosed' = TRUE
  /\ C2SEnds("EOF")
  /\ UNCHANGED <<libraryVars, callerVars, upstreamVars, s2c, reqBytes, respBytes,
                 toProxy, toUpstream, fromUpstream, toCaller, handler, spanVars>>

(* RecvMsg returns io.EOF: the caller has closed its side, and so does the *)
(* proxy.  An error of CloseSend is only logged.                           *)
C2SCloses ==
  /\ c2s = "run" /\ toProxy = <<>> /\ caller = "closed"
  /\ sendClosed' = TRUE
  /\ C2SEnds("none")
  /\ UNCHANGED <<libraryVars, callerVars, upstreamVars, s2c, reqBytes, respBytes,
                 toProxy, toUpstream, fromUpstream, toCaller, handler, spanVars>>

(* RecvMsg fails: the caller has cancelled the call, or the next request   *)
(* is too long.                                                            *)
C2SRecvFails ==
  /\ c2s = "run"
  /\ \/ caller = "cancelled" /\ C2SEnds("Canceled") /\ UNCHANGED libraryVars
     \/ /\ toProxy # <<>>
        /\ C2SEnds("ResourceExhausted")
        /\ trailer' = "ResourceExhausted"
        /\ refused' = refused \cup {"request"}
  /\ UNCHANGED <<callerVars, upstreamVars, s2c, reqBytes, respBytes, streamVars,
                 handler, spanVars>>

-----------------------------------------------------------------------------
(* The goroutine from the upstream to the caller. *)

S2CEnds(error) ==
  /\ s2c' = "end"
  /\ errCh' = Append(errCh, error)

S2CRelay ==
  /\ s2c = "run" /\ fromUpstream # <<>> /\ trailer = "none"
  /\ respBytes' = Head(fromUpstream)
  /\ fromUpstream' = Tail(fromUpstream)
  /\ toCaller' = Append(toCaller, Head(fromUpstream))
  /\ UNCHANGED <<libraryVars, callerVars, upstreamVars, c2s, s2c, reqBytes, errCh,
                 toProxy, toUpstream, sendClosed, handler, spanVars>>

(* SendMsg fails, after the response has been noted for the span. *)
S2CSendFails ==
  /\ s2c = "run" /\ fromUpstream # <<>> /\ Done
  /\ respBytes' = Head(fromUpstream)
  /\ fromUpstream' = Tail(fromUpstream)
  /\ S2CEnds("Canceled")
  /\ UNCHANGED <<libraryVars, callerVars, upstreamVars, c2s, reqBytes, toProxy,
                 toUpstream, sendClosed, toCaller, handler, spanVars>>

(* RecvMsg returns the status of the upstream, io.EOF for OK, or Canceled; *)
(* or the next response is too long.                                       *)
S2CRecvFails ==
  /\ s2c = "run"
  /\ \/ /\ upstream # "serving" /\ fromUpstream = <<>>
        /\ S2CEnds(IF upstream = "OK" THEN "none" ELSE upstream)
        /\ UNCHANGED <<upstream, refused>>
     \/ Done /\ S2CEnds("Canceled") /\ UNCHANGED <<upstream, refused>>
     \/ /\ fromUpstream # <<>>
        /\ S2CEnds("ResourceExhausted")
        /\ upstream' = IF upstream = "serving" THEN "reset" ELSE upstream
        /\ refused' = refused \cup {"response"}
  /\ UNCHANGED <<callerVars, trailer, upstreamRead, said, c2s, reqBytes, respBytes,
                 streamVars, handler, spanVars>>

-----------------------------------------------------------------------------
(* The handler, after the relay. *)

LastError(errors) ==
  LET failed == {i \in DOMAIN errors : errors[i] # "none"}
  IN  IF failed = {} THEN "none"
      ELSE errors[CHOOSE i \in failed : \A j \in failed : j <= i]

(* One result is enough. *)
Mut_WaitForOne ==
  /\ handler = "relay" /\ errCh # <<>>
  /\ relayErr' = LastError(errCh)
  /\ handler' = "submit"
  /\ UNCHANGED <<libraryVars, callerVars, upstreamVars, relayVars, streamVars, active,
                 spans>>

(* Both results are in; the last error among them counts. *)
Wait ==
  /\ handler = "relay" /\ Len(errCh) = 2
  /\ relayErr' = LastError(errCh)
  /\ handler' = "submit"
  /\ UNCHANGED <<libraryVars, callerVars, upstreamVars, relayVars, streamVars, active,
                 spans>>

(* submitSpanAt. *)
SubmitSpan ==
  /\ handler = "submit"
  /\ spans' = Append(spans, [error |-> relayErr,
                             request |-> reqBytes, response |-> respBytes])
  /\ handler' = "clear"
  /\ UNCHANGED <<libraryVars, callerVars, upstreamVars, relayVars, streamVars,
                 relayErr, active>>

(* OnSpanEnd, and the handler returns; the library writes the status,      *)
(* unless it has written one.                                              *)
Return ==
  /\ handler = "clear"
  /\ active' = FALSE
  /\ handler' = "done"
  /\ trailer' = IF trailer = "none" THEN Status(relayErr) ELSE trailer
  /\ UNCHANGED <<callerVars, refused, upstreamVars, relayVars, streamVars, relayErr,
                 spans>>

-----------------------------------------------------------------------------
(* A call that has arrived at the proxy. *)
Init ==
  /\ caller = "open" /\ sent = 0 /\ toProxy = <<>>
  /\ upstream = "serving" /\ toUpstream = <<>> /\ upstreamRead = <<>> /\ sendClosed = FALSE
  /\ said = 0 /\ fromUpstream = <<>> /\ toCaller = <<>>
  /\ callerGot = <<>> /\ callerStatus = "none" /\ trailer = "none" /\ refused = {}
  /\ handler = "start" /\ c2s = "off" /\ s2c = "off"
  /\ reqBytes = 0 /\ respBytes = 0 /\ errCh = <<>> /\ relayErr = "none"
  /\ active = FALSE /\ spans = <<>>

C2SStep     == C2SRelay \/ C2SSendFails \/ C2SCloses \/ C2SRecvFails
S2CStep     == S2CRelay \/ S2CSendFails \/ S2CRecvFails
HandlerStep == Start \/ StartFails \/ Wait \/ SubmitSpan \/ Return

Next ==
  \/ CallerSend \/ CallerLeaves("closed") \/ CallerLeaves("cancelled")
  \/ CallerRecv \/ CallerStatus
  \/ UpstreamReads \/ UpstreamSays \/ UpstreamEnds
  \/ C2SStep \/ S2CStep \/ HandlerStep

Spec == Init /\ [][Next]_vars

(* The scheduler runs the handler and its goroutines, the caller reads what*)
(* it is sent, and the upstream reads its requests and ends a call whose   *)
(* requests have ended.  Nothing makes the caller send, close or cancel.   *)
Fairness ==
  /\ WF_vars(C2SStep) /\ WF_vars(S2CStep) /\ WF_vars(HandlerStep)
  /\ WF_vars(CallerRecv) /\ WF_vars(CallerStatus)
  /\ WF_vars(UpstreamReads) /\ WF_vars(sendClosed /\ UpstreamEnds)

FairSpec == Spec /\ Fairness

-----------------------------------------------------------------------------
(* Properties. *)

Numbers(n) == [i \in 1 .. n |-> i]

(* A caller that sees OK has a complete call: the upstream ended it with   *)
(* OK, the caller had closed its side, every request was passed on, every  *)
(* response has arrived, once and in order, and the span says so too.      *)
OKMeansComplete ==
  callerStatus = "OK" =>
    /\ upstream = "OK" /\ caller = "closed"
    /\ upstreamRead \o toUpstream = Numbers(sent)
    /\ callerGot = Numbers(said)
    /\ spans = <<[error |-> "none", request |-> sent, response |-> said]>>

(* The caller sees the status of the upstream itself if all its requests   *)
(* were passed on before the upstream was known to have ended the call,    *)
(* whichever goroutine ends first; only a response the proxy refuses as    *)
(* too long puts ResourceExhausted in its place.                           *)
StatusKept ==
  sendClosed /\ callerStatus # "none" =>
    callerStatus = IF "response" \in refused THEN "ResourceExhausted" ELSE upstream

(* On every path of the handler, the span is submitted once, while the     *)
(* call still counts as active: OnSpanEnd never comes first, and no path   *)
(* returns without either.                                                 *)
SpanBeforeEnd ==
  /\ handler = "done" => ~ active /\ Len(spans) = 1 /\ spans[1].error = relayErr
  /\ handler \in {"relay", "submit", "clear"} => active
  /\ spans # <<>> => handler \in {"clear", "done"}

(* A caller that closes its side, cancels or is given a status never leaves*)
(* the handler, and with it the entry on the correlator's stack, behind:   *)
(* not even one whose request was refused, of whose end the upstream never *)
(* hears by CloseSend.                                                     *)
CallsEnd ==
  (caller \in {"closed", "cancelled"} \/ trailer # "none") ~> (handler = "done")

(* What the comments on UnknownHandler say, which "forwards all RPCs", and *)
(* whose first goroutine waits for the caller to close its stream, "which  *)
(* occurs after the HTTP response cycle completes": a call the upstream    *)
(* has ended ends for the caller as well.                                  *)
EndReachesCaller ==
  (upstream \notin {"serving", "reset"}) ~> (callerStatus # "none" \/ caller = "cancelled")
=============================================================================
