----------------------------- MODULE HttpProxy -----------------------------
(***************************************************************************)
(* One request through the HTTP proxy: ServeHTTP of internal/proxy/http/   *)
(* proxy.go with captureBody, the responseRecorder and the submission of   *)
(* the span.  The handler reads the beginning of the body before anything  *)
(* is forwarded; httputil.ReverseProxy then sends the request on, while a  *)
(* goroutine of its transport (the pump here) sends the body, and relays   *)
(* the response through the recorder.                                      *)
(*                                                                         *)
(* Client, upstream, net/http and ReverseProxy are the environment.  What  *)
(* the latter two do: informational (1xx) responses go to WriteHeader      *)
(* before the final one, and to the client at once; a failure before the   *)
(* final header is answered with 502, one after it panics with             *)
(* http.ErrAbortHandler; a response of unknown length is flushed after     *)
(* each write; what is not flushed may stay buffered until the handler     *)
(* returns; switching protocols needs http.Hijacker, which the recorder    *)
(* hides.                                                                  *)
(*                                                                         *)
(* The connection to the client is HTTP/1 without EnableFullDuplex.  So    *)
(* net/http reads what is left of the request body before it sends the     *)
(* final header, though no more than a limit of 256 KB, and unless the     *)
(* client asked for the connection to be closed; and so does Close of the  *)
(* body, which ReverseProxy defers.  Both take their bytes from the pump.  *)
(*                                                                         *)
(* The bytes of a body are the numbers 1, 2, 3, ...                        *)
(***************************************************************************)
EXTENDS Integers, Sequences, SequencesExt, TraceContext

CONSTANTS
  Requests,     \* what the client may ask: see RequestsAssumption
  Responses,    \* what the upstream may answer: see ResponsesAssumption
  MaxBodySize,  \* how much of a body is captured
  MaxDiscard    \* how much of a body net/http reads and throws away (256 KB)

(* length is that of the body, of which the client sends the bytes after   *)
(* waits only when it has seen the header of the response; closes says that*)
(* it announces the length and asks for the connection to be closed.       *)
ASSUME RequestsAssumption ==
  \A r \in Requests :
    r.length \in Nat /\ r.waits \in 0 .. r.length /\ r.closes \in BOOLEAN

(* The parts of a response are informational headers, at most one final    *)
(* header, and after that the body, as HTTP has it.                        *)
IsResponse(items) ==
  /\ items \in Seq({items[i] : i \in DOMAIN items})
  /\ \A i \in DOMAIN items :
       \/ /\ items[i].type = "chunk" /\ items[i].bytes \in Seq(Nat)
          /\ \E j \in 1 .. i - 1 : items[j].type = "head"
       \/ /\ items[i].type \in {"info", "head"} /\ items[i].code \in Nat
          /\ items[i] = [type |-> items[i].type, code |-> items[i].code]
          /\ \A j \in 1 .. i - 1 : items[j].type = "info"

(* A streaming upstream sends each part only when its client has seen the  *)
(* ones before; an early one does not wait for the end of the request;     *)
(* json says whether the body is the JSON of a Connect error, and dies     *)
(* whether the connection is lost where the response should go on.         *)
ASSUME ResponsesAssumption ==
  \A r \in Responses :
    /\ {r.streaming, r.early, r.json, r.dies} \subseteq BOOLEAN
    /\ IsResponse(r.items)
    /\ ~ r.dies => \E i \in DOMAIN r.items : r.items[i].type = "head"
ASSUME MaxBodySizeAssumption == MaxBodySize \in Nat
ASSUME MaxDiscardAssumption  == MaxDiscard \in Nat

VARIABLES
  request, response,  \* what client and upstream do
  sent,               \* bytes of the body the client has sent
  body,               \* the client's side of it: "open", "eof", "broken"
  gone,               \* the client has dropped the connection
  wire,               \* bytes sent and not yet read by the proxy
  handler,            \* ServeHTTP: its position
  ids,                \* [trace, parent, span] of this request
  traceparent,        \* the header that goes to the upstream
  reqBody,            \* the bytes captured
  contentLength,      \* length announced to the upstream, -1 if unknown
  held,               \* bytes read and not yet sent on
  cutShort,           \* history: captureBody ended with a read error
  bodyClosed,         \* the body of the request was closed
  discarded,          \* bytes the discarding under way has taken
  lost,               \* history: bytes were discarded before the header
  upGot, upEnd,       \* what the upstream has of the body, and how it ended
  said,               \* parts of the response the upstream has sent
  relayed,            \* ... and of these relayed
  rec,                \* responseRecorder: [statusCode, wroteHeader, body]
  buffered,           \* written to the client and not flushed
  clientGot,          \* what the client has received
  clientEnd,          \* the response as the client sees it
  span,               \* the span submitted
  active              \* OnSpan was called and OnSpanEnd was not

clientVars   == <<request, sent, body, gone>>
contextVars  == <<ids, traceparent, active>>
captureVars  == <<reqBody, contentLength, cutShort>>
bodyVars     == <<wire, held, upGot, upEnd, bodyClosed>>
discardVars  == <<discarded, lost>>
upstreamVars == <<response, said>>
outVars      == <<buffered, clientGot, clientEnd>>
relayVars    == <<relayed, rec, outVars>>
vars == <<clientVars, contextVars, captureVars, bodyVars, discardVars, upstreamVars,
          relayVars, handler, span>>

(* The Mut_ operators of this module are deliberately wrong variants of the *)
(* definitions that follow them.  No definition uses them: each shows that *)
(* some property would notice the bug.                                     *)

Bytes(n) == [i \in 1 .. n |-> i]
Take(s, n) == SubSeq(s, 1, IF Len(s) < n THEN Len(s) ELSE n)
Head_(code) == [type |-> "head", code |-> code]
NoSpan == [kind |-> "none"]

Heads(items) == {i \in DOMAIN items : items[i].type = "head"}
BodyOf(items) == FlattenSeq([i \in 1 .. Len(items) |->
                   IF items[i].type = "chunk" THEN items[i].bytes ELSE <<>>])
Total == Len(response.items)
Headed == Heads(Take(response.items, relayed)) # {}

-----------------------------------------------------------------------------
(* The client. *)

ClientSends ==
  /\ body = "open" /\ sent < request.length
  /\ sent < request.waits \/ Heads(clientGot) # {}
  /\ sent' = sent + 1 /\ wire' = Append(wire, sent + 1)
  /\ UNCHANGED <<discardVars, request, body, gone, contextVars, captureVars, held,
                 upGot, upEnd, bodyClosed, upstreamVars, relayVars, handler, span>>

ClientEnds ==
  /\ body = "open" /\ sent = request.length
  /\ body' = "eof"
  /\ UNCHANGED <<discardVars, request, sent, gone, contextVars, captureVars, bodyVars,
                 upstreamVars, relayVars, handler, span>>

ClientLeaves ==
  /\ request.leaves /\ ~ gone
  /\ gone' = TRUE
  /\ body' = IF body = "open" THEN "broken" ELSE body
  /\ UNCHANGED <<discardVars, request, sent, contextVars, captureVars, bodyVars,
                 upstreamVars, relayVars, handler, span>>

-----------------------------------------------------------------------------
(* ServeHTTP up to ReverseProxy. *)

(* extractOrCreate: the client's context if its header is valid. *)
extractOrCreate(header) ==
  IF header # <<>> /\ ParseTraceparent(header)
  THEN [trace |-> Parsed(header).trace, parent |-> Parsed(header).span, span |-> NewSpanID]
  ELSE [trace |-> NewTraceID, parent |-> NoID, span |-> NewSpanID]

(* OnSpan, and the header for the upstream. *)
Start ==
  /\ handler = "start"
  /\ ids' = extractOrCreate(request.header)
  /\ traceparent' = FormatTraceparent(ids'.trace, ids'.span)
  /\ active' = TRUE
  /\ handler' = "capture"
  /\ UNCHANGED <<discardVars, clientVars, captureVars, bodyVars, upstreamVars,
                 relayVars, span>>

(* io.ReadAll up to the capture limit. *)
CaptureReads ==
  /\ handler = "capture" /\ wire # <<>> /\ Len(reqBody) < MaxBodySize
  /\ LET n == Len(Take(wire, MaxBodySize - Len(reqBody)))
     IN  /\ reqBody' = reqBody \o Take(wire, n)
         /\ wire' = SubSeq(wire, n + 1, Len(wire))
  /\ UNCHANGED <<discardVars, clientVars, contextVars, contentLength, cutShort, held,
                 upGot, upEnd, bodyClosed, upstreamVars, relayVars, handler, span>>

(* The request goes to ReverseProxy with the body in hand. *)
Forward(head, length) ==
  /\ held' = head /\ contentLength' = length
  /\ handler' = "relay" /\ upEnd' = "open"
  /\ UNCHANGED <<clientVars, contextVars, reqBody, upGot, upstreamVars, relayVars,
                 span>>

(* The end of the body, or a read error, before the limit or in place of   *)
(* the probed byte: what was read becomes the whole body, and the original *)
(* is closed.                                                              *)
CaptureEnds ==
  /\ handler = "capture" /\ wire = <<>> /\ body # "open"
  /\ cutShort' = (body = "broken")
  /\ Forward(reqBody, Len(reqBody)) /\ bodyClosed' = TRUE
  /\ UNCHANGED <<wire, discardVars>>

(* The remainder starts after the probed byte. *)
Mut_Probe ==
  /\ handler = "capture" /\ wire # <<>> /\ Len(reqBody) = MaxBodySize
  /\ Forward(reqBody, -1) /\ wire' = Tail(wire)
  /\ UNCHANGED <<cutShort, bodyClosed, discardVars>>

(* The probed byte is the first of a remainder of unknown length. *)
Probe ==
  /\ handler = "capture" /\ wire # <<>> /\ Len(reqBody) = MaxBodySize
  /\ Forward(Append(reqBody, Head(wire)), -1) /\ wire' = Tail(wire)
  /\ UNCHANGED <<cutShort, bodyClosed, discardVars>>

-----------------------------------------------------------------------------
(* The pump, and the upstream. *)

(* The body was read to its end or failed, or net/http has closed it.      *)
BodyOver == bodyClosed \/ (wire = <<>> /\ body # "open")

(* The head is sent on, then what can be read of the remainder.  Close     *)
(* locks the body while it discards.  The transport closes what it has     *)
(* read, and gives up after a read error.                                  *)
Pump ==
  /\ upEnd = "open"
  /\ \/ /\ held # <<>> /\ held' = <<>> /\ upGot' = upGot \o held
        /\ UNCHANGED <<wire, upEnd, bodyClosed>>
     \/ /\ held = <<>> /\ contentLength = -1 /\ wire # <<>> /\ ~ bodyClosed
        /\ handler \in {"close", "unwind"} => discarded = 0
        /\ upGot' = upGot \o wire /\ wire' = <<>> /\ UNCHANGED <<held, upEnd, bodyClosed>>
     \/ /\ held = <<>> /\ contentLength = -1 /\ BodyOver
        /\ handler \in {"close", "unwind"} => discarded = 0 \/ bodyClosed
        /\ upEnd' = (IF body = "eof" /\ ~ bodyClosed THEN "complete" ELSE "broken")
        /\ bodyClosed' = TRUE /\ UNCHANGED <<held, wire, upGot>>
     \/ /\ held = <<>> /\ contentLength >= 0
        /\ upEnd' = "complete" /\ UNCHANGED <<held, wire, upGot, bodyClosed>>
  /\ UNCHANGED <<discardVars, clientVars, contextVars, captureVars, upstreamVars,
                 relayVars, handler, span>>

(* The transport does not wait for the rest of a request whose response is *)
(* over.                                                                   *)
TransportDrops ==
  /\ upEnd = "open" /\ handler \notin {"relay", "drain"}
  /\ upEnd' = "broken"
  /\ UNCHANGED <<discardVars, clientVars, contextVars, captureVars, wire, held, upGot,
                 bodyClosed, upstreamVars, relayVars, handler, span>>

UpstreamSays ==
  /\ upEnd = "complete" \/ (upEnd = "open" /\ response.early)
  /\ said <= Total /\ (response.streaming => Len(clientGot) = said)
  /\ said' = said + 1
  /\ UNCHANGED <<discardVars, clientVars, contextVars, captureVars, bodyVars,
                 response, relayVars, handler, span>>

UpstreamOver == said > Total /\ relayed = Total

-----------------------------------------------------------------------------
(* responseRecorder, through which ReverseProxy writes the response. *)

(* The first WriteHeader is recorded, every one is passed on. *)
WriteHeader(code) ==
  rec' = IF rec.wroteHeader THEN rec
         ELSE [rec EXCEPT !.statusCode = code, !.wroteHeader = TRUE]

(* A write that does not fit is not recorded. *)
Mut_WriteWhole(bytes) ==
  rec' = [statusCode  |-> IF rec.wroteHeader THEN rec.statusCode ELSE 200,
          wroteHeader |-> TRUE,
          body        |-> IF Len(rec.body) + Len(bytes) <= MaxBodySize
                          THEN rec.body \o bytes ELSE rec.body]

(* A write without a header means 200; the bytes that still fit are kept. *)
Write(bytes) ==
  rec' = [statusCode  |-> IF rec.wroteHeader THEN rec.statusCode ELSE 200,
          wroteHeader |-> TRUE,
          body        |-> IF Len(rec.body) < MaxBodySize
                          THEN rec.body \o Take(bytes, MaxBodySize - Len(rec.body))
                          ELSE rec.body]


(* Flush reaches the ResponseWriter behind the recorder. *)
Flushes == response.streaming

(* Only an informational header goes out at once. *)
PassOn(item) ==
  IF item.type = "info"
  THEN clientGot' = Append(clientGot, item) /\ UNCHANGED buffered
  ELSE buffered' = Append(buffered, item) /\ UNCHANGED clientGot

Deliver == clientGot' = clientGot \o buffered /\ buffered' = <<>>

RelayItem ==
  /\ handler = "relay" /\ said > relayed /\ relayed < Total
  /\ Flushes => buffered = <<>>
  /\ LET item == response.items[relayed + 1] IN
     /\ item # Head_(101)
     /\ IF item.type = "chunk" THEN Write(item.bytes) ELSE WriteHeader(item.code)
     /\ PassOn(item)
  /\ relayed' = relayed + 1
  /\ UNCHANGED <<discardVars, clientVars, contextVars, captureVars, bodyVars,
                 upstreamVars, clientEnd, handler, span>>

(* The final header is still to be sent, and the body is there to be read. *)
DrainsFirst == Heads(clientGot) = {} /\ ~ bodyClosed /\ ~ request.closes

(* What is buffered is sent, after the body has been discarded if need be. *)
Send ==
  /\ handler = "relay" /\ buffered # <<>>
  /\ IF DrainsFirst
     THEN handler' = "drain" /\ discarded' = 0 /\ UNCHANGED <<clientGot, buffered, lost>>
     ELSE Deliver /\ UNCHANGED <<handler, discardVars>>
  /\ UNCHANGED <<clientVars, contextVars, captureVars, bodyVars, upstreamVars,
                 relayed, rec, clientEnd, span>>

(* It has to be if it is flushed ... *)
Flush == Flushes /\ Send

(* ... and is when the buffer is full. *)
BufferSpills == Send

(* The discarding takes what has arrived, up to n bytes in all. *)
Discard(n) ==
  /\ ~ bodyClosed /\ wire # <<>> /\ discarded < n
  /\ LET taken == Len(Take(wire, n - discarded))
     IN  /\ discarded' = discarded + taken
         /\ wire' = SubSeq(wire, taken + 1, Len(wire))
  /\ UNCHANGED <<clientVars, contextVars, captureVars, held, upGot, upEnd, bodyClosed,
                 upstreamVars, relayVars, handler, span>>

Drain == handler = "drain" /\ Discard(MaxDiscard + 1) /\ lost' = TRUE

(* The body is over, and at its end is closed, or there is too much of it. *)
DrainEnds ==
  /\ handler = "drain"
  /\ BodyOver \/ discarded = MaxDiscard + 1
  /\ bodyClosed' = (bodyClosed \/ (wire = <<>> /\ body = "eof" /\ discarded <= MaxDiscard))
  /\ Deliver /\ handler' = "relay"
  /\ UNCHANGED <<clientVars, contextVars, captureVars, wire, held, upGot, upEnd,
                 discardVars, upstreamVars, relayed, rec, clientEnd, span>>

(* ReverseProxy returns, or panics, by way of the deferred Close. *)
Leave(how) == handler' = how /\ discarded' = 0 /\ UNCHANGED lost

RelayEnds ==
  /\ handler = "relay" /\ UpstreamOver /\ ~ response.dies
  /\ Leave("close")
  /\ UNCHANGED <<clientVars, contextVars, captureVars, bodyVars, upstreamVars,
                 relayVars, span>>

Broken == gone \/ upEnd = "broken" \/ (UpstreamOver /\ response.dies)

(* No final header: the upstream died, the client left, its body broke off,*)
(* or the upstream wants to switch protocols, which the recorder prevents. *)
BadGateway ==
  /\ handler = "relay" /\ ~ Headed
  /\ Broken \/ (said > relayed /\ relayed < Total /\ response.items[relayed + 1] = Head_(101))
  /\ WriteHeader(502) /\ PassOn(Head_(502))
  /\ Leave("close")
  /\ UNCHANGED <<clientVars, contextVars, captureVars, bodyVars, upstreamVars,
                 relayed, clientEnd, span>>

(* After the header, ReverseProxy panics: nothing of ServeHTTP follows.    *)
Panic ==
  /\ handler = "relay" /\ Headed /\ Broken
  /\ Leave("unwind")
  /\ UNCHANGED <<clientVars, contextVars, captureVars, bodyVars, upstreamVars,
                 relayVars, span>>

(* readCloser.Close, which is that of the body, looks for its end.         *)
CloseDiscards ==
  handler \in {"close", "unwind"} /\ ~ request.closes /\ Discard(MaxDiscard) /\ UNCHANGED lost

(* After a panic, net/http closes the connection. *)
CloseEnds ==
  /\ handler \in {"close", "unwind"}
  /\ BodyOver \/ request.closes \/ discarded = MaxDiscard
  /\ bodyClosed' = TRUE
  /\ IF handler = "close"
     THEN handler' = "submit" /\ UNCHANGED clientEnd
     ELSE handler' = "aborted" /\ clientEnd' = "broken"
  /\ UNCHANGED <<clientVars, contextVars, captureVars, wire, held, upGot, upEnd,
                 discardVars, upstreamVars, relayed, rec, buffered, clientGot, span>>

-----------------------------------------------------------------------------
(* The span. *)

(* Two segments, of which the first, a service, contains a dot. *)
isConnectPath(segments) ==
  Len(segments) = 2 /\ segments[1] = "dotted" /\ segments[2] # "empty"

parseConnectPath(segments) == [service |-> segments[1], method |-> segments[2]]

(* The media type without its parameters. *)
isConnectContentType(ct) == ct.media \in {"json", "proto", "connect+json", "connect+proto"}

isConnectStreaming(ct) == ct.media \in {"connect+json", "connect+proto"}

isConnectRequest(r) ==
  r.method = "POST" /\ isConnectPath(r.segments) /\ isConnectContentType(r.contentType)

(* A Connect error can be read only from JSON that was captured whole. *)
parseConnectError(bytes) ==
  response.json /\ bytes # <<>> /\ bytes = BodyOf(Take(response.items, relayed))

submitHTTPSpan ==
  [kind |-> "http", ids |-> ids, failed |-> rec.statusCode >= 400,
   status |-> rec.statusCode, request |-> reqBody, response |-> rec.body]

submitConnectSpan ==
  [kind |-> "connect", name |-> parseConnectPath(request.segments), ids |-> ids,
   failed |-> rec.statusCode >= 400, status |-> rec.statusCode, request |-> reqBody, response |-> rec.body,
   error |-> rec.statusCode >= 400 /\ parseConnectError(rec.body),
   streams |-> isConnectStreaming(request.contentType)]

Submit ==
  /\ handler = "submit"
  /\ span' = IF isConnectRequest(request) THEN submitConnectSpan ELSE submitHTTPSpan
  /\ handler' = "end"
  /\ UNCHANGED <<discardVars, clientVars, contextVars, captureVars, bodyVars,
                 upstreamVars, relayVars>>

(* OnSpanEnd; the handler returns, and net/http sends what is buffered. *)
End ==
  /\ handler = "end"
  /\ active' = FALSE /\ handler' = "done"
  /\ clientGot' = clientGot \o buffered /\ buffered' = <<>> /\ clientEnd' = "complete"
  /\ UNCHANGED <<discardVars, clientVars, ids, traceparent, captureVars, bodyVars,
                 upstreamVars, relayed, rec, span>>

-----------------------------------------------------------------------------
Init ==
  /\ request \in Requests /\ response \in Responses
  /\ sent = 0 /\ body = "open" /\ gone = FALSE /\ wire = <<>>
  /\ handler = "start" /\ active = FALSE /\ span = NoSpan
  /\ ids = [trace |-> NoID, parent |-> NoID, span |-> NoID] /\ traceparent = <<>>
  /\ reqBody = <<>> /\ contentLength = 0 /\ held = <<>> /\ cutShort = FALSE
  /\ bodyClosed = FALSE /\ discarded = 0 /\ lost = FALSE
  /\ upGot = <<>> /\ upEnd = "none" /\ said = 0 /\ relayed = 0
  /\ rec = [statusCode |-> 0, wroteHeader |-> FALSE, body |-> <<>>]
  /\ buffered = <<>> /\ clientGot = <<>> /\ clientEnd = "none"

HandlerStep ==
  \/ Start \/ CaptureReads \/ CaptureEnds \/ Probe
  \/ RelayItem \/ Flush \/ Drain \/ DrainEnds \/ RelayEnds \/ BadGateway \/ Panic
  \/ CloseDiscards \/ CloseEnds \/ Submit \/ End

Next ==
  \/ ClientSends \/ ClientEnds \/ ClientLeaves
  \/ HandlerStep \/ Pump \/ TransportDrops \/ UpstreamSays \/ BufferSpills

Spec == Init /\ [][Next]_vars

(* Handler and pump run when they can, the client sends what it does not   *)
(* hold back, and the upstream answers.  Nobody has to leave, and nothing  *)
(* that is buffered has to be sent before the handler returns.             *)
FairSpec ==
  /\ Spec
  /\ WF_vars(HandlerStep) /\ WF_vars(Pump)
  /\ WF_vars(ClientSends \/ ClientEnds) /\ WF_vars(UpstreamSays)

-----------------------------------------------------------------------------
(* Properties. *)

(* Capturing does not change the request: the upstream gets the client's   *)
(* bytes, each once and in order, all those captured and probed before any *)
(* other, a length that is announced is the length that follows, and a body*)
(* the upstream sees the end of is the client's whole body, whatever lies  *)
(* at the capture limit, unless a read error fell into the captured part   *)
(* (captureBody then passes on a shorter body as complete), or net/http has*)
(* discarded some of it.  That befalls only what lies beyond the captured  *)
(* part, only on connections to be used again, and only when the upstream  *)
(* has answered before the end of the request.                             *)
RequestIntact ==
  /\ \A i \in DOMAIN upGot : upGot[i] <= sent
  /\ \A i, j \in DOMAIN upGot : i < j => upGot[i] < upGot[j]
  /\ \A i \in DOMAIN upGot : i <= MaxBodySize + 1 => upGot[i] = i
  /\ upEnd = "complete" => contentLength \in {-1, Len(upGot)}
  /\ lost => response.early /\ ~ request.closes /\ contentLength = -1
  /\ ~ lost => /\ upGot = Bytes(Len(upGot))
               /\ upEnd = "complete" => upGot = Bytes(request.length) \/ cutShort

(* The spans' bodies are the first MaxBodySize bytes of what the upstream  *)
(* got and of what the client got, however the response was cut into       *)
(* writes.                                                                 *)
CapturedIsPrefix ==
  span # NoSpan =>
    /\ span.request = Bytes(Len(span.request))
    /\ span.request = Take(Bytes(sent), MaxBodySize) \/ cutShort \/ body = "open"
    /\ span.response = Take(BodyOf(clientGot \o buffered), MaxBodySize)

(* The final header, of this code, is the only one. *)
OnlyHead(items, code) ==
  \E i \in DOMAIN items : Heads(items) = {i} /\ items[i] = Head_(code)

Informed == \E i \in 1 .. relayed : response.items[i].type = "info"

(* The span tells the status the client sees, and whether it is a failure, *)
(* including the 502 of the proxy itself, unless an informational response *)
(* came first, which is then recorded in its place.                        *)
StatusRecorded ==
  span # NoSpan /\ ~ Informed =>
    /\ OnlyHead(clientGot \o buffered, span.status)
    /\ span.failed = (span.status >= 400)

(* The client sees a beginning of what the upstream said, each part once   *)
(* and in order, or 502 in place of the final header; and a response that  *)
(* ends properly is whole: one cut off by the death of its upstream is     *)
(* broken for the client too.                                              *)
ResponseIntact ==
  LET out == clientGot \o buffered
      n   == Len(out)
      passed    == out = Take(response.items, n)
      badGateway == /\ n > 0 /\ out = Append(Take(response.items, n - 1), Head_(502))
                    /\ Heads(Take(response.items, n - 1)) = {}
  IN  /\ passed \/ badGateway
      /\ clientEnd = "complete" => badGateway \/ (out = response.items /\ ~ response.dies)

(* ServeHTTP changes neither what the upstream gets nor what the client    *)
(* gets.                                                                   *)
PassesIntact == RequestIntact /\ ResponseIntact

(* W3C trace context: the upstream gets a valid header that names the span *)
(* of this request; a valid context of the client is continued, and an     *)
(* invalid one (short, upper case, all zero) never enters the store.       *)
ContextContinued ==
  handler # "start" =>
    /\ traceparent[2] = ids.trace /\ traceparent[3] = ids.span
    /\ ValidID(ids.trace, 32) /\ ValidID(ids.span, 16)
    /\ IF Len(request.header) = 4 /\ ValidID(request.header[2], 32)
                                  /\ ValidID(request.header[3], 16)
       THEN ids.trace = request.header[2] /\ ids.parent = request.header[3]
       ELSE ids.parent = NoID /\ ids.trace = NewTraceID

(* The details of a Connect error are in the span whenever the error fits  *)
(* into the captured part of the response.                                 *)
ConnectErrorKept ==
  span # NoSpan /\ isConnectRequest(request) /\ ~ Informed
  /\ OnlyHead(clientGot \o buffered, 500) /\ response.json
    => span.error <=> Len(BodyOf(response.items)) \in 1 .. MaxBodySize

(* What submitHTTPSpan and submitConnectSpan say is what passed.           *)
SpanIsTrue == CapturedIsPrefix /\ StatusRecorded /\ ConnectErrorKept

=============================================================================
