---------------------------- MODULE MCHttpProxy ----------------------------
(***************************************************************************)
(* Requests and responses for HttpProxy.                                   *)
(***************************************************************************)
EXTENDS HttpProxy

Valid     == FormatTraceparent(TraceID("t"), SpanID("s"))
ZeroTrace == FormatTraceparent([TraceID("t") EXCEPT !.digits = "zeros"], SpanID("s"))
UpperSpan == FormatTraceparent(TraceID("t"), [SpanID("s") EXCEPT !.digits = "upper"])
ShortSpan == FormatTraceparent(TraceID("t"), [SpanID("s") EXCEPT !.len = 14])

(* Calls: plain requests, Connect requests, and near misses, each with a   *)
(* header of its own.                                                      *)
Call(method, segments, media, header) ==
  [method |-> method, segments |-> segments, contentType |-> [media |-> media],
   header |-> header]
RPC == <<"dotted", "method">>
Calls ==
  {Call("GET", <<"plain">>, "none", <<>>),
   Call("POST", RPC, "json", Valid),
   Call("POST", RPC, "connect+proto", ZeroTrace),
   Call("POST", <<"plain", "method">>, "json", UpperSpan),
   Call("POST", <<"dotted", "method", "more">>, "json", ShortSpan),
   Call("POST", <<"dotted", "empty">>, "proto", Tail(Valid)),
   Call("POST", RPC, "text", Valid)}

(* Bodies up to three bytes beyond the capture limit of two, held back from*)
(* any place on.  One of these three is probed, so that the other two are  *)
(* what net/http throws away at most.                                      *)
Bodies == {[length |-> n, waits |-> w, leaves |-> l, closes |-> c] :
             n \in 0 .. 5, w \in 0 .. 5, l \in BOOLEAN, c \in BOOLEAN}

Request(c, b) ==
  [method |-> c.method, segments |-> c.segments, contentType |-> c.contentType,
   header |-> c.header, length |-> b.length, waits |-> b.waits, leaves |-> b.leaves,
   closes |-> b.closes]

Plain == CHOOSE c \in Calls : c.method = "GET"
AllRequests ==
  {Request(Plain, b) : b \in {x \in Bodies : x.waits <= x.length}}
  \cup {Request(c, [length |-> n, waits |-> n, leaves |-> FALSE, closes |-> FALSE]) :
          c \in Calls, n \in {1, 3}}

Info(code)  == [type |-> "info", code |-> code]
Chunk(a, b) == [type |-> "chunk", bytes |-> [i \in 1 .. b - a + 1 |-> a + i - 1]]

Answer(items, streaming, early, json, dies) ==
  [items |-> items, streaming |-> streaming, early |-> early, json |-> json, dies |-> dies]

AllResponses ==
  {Answer(<<Head_(200), Chunk(1, 1), Chunk(2, 4)>>, s, e, FALSE, FALSE) : s, e \in BOOLEAN}
  \cup {Answer(<<Head_(500), Chunk(1, n)>>, FALSE, e, TRUE, FALSE) : n \in 2 .. 3, e \in BOOLEAN}
  \cup {Answer(<<Info(103), Head_(500), Chunk(1, 2)>>, FALSE, FALSE, TRUE, FALSE),
        Answer(<<Head_(101)>>, FALSE, TRUE, FALSE, FALSE),
        Answer(<<>>, FALSE, TRUE, FALSE, TRUE),
        Answer(<<Head_(200), Chunk(1, 2)>>, TRUE, TRUE, FALSE, TRUE),
        Answer(<<Head_(204)>>, FALSE, FALSE, FALSE, FALSE)}
=============================================================================
