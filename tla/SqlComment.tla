---------------------------- MODULE SqlComment ----------------------------
(***************************************************************************)
(* sqlcommenter comments at the end of a query, as sqlcommenter.go of      *)
(* internal/proxy/sql reads and removes them.  A query is a sequence of    *)
(* the punctuation that the code looks at ("space" and "comma" are the     *)
(* characters of these names) and of words: "key" is the word traceparent, *)
(* "valid" and "short" are a good and a malformed value of it, "escape" a  *)
(* value with a broken %-escape, "word" is anything else.                  *)
(***************************************************************************)
EXTENDS TraceContext, SequencesExt

CONSTANTS MaxStatement, MaxPairs  \* bounds: symbols before, pairs in the comment

VARIABLES
  statement,  \* what precedes the comment
  pairs,      \* what the comment says
  written,    \* the same as the client has written it
  blank       \* the white space around it and in it

Symbols == {"/", "*", "space", "word"}  \* of statements

(* What url.QueryUnescape makes of a word; Written takes it for a header.  *)
Header(value) ==
  IF value = <<"valid">> THEN FormatTraceparent(TraceID("app"), SpanID("app")) ELSE <<>>

TrimRight(s) == SubSeq(s, 1, SelectLastInSeq(s, LAMBDA x : x # "space"))

(* strings.TrimSpace, and strings.Trim with the quote. *)
TrimBoth(s, x) ==
  LET kept == {i \in DOMAIN s : s[i] # x}
  IN  IF kept = {} THEN <<>> ELSE SubSeq(s, Min(kept), Max(kept))

At(s, i, sub) == i < Len(s) /\ SubSeq(s, i, i + 1) = sub

(* The Mut_ operators of this module are deliberately wrong variants of the *)
(* definitions that follow them.  No definition uses them: each shows that *)
(* some property would notice the bug.                                     *)

(* strings.Index. *)
Mut_CommentStart(q) ==
  LET found == {i \in DOMAIN q : At(q, i, <<"/", "*">>)}
  IN  IF found = {} THEN 0 ELSE Min(found)

(* strings.LastIndex, 0 if there is none. *)
CommentStart(q) ==
  LET found == {i \in DOMAIN q : At(q, i, <<"/", "*">>)}
  IN  IF found = {} THEN 0 ELSE Max(found)

EndsInComment(q) == IsSuffix(<<"*", "/">>, q) /\ CommentStart(q) # 0

(* The parts between the commas that have a "=" and the key traceparent    *)
(* before the first, each with its place.                                  *)
Parts(body) ==
  LET bounds == {0, Len(body) + 1} \cup {i \in DOMAIN body : body[i] = "comma"}
  IN  {[from |-> i, text |-> SubSeq(body, i + 1, Min({j \in bounds : j > i}) - 1)] :
         i \in bounds \ {Len(body) + 1}}

Cut(text) == SelectInSeq(text, LAMBDA x : x = "=")

Traceparents(body) ==
  {p \in Parts(body) : Cut(p.text) # 0
     /\ TrimBoth(SubSeq(p.text, 1, Cut(p.text) - 1), "space") = <<"key">>}

Value(text) == TrimBoth(TrimBoth(SubSeq(text, Cut(text) + 1, Len(text)), "space"), "'")

Outcome(status) == [status |-> status, context |-> Parsed(<<NoID, NoID, NoID>>)]

(* The first traceparent decides.  A body that ends before it begins, when *)
(* the "*" of the opening is that of the closing, is a slice whose bounds  *)
(* are out of range: the Go runtime panics.                                *)
ParseSQLComment(query) ==
  LET q == TrimRight(query) IN
  IF ~ EndsInComment(q) THEN Outcome("Absent")
  ELSE IF CommentStart(q) + 2 > Len(q) - 1 THEN Outcome("panic")
  ELSE LET keyed == Traceparents(SubSeq(q, CommentStart(q) + 2, Len(q) - 2)) IN
       IF keyed = {} THEN Outcome("Absent")
       ELSE LET first == CHOOSE p \in keyed : \A o \in keyed : p.from <= o.from
                value == Value(first.text)
            IN  IF Contains(value, "escape") \/ ~ ParseTraceparent(Header(value))
                THEN Outcome("Invalid")
                ELSE [status |-> "OK", context |-> Parsed(Header(value))]

(* Only blanks before the comment are removed. *)
Mut_StripSQLComment(query) ==
  IF ~ EndsInComment(query) THEN query
  ELSE TrimRight(SubSeq(query, 1, CommentStart(query) - 1))

StripSQLComment(query) ==
  LET q == TrimRight(query) IN
  IF ~ EndsInComment(q) THEN query
  ELSE TrimRight(SubSeq(q, 1, CommentStart(q) - 1))

(* The SQL text of the span that handleConn's callback makes of a query.   *)
QueryText(query) ==
  IF ParseSQLComment(query).status = "Absent" THEN query ELSE StripSQLComment(query)

-----------------------------------------------------------------------------
(* The client: it writes a statement and then the pairs of its comment,    *)
(* among them none, one or several traceparents, with blanks or without.   *)
Pairs == [key : {"key", "word", ""}, value : {"valid", "short", "escape", "word"}]

WritePair(p) ==
  IF p.key = "" THEN <<p.value>>
  ELSE <<p.key>> \o blank \o <<"=">> \o blank \o <<"'", p.value, "'">>

Comment == <<"/", "*">> \o written \o blank \o <<"*", "/">>

Query == statement \o blank \o Comment \o blank

Write(symbol) ==
  /\ pairs = <<>> /\ Len(statement) < MaxStatement
  /\ statement' = Append(statement, symbol)
  /\ UNCHANGED <<pairs, written, blank>>

AddPair(p) ==
  /\ Len(pairs) < MaxPairs
  /\ pairs' = Append(pairs, p)
  /\ written' = written \o (IF pairs = <<>> THEN <<>> ELSE <<"comma">>) \o blank \o WritePair(p)
  /\ UNCHANGED <<statement, blank>>

CommentInit == statement = <<>> /\ pairs = <<>> /\ written = <<>> /\ blank \in {<<>>, <<"space">>}

CommentNext == (\E x \in Symbols : Write(x)) \/ (\E p \in Pairs : AddPair(p))

CommentSpec == CommentInit /\ [][CommentNext]_<<statement, pairs, written, blank>>

-----------------------------------------------------------------------------
(* Properties. *)

(* What the comment says. *)
Says ==
  LET i == SelectInSeq(pairs, LAMBDA p : p.key = "key")
  IN  CASE i = 0                              -> "Absent"
        [] i # 0 /\ pairs[i].value = "valid" -> "OK"
        [] i # 0 /\ pairs[i].value # "valid" -> "Invalid"

(* ParseSQLComment finds what the client wrote, whatever precedes the      *)
(* comment, other comments and optimizer hints included, in whatever place *)
(* among the pairs, with or without blanks, and does not panic.            *)
CommentIsRead ==
  LET r == ParseSQLComment(Query)
  IN  r.status = Says /\ (r.status = "OK" => r.context = Parsed(Header(<<"valid">>)))

(* The text shown for a query with a traceparent is its statement, and no  *)
(* trace context remains in it; another comment is left as it was sent.    *)
StatementIsShown ==
  QueryText(Query) = IF Says = "Absent" THEN Query ELSE TrimRight(statement)
=============================================================================
