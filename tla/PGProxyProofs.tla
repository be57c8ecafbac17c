--------------------------- MODULE PGProxyProofs ----------------------------
(***************************************************************************)
(* Theorems about PGProxy, for any client programs and any number of       *)
(* cycles, statements and rows, and at the end about PGConnection, for any *)
(* attempts of a client and any login of a server.                         *)
(*                                                                         *)
(* Each stream holds a segment of the program or of what the server has    *)
(* said (Requests, Answers).  A message the server says belongs to the     *)
(* cycle that the ReadyForQuery messages before it count (Cycles), so that *)
(* the counters of s2c, which start again at each ReadyForQuery, count one *)
(* cycle (Counters).  If the program captures one message per cycle,       *)
(* pending holds the entries of the cycles from the next event on          *)
(* (Captures): the entry of a cycle is there before the server has seen the*)
(* end of the cycle, and the buffer does not fill up, because the client   *)
(* does not run further ahead.                                             *)
(*                                                                         *)
(* The handshake before that has one thing on its way at a time: a first   *)
(* message, its reply, an answer, or what the server says up to the next   *)
(* request (Handshake).                                                    *)
(***************************************************************************)
EXTENDS PGConnection, SequenceTheorems, FiniteSetTheorems, WellFoundedInduction, TLAPS

Ended == {"return", "done"}

Types ==
  /\ program \in Programs
  /\ sent \in 0 .. Len(program)
  /\ toProxy \in Seq(ClientMsg) /\ toServer \in Seq(ClientMsg) /\ served \in Seq(ClientMsg)
  /\ said \in Seq(ServerMsg) /\ fromServer \in Seq(ServerMsg)
  /\ toClient \in Seq(ServerMsg) /\ clientGot \in Seq(ServerMsg)
  /\ c2s.pc \in {"read", "capture", "forward"} \cup Ended
  /\ c2s.pc \in {"capture", "forward"} => c2s.msg \in ClientMsg
  /\ s2c.pc \in {"read", "ready"} \cup Ended
  /\ s2c.pc = "ready" => s2c.msg \in ServerMsg
  /\ preparedStmts \in [Stmts -> Queries \cup {NoQuery}] /\ parseSeen \in BOOLEAN
  /\ rowCount \in Nat /\ lastError \in BOOLEAN
  /\ pending \in Seq(Pending) /\ events \in Seq(Event)

-----------------------------------------------------------------------------
(* The streams. *)

(* s consists of the elements of base after the first k. *)
Segment(s, base, k) ==
  /\ k + Len(s) <= Len(base)
  /\ \A i \in 1 .. Len(s) : s[i] = base[k + i]

(* How many messages c2s has received. *)
Consumed == sent - Len(toProxy)

(* How many it has written. *)
Written == Len(served) + Len(toServer)

Requests ==
  /\ Segment(served, program, 0)
  /\ Segment(toServer, program, Len(served))
  /\ Segment(toProxy, program, Consumed)
  /\ Written <= Consumed
  /\ c2s.pc \in {"read", "capture"} => Written = Consumed
  /\ c2s.pc = "forward" => Written + 1 = Consumed
  /\ c2s.pc \in {"capture", "forward"} => c2s.msg = program[Consumed]
  /\ c2s.pc = "capture" => c2s.msg.type = "Q" /\ Consumed > 0

(* How many messages s2c has relayed. *)
Relayed == Len(clientGot) + Len(toClient)

Answers ==
  /\ Segment(clientGot, said, 0)
  /\ Segment(toClient, said, Len(clientGot))
  /\ Segment(fromServer, said, Relayed)
  /\ Relayed + Len(fromServer) = Len(said)

-----------------------------------------------------------------------------
(* Cycles. *)

(* How many of the numbers up to k are in T. *)
UpTo(T, k) == Cardinality({i \in 1 .. k : i \in T})

(* The cycle of the message that follows the first n of the program p. *)
CycleAfter(p, n) == 1 + UpTo({j \in DOMAIN p : EndsCycle(p[j])}, n)

(* Among the first k messages s of the server: how many are ReadyForQuery, *)
(* how many rows a cycle has, and whether it has an error.                 *)
ReadyIn(s, k)         == UpTo({i \in DOMAIN s : s[i].type = "Z"}, k)
RowsIn(s, k, cycle)   == UpTo({i \in DOMAIN s : s[i] = [type |-> "D", cycle |-> cycle]}, k)
FailedIn(s, k, cycle) == \E i \in 1 .. k : s[i] = [type |-> "E", cycle |-> cycle]

(* A message belongs to the cycle after those that have ended before it. *)
InCycles(s) == \A i \in 1 .. Len(s) : s[i].cycle = 1 + ReadyIn(s, i - 1)

Cycles ==
  /\ InCycles(said)
  /\ CycleAfter(program, Len(served)) = 1 + ReadyIn(said, Len(said))

(* The cycle s2c is in: it ends when its event has been reported. *)
Turn == IF s2c.pc = "ready" THEN ReadyIn(said, Relayed) ELSE ReadyIn(said, Relayed) + 1

Counters ==
  /\ s2c.pc = "ready" => Relayed > 0 /\ s2c.msg = said[Relayed] /\ s2c.msg.type = "Z"
  /\ s2c.pc \notin Ended => /\ rowCount = RowsIn(said, Relayed, Turn)
                            /\ lastError = FailedIn(said, Relayed, Turn)
  /\ \A i \in 1 .. Len(events) :
       /\ events[i].answered \in 1 .. ReadyIn(said, Len(said))
       /\ events[i].rows  = RowsIn(said, Len(said), events[i].answered)
       /\ events[i].error = FailedIn(said, Len(said), events[i].answered)

-----------------------------------------------------------------------------
(* Captures. *)

(* The client does not run ahead of its answers. *)
Paced == \A i \in 1 .. Len(toProxy) : toProxy[i].cycle <= Answered + Ahead

(* A message of the current cycle of c2s has been captured. *)
CapturedNow ==
  \E j \in 1 .. Consumed :
    CapturesAhead(j) /\ program[j].cycle = CycleAfter(program, Consumed)

(* What c2s knows of the statements it has seen. *)
Known ==
  /\ parseSeen <=> \E j \in 1 .. Consumed :
                     IsParse(program[j]) /\ program[j].cycle = CycleAfter(program, Consumed)
  /\ \A s \in Stmts : preparedStmts[s] # NoQuery <=>
       \E j \in 1 .. Consumed : IsParse(program[j]) /\ program[j].stmt = s

(* pending holds an entry for each cycle that was captured and not reported.*)
Queued ==
  /\ Len(events) + Len(pending)
       = IF CapturedNow THEN CycleAfter(program, Consumed) ELSE CycleAfter(program, Consumed) - 1
  /\ \A i \in 1 .. Len(pending) : pending[i].cycle = Len(events) + i

(* Each cycle that has ended was reported. *)
Reported ==
  /\ Len(events) = Turn - 1
  /\ \A i \in 1 .. Len(events) : events[i].asked = i /\ events[i].answered = i

Captures == Known /\ Queued /\ Reported

Pairing == OneCapturePerCycle /\ Ahead < PendingCap => Captures

Inv == Types /\ Requests /\ Answers /\ Cycles /\ Counters /\ Paced /\ Pairing

-----------------------------------------------------------------------------
(* Counting. *)

(* One number more. *)
LEMMA UpToNext ==
  ASSUME NEW T, NEW k \in Nat
  PROVE  /\ UpTo(T, k) \in Nat /\ UpTo(T, 0) = 0
         /\ UpTo(T, k + 1) = IF k + 1 \in T THEN UpTo(T, k) + 1 ELSE UpTo(T, k)
<1> DEFINE S == {i \in 1 .. k : i \in T}
<1>1. IsFiniteSet(S) /\ Cardinality(S) \in Nat
  <2>1. IsFiniteSet(1 .. k)
    BY FS_Interval
  <2>2. QED BY <2>1, FS_Subset, FS_CardinalityType
<1>2. UpTo(T, 0) = 0
  <2>1. {i \in 1 .. 0 : i \in T} = {}
    OBVIOUS
  <2>2. QED BY <2>1, FS_EmptySet DEF UpTo
<1>3. CASE k + 1 \in T
  <2>1. {i \in 1 .. k + 1 : i \in T} = S \cup {k + 1} /\ k + 1 \notin S
    BY <1>3
  <2>2. QED BY <1>1, <1>2, <1>3, <2>1, FS_AddElement DEF UpTo
<1>4. CASE k + 1 \notin T
  <2>1. {i \in 1 .. k + 1 : i \in T} = S
    BY <1>4
  <2>2. QED BY <1>1, <1>2, <1>4, <2>1 DEF UpTo
<1>5. QED BY <1>3, <1>4

(* A longer prefix holds at least as many, and the same if nothing is in   *)
(* between.                                                                *)
LEMMA UpToMonotonic ==
  ASSUME NEW T, NEW j \in Nat, NEW k \in Nat, j <= k
  PROVE  /\ UpTo(T, j) <= UpTo(T, k)
         /\ (\A i \in j + 1 .. k : i \notin T) => UpTo(T, j) = UpTo(T, k)
<1> DEFINE S(n) == {i \in 1 .. n : i \in T}
<1>1. IsFiniteSet(S(k))
  <2>1. IsFiniteSet(1 .. k)
    BY FS_Interval
  <2>2. QED BY <2>1, FS_Subset
<1>2. S(j) \subseteq S(k)
  OBVIOUS
<1>3. Cardinality(S(j)) <= Cardinality(S(k))
  BY <1>1, <1>2, FS_Subset
<1>4. (\A i \in j + 1 .. k : i \notin T) => S(j) = S(k)
  OBVIOUS
<1>5. QED BY <1>3, <1>4 DEF UpTo

(* Only the members up to k matter. *)
LEMMA UpToSame ==
  ASSUME NEW T, NEW U, NEW k \in Nat, \A i \in 1 .. k : i \in T <=> i \in U
  PROVE  UpTo(T, k) = UpTo(U, k)
<1>1. {i \in 1 .. k : i \in T} = {i \in 1 .. k : i \in U}
  OBVIOUS
<1>2. QED BY <1>1 DEF UpTo

-----------------------------------------------------------------------------
(* Segments. *)

(* A segment of no elements. *)
LEMMA EmptySegment ==
  ASSUME NEW S, NEW base \in Seq(S), NEW k \in 0 .. Len(base)
  PROVE  Segment(<<>>, base, k)
BY DEF Segment

(* The head of a stream is the next element, and the tail is what follows. *)
LEMMA SegmentTail ==
  ASSUME NEW S, NEW base \in Seq(S), NEW s \in Seq(S), NEW k \in Nat, s # <<>>,
         Segment(s, base, k)
  PROVE  /\ Head(s) = base[k + 1] /\ k + 1 <= Len(base) /\ Head(s) \in S
         /\ Segment(Tail(s), base, k + 1) /\ Len(Tail(s)) = Len(s) - 1 /\ Tail(s) \in Seq(S)
BY DEF Segment

(* The element that comes next may be appended. *)
LEMMA SegmentAppend ==
  ASSUME NEW S, NEW base \in Seq(S), NEW s \in Seq(S), NEW k \in Nat, Segment(s, base, k),
         NEW x \in S, k + Len(s) < Len(base), x = base[k + Len(s) + 1]
  PROVE  /\ Segment(Append(s, x), base, k) /\ Len(Append(s, x)) = Len(s) + 1
         /\ Append(s, x) \in Seq(S)
BY DEF Segment

(* What the library's Append and Tail do to a sequence. *)
LEMMA AppendTail ==
  ASSUME NEW S, NEW s \in Seq(S), NEW x
  PROVE  /\ Len(Append(s, x)) = Len(s) + 1
         /\ \A i \in 1 .. Len(Append(s, x)) : \/ i \in 1 .. Len(s) /\ Append(s, x)[i] = s[i]
                                              \/ i = Len(s) + 1 /\ Append(s, x)[i] = x
         /\ s # <<>> =>
              /\ Len(Tail(s)) = Len(s) - 1
              /\ \A i \in 1 .. Len(Tail(s)) : i + 1 \in 1 .. Len(s) /\ Tail(s)[i] = s[i + 1]
OBVIOUS

(* Elements added to the base do not matter, or are added to the segment.  *)
LEMMA SegmentGrow ==
  ASSUME NEW S, NEW base \in Seq(S), NEW s \in Seq(S), NEW k \in Nat, NEW out \in Seq(S),
         Segment(s, base, k)
  PROVE  /\ Segment(s, base \o out, k)
         /\ k + Len(s) = Len(base) => Segment(s \o out, base \o out, k)
         /\ Len(base \o out) = Len(base) + Len(out) /\ Len(s \o out) = Len(s) + Len(out)
         /\ base \o out \in Seq(S) /\ s \o out \in Seq(S)
BY DEF Segment

(* Adjacent segments join. *)
LEMMA SegmentConcat ==
  ASSUME NEW S, NEW base \in Seq(S), NEW s \in Seq(S), NEW t \in Seq(S),
         Segment(s, base, 0), Segment(t, base, Len(s))
  PROVE  /\ Segment(s \o t, base, 0) /\ Len(s \o t) = Len(s) + Len(t) /\ s \o t \in Seq(S)
BY DEF Segment

(* A segment at the beginning is a prefix. *)
LEMMA SegmentPrefix ==
  ASSUME NEW S, NEW base \in Seq(S), NEW s \in Seq(S), Segment(s, base, 0)
  PROVE  s = SubSeq(base, 1, Len(s))
BY DEF Segment

-----------------------------------------------------------------------------
(* Cycles of a program. *)

(* Programs are sequences. *)
LEMMA ProgramType ==
  ASSUME NEW p \in Programs
  PROVE  p \in Seq(ClientMsg) /\ Len(p) \in Nat /\ DOMAIN p = 1 .. Len(p)
BY ProgramsAssumption

(* A message is in the cycle after those that have ended before it, and the*)
(* last message of a cycle ends it.                                        *)
LEMMA CycleStep ==
  ASSUME NEW p \in Programs, NEW n \in Nat, n < Len(p)
  PROVE  /\ p[n + 1].cycle = CycleAfter(p, n) /\ CycleAfter(p, n) \in Nat \ {0}
         /\ CycleAfter(p, n + 1) \in Nat
         /\ CycleAfter(p, n + 1) = IF EndsCycle(p[n + 1]) THEN CycleAfter(p, n) + 1
                                   ELSE CycleAfter(p, n)
<1> DEFINE T == {j \in DOMAIN p : EndsCycle(p[j])}
<1>1. Len(p) \in Nat /\ DOMAIN p = 1 .. Len(p)
  BY ProgramType
<1>2. p[n + 1].cycle = 1 + Cardinality({j \in 1 .. n : EndsCycle(p[j])})
  <2>1. n + 1 \in 1 .. Len(p) /\ (n + 1) - 1 = n
    BY <1>1
  <2>2. p[n + 1].cycle = 1 + Cardinality({j \in 1 .. (n + 1) - 1 : EndsCycle(p[j])})
    BY <2>1, ProgramsAssumption
  <2>3. QED BY <2>1, <2>2
<1>3. {j \in 1 .. n : EndsCycle(p[j])} = {i \in 1 .. n : i \in T}
  BY <1>1
<1>4. n + 1 \in T <=> EndsCycle(p[n + 1])
  BY <1>1
<1>5. /\ UpTo(T, n) \in Nat
      /\ UpTo(T, n + 1) = IF n + 1 \in T THEN UpTo(T, n) + 1 ELSE UpTo(T, n)
  BY UpToNext
<1>6. p[n + 1].cycle = 1 + UpTo(T, n)
  BY <1>2, <1>3 DEF UpTo
<1>7. /\ CycleAfter(p, n) = 1 + UpTo(T, n)
      /\ CycleAfter(p, n + 1) = 1 + UpTo(T, n + 1)
  BY DEF CycleAfter
<1> HIDE DEF T
<1>8. QED BY <1>4, <1>5, <1>6, <1>7

(* Cycles do not go back. *)
LEMMA CycleMonotonic ==
  ASSUME NEW p, NEW m \in Nat, NEW n \in Nat, m <= n
  PROVE  /\ CycleAfter(p, m) <= CycleAfter(p, n) /\ CycleAfter(p, 0) = 1
         /\ CycleAfter(p, m) \in Nat \ {0} /\ CycleAfter(p, n) \in Nat \ {0}
<1> DEFINE T == {j \in DOMAIN p : EndsCycle(p[j])}
<1>1. /\ UpTo(T, m) <= UpTo(T, n) /\ UpTo(T, 0) = 0
      /\ UpTo(T, m) \in Nat /\ UpTo(T, n) \in Nat
  BY UpToMonotonic, UpToNext
<1>2. QED BY <1>1 DEF CycleAfter

(* The cycles before and after the first n messages. *)
LEMMA CycleOf ==
  ASSUME NEW p \in Programs, NEW n \in Nat, NEW i \in 1 .. Len(p)
  PROVE  /\ p[i].cycle \in Nat \ {0}
         /\ i <= n + 1 => p[i].cycle <= CycleAfter(p, n)
         /\ i > n => p[i].cycle >= CycleAfter(p, n)
<1>1. PICK k \in Nat : k = i - 1
  <2>1. i - 1 \in Nat
    BY ProgramType
  <2>2. QED BY <2>1
<1>2. p[i].cycle = CycleAfter(p, k) /\ CycleAfter(p, k) \in Nat \ {0}
  <2>1. k < Len(p) /\ k + 1 = i
    BY <1>1, ProgramType
  <2>2. QED BY <2>1, CycleStep
<1>3. i <= n + 1 => CycleAfter(p, k) <= CycleAfter(p, n)
  <2>1. i <= n + 1 => k <= n
    BY <1>1
  <2>2. QED BY <2>1, CycleMonotonic
<1>4. i > n => CycleAfter(p, n) <= CycleAfter(p, k)
  <2>1. i > n => n <= k
    BY <1>1
  <2>2. QED BY <2>1, CycleMonotonic
<1>5. CycleAfter(p, n) \in Nat
  BY CycleMonotonic
<1>6. QED BY <1>2, <1>3, <1>4, <1>5

-----------------------------------------------------------------------------
(* Cycles of what the server says. *)

(* One message more in the count of ReadyForQuery. *)
LEMMA ReadyStep ==
  ASSUME NEW s \in Seq(ServerMsg), NEW k \in Nat
  PROVE  /\ ReadyIn(s, 0) = 0 /\ ReadyIn(s, k) \in Nat
         /\ k < Len(s) => ReadyIn(s, k + 1) = IF s[k + 1].type = "Z" THEN ReadyIn(s, k) + 1
                                              ELSE ReadyIn(s, k)
<1> DEFINE T == {i \in DOMAIN s : s[i].type = "Z"}
<1>1. k < Len(s) => (k + 1 \in T <=> s[k + 1].type = "Z")
  OBVIOUS
<1>2. QED BY <1>1, UpToNext DEF ReadyIn

(* The count does not go down. *)
LEMMA ReadyMonotonic ==
  ASSUME NEW s, NEW j \in Nat, NEW k \in Nat, j <= k
  PROVE  ReadyIn(s, j) <= ReadyIn(s, k)
BY UpToMonotonic DEF ReadyIn

(* The ReadyForQuery messages of a prefix of the stream. *)
LEMMA ReadyCount ==
  ASSUME NEW base \in Seq(ServerMsg), NEW s \in Seq(ServerMsg), Segment(s, base, 0)
  PROVE  Cardinality({i \in DOMAIN s : s[i].type = "Z"}) = ReadyIn(base, Len(s))
<1>1. {i \in DOMAIN s : s[i].type = "Z"}
        = {i \in 1 .. Len(s) : i \in {j \in DOMAIN base : base[j].type = "Z"}}
  BY DEF Segment
<1>2. QED BY <1>1 DEF ReadyIn, UpTo

(* What has been said already counts as before when the server goes on. *)
LEMMA SaidBefore ==
  ASSUME NEW s \in Seq(ServerMsg), NEW out \in Seq(ServerMsg), NEW k \in 0 .. Len(s), NEW c
  PROVE  /\ ReadyIn(s \o out, k) = ReadyIn(s, k)
         /\ RowsIn(s \o out, k, c) = RowsIn(s, k, c)
         /\ FailedIn(s \o out, k, c) <=> FailedIn(s, k, c)
<1>1. \A i \in 1 .. k : i \in DOMAIN s /\ i \in DOMAIN (s \o out) /\ (s \o out)[i] = s[i]
  OBVIOUS
<1>2. ReadyIn(s \o out, k) = ReadyIn(s, k)
  BY <1>1, UpToSame DEF ReadyIn
<1>3. RowsIn(s \o out, k, c) = RowsIn(s, k, c)
  BY <1>1, UpToSame DEF RowsIn
<1>4. FailedIn(s \o out, k, c) <=> FailedIn(s, k, c)
  BY <1>1 DEF FailedIn
<1>5. QED BY <1>2, <1>3, <1>4

(* Messages of other cycles add nothing to a cycle. *)
LEMMA OtherCycles ==
  ASSUME NEW s \in Seq(ServerMsg), NEW j \in Nat, NEW k \in 0 .. Len(s), j <= k, NEW c,
         \A i \in j + 1 .. k : s[i].cycle # c
  PROVE  /\ RowsIn(s, j, c) = RowsIn(s, k, c)
         /\ FailedIn(s, j, c) <=> FailedIn(s, k, c)
<1>1. \A i \in j + 1 .. k : /\ i \notin {n \in DOMAIN s : s[n] = [type |-> "D", cycle |-> c]}
                            /\ s[i] # [type |-> "E", cycle |-> c]
  OBVIOUS
<1>2. RowsIn(s, j, c) = RowsIn(s, k, c)
  BY <1>1, UpToMonotonic DEF RowsIn
<1>3. FailedIn(s, j, c) <=> FailedIn(s, k, c)
  <2>1. 1 .. j \subseteq 1 .. k /\ \A i \in 1 .. k : i \in 1 .. j \/ i \in j + 1 .. k
    OBVIOUS
  <2>2. QED BY <1>1, <2>1 DEF FailedIn
<1>4. QED BY <1>2, <1>3

(* No message, no row and no error. *)
LEMMA RowsNone ==
  ASSUME NEW s, NEW c
  PROVE  RowsIn(s, 0, c) = 0 /\ ~ FailedIn(s, 0, c)
<1>1. 1 .. 0 = {}
  OBVIOUS
<1>2. UpTo({i \in DOMAIN s : s[i] = [type |-> "D", cycle |-> c]}, 0) = 0
  BY <1>1, FS_EmptySet, Zenon DEF UpTo
<1>3. QED BY <1>1, <1>2, Zenon DEF RowsIn, FailedIn

(* One message more in the counts of a cycle. *)
LEMMA RowsStep ==
  ASSUME NEW s \in Seq(ServerMsg), NEW k \in Nat, NEW c
  PROVE  /\ RowsIn(s, k, c) \in Nat /\ RowsIn(s, 0, c) = 0 /\ ~ FailedIn(s, 0, c)
         /\ k < Len(s) =>
              /\ RowsIn(s, k + 1, c) = IF s[k + 1] = [type |-> "D", cycle |-> c]
                                       THEN RowsIn(s, k, c) + 1 ELSE RowsIn(s, k, c)
              /\ FailedIn(s, k + 1, c) <=> FailedIn(s, k, c) \/ s[k + 1] = [type |-> "E", cycle |-> c]
<1> DEFINE T == {i \in DOMAIN s : s[i] = [type |-> "D", cycle |-> c]}
<1>1. k < Len(s) => (k + 1 \in T <=> s[k + 1] = [type |-> "D", cycle |-> c])
  OBVIOUS
<1>2. /\ UpTo(T, k) \in Nat /\ UpTo(T, 0) = 0
      /\ UpTo(T, k + 1) = IF k + 1 \in T THEN UpTo(T, k) + 1 ELSE UpTo(T, k)
  BY UpToNext
<1>3. \A n : RowsIn(s, n, c) = UpTo(T, n)
  BY DEF RowsIn
<1> HIDE DEF T
<1>4. /\ RowsIn(s, k, c) \in Nat /\ RowsIn(s, 0, c) = 0
      /\ k < Len(s) => RowsIn(s, k + 1, c) = IF s[k + 1] = [type |-> "D", cycle |-> c]
                                             THEN RowsIn(s, k, c) + 1 ELSE RowsIn(s, k, c)
  BY <1>1, <1>2, <1>3
<1>5. /\ ~ FailedIn(s, 0, c)
      /\ FailedIn(s, k + 1, c) <=> FailedIn(s, k, c) \/ s[k + 1] = [type |-> "E", cycle |-> c]
  <2>1. 1 .. k + 1 = (1 .. k) \cup {k + 1} /\ 1 .. 0 = {}
    OBVIOUS
  <2>2. QED BY <2>1 DEF FailedIn
<1>6. QED BY <1>4, <1>5

(* The cycles before and after the first k messages. *)
LEMMA CyclesAround ==
  ASSUME NEW s \in Seq(ServerMsg), InCycles(s), NEW k \in 0 .. Len(s), NEW i \in 1 .. Len(s)
  PROVE  /\ s[i].cycle \in Nat /\ ReadyIn(s, k) \in Nat
         /\ i > k => s[i].cycle > ReadyIn(s, k)
         /\ i <= k => s[i].cycle <= ReadyIn(s, k) + 1
         /\ k > 0 /\ s[k].type = "Z" => s[k].cycle = ReadyIn(s, k)
         /\ k > 0 /\ s[k].type = "Z" /\ i <= k => s[i].cycle <= ReadyIn(s, k)
<1>1. i - 1 \in Nat /\ k \in Nat /\ ReadyIn(s, i - 1) \in Nat /\ ReadyIn(s, k) \in Nat
  <2>1. i - 1 \in Nat /\ k \in Nat
    OBVIOUS
  <2>2. QED BY <2>1, ReadyStep
<1>2. s[i].cycle = 1 + ReadyIn(s, i - 1)
  BY DEF InCycles
<1>3. i > k => s[i].cycle > ReadyIn(s, k)
  <2>1. i > k => k <= i - 1
    OBVIOUS
  <2>2. QED BY <1>1, <1>2, <2>1, ReadyMonotonic
<1>4. i <= k => s[i].cycle <= ReadyIn(s, k) + 1
  <2>1. i <= k => i - 1 <= k
    OBVIOUS
  <2>2. QED BY <1>1, <1>2, <2>1, ReadyMonotonic
<1>5. ASSUME k > 0, s[k].type = "Z"
      PROVE  s[k].cycle = ReadyIn(s, k) /\ (i <= k => s[i].cycle <= ReadyIn(s, k))
  <2>1. PICK n \in Nat : k = n + 1
    <3>1. k - 1 \in Nat /\ k = (k - 1) + 1
      BY <1>5
    <3>2. QED BY <3>1
  <2>2. n < Len(s) /\ k \in 1 .. Len(s) /\ k - 1 = n
    BY <2>1
  <2>3. ReadyIn(s, n) \in Nat /\ ReadyIn(s, k) = ReadyIn(s, n) + 1
    BY <1>5, <2>1, <2>2, ReadyStep
  <2>4. s[k].cycle = 1 + ReadyIn(s, n)
    BY <2>2 DEF InCycles
  <2>5. i <= k => ReadyIn(s, i - 1) <= ReadyIn(s, n)
    <3>1. i <= k => i - 1 <= n
      BY <2>1
    <3>2. QED BY <1>1, <3>1, ReadyMonotonic
  <2>6. QED BY <1>1, <1>2, <2>3, <2>4, <2>5
<1>6. QED BY <1>1, <1>2, <1>3, <1>4, <1>5

(* What the server says in answer to a message: nothing, or messages of its*)
(* cycle, with a ReadyForQuery at the end if and only if the cycle ends.   *)
LEMMA RepliesInCycle ==
  ASSUME NEW m \in ClientMsg, NEW r \in Replies(m)
  PROVE  /\ r.out \in Seq(ServerMsg)
         /\ \A i \in 1 .. Len(r.out) :
              /\ r.out[i].cycle = m.cycle
              /\ r.out[i].type = "Z" <=> EndsCycle(m) /\ i = Len(r.out)
         /\ EndsCycle(m) => r.out # <<>>
<1> DEFINE C == m.cycle
           Body(o) == /\ o \in Seq(ServerMsg)
                      /\ \A i \in 1 .. Len(o) : o[i].cycle = C /\ o[i].type # "Z"
           outcomes == {Rows(n, C) \o Reply("C", C) : n \in 0 .. MaxRows} \cup {Reply("E", C)}
<1>1. C \in Nat /\ m.type \in {"Q", "P", "B", "E", "S", "X"}
  BY DEF ClientMsg
<1>2. \A t \in {"D", "C", "E", "Z"} :
        Reply(t, C) \in Seq(ServerMsg) /\ Len(Reply(t, C)) = 1 /\ Reply(t, C)[1] = [type |-> t, cycle |-> C]
  BY <1>1 DEF Reply, ServerMsg
<1>3. \A n \in Nat : Body(Rows(n, C))
  BY <1>1 DEF Rows, ServerMsg
<1>4. ASSUME NEW a \in Seq(ServerMsg), NEW b \in Seq(ServerMsg), Body(a), Body(b)
      PROVE  Body(a \o b)
  <2>1. a \o b \in Seq(ServerMsg) /\ Len(a \o b) = Len(a) + Len(b)
        /\ \A i \in 1 .. Len(a \o b) : (a \o b)[i] = IF i <= Len(a) THEN a[i] ELSE b[i - Len(a)]
    OBVIOUS
  <2>2. ASSUME NEW i \in 1 .. Len(a \o b)
        PROVE  (a \o b)[i].cycle = C /\ (a \o b)[i].type # "Z"
    <3>1. CASE i <= Len(a)
      BY <1>4, <2>1, <3>1
    <3>2. CASE i > Len(a)
      <4>1. i - Len(a) \in 1 .. Len(b)
        BY <2>1, <3>2
      <4>2. QED BY <1>4, <2>1, <3>2, <4>1
    <3>3. QED BY <3>1, <3>2
  <2>3. QED BY <2>1, <2>2
<1>5. ASSUME NEW o \in outcomes
      PROVE  Body(o)
  <2>1. Body(Reply("C", C)) /\ Body(Reply("E", C))
    BY <1>2
  <2>2. CASE o = Reply("E", C)
    BY <2>1, <2>2
  <2>3. ASSUME NEW n \in 0 .. MaxRows, o = Rows(n, C) \o Reply("C", C)
        PROVE  Body(o)
    <3>1. n \in Nat
      BY CapAssumption
    <3>2. Body(Rows(n, C))
      BY <1>3, <3>1
    <3>3. QED BY <1>4, <2>1, <2>3, <3>2
  <2>4. QED BY <1>5, <2>2, <2>3
<1>6. CASE m.type = "Q"
  <2>1. EndsCycle(m)
    BY <1>6 DEF EndsCycle
  <2>2. PICK o \in outcomes : r.out = o \o Reply("Z", C)
    BY <1>6 DEF Replies
  <2>3. Body(o)
    BY <1>5
  <2>4. /\ r.out \in Seq(ServerMsg) /\ Len(r.out) = Len(o) + 1
        /\ \A i \in 1 .. Len(o) : r.out[i] = o[i]
        /\ r.out[Len(o) + 1] = [type |-> "Z", cycle |-> C]
    BY <1>2, <2>2, <2>3
  <2>5. QED BY <2>1, <2>3, <2>4
<1>7. CASE m.type = "S"
  <2>1. EndsCycle(m) /\ r.out = Reply("Z", C)
    BY <1>7 DEF EndsCycle, Replies
  <2>2. /\ r.out \in Seq(ServerMsg) /\ Len(r.out) = 1
        /\ r.out[1].cycle = C /\ r.out[1].type = "Z"
    BY <1>2, <2>1
  <2>3. \A i \in 1 .. Len(r.out) : i = 1
    BY <2>2
  <2>4. r.out # <<>>
    BY <2>2
  <2>5. QED BY <2>1, <2>2, <2>3, <2>4
<1>8. CASE m.type \notin {"Q", "S"}
  <2>1. ~ EndsCycle(m)
    BY <1>8 DEF EndsCycle
  <2>2. r.out \in outcomes \/ r.out = <<>>
    BY <1>1, <1>8 DEF Replies
  <2>3. Body(<<>>)
    OBVIOUS
  <2>4. QED BY <1>5, <2>1, <2>2, <2>3
<1>9. QED BY <1>6, <1>7, <1>8

(* The server goes on with messages of the cycle that is due. *)
LEMMA InCyclesGrow ==
  ASSUME NEW s \in Seq(ServerMsg), NEW out \in Seq(ServerMsg), NEW c \in Nat, NEW ends \in BOOLEAN,
         InCycles(s), c = 1 + ReadyIn(s, Len(s)),
         \A i \in 1 .. Len(out) : out[i].cycle = c /\ (out[i].type = "Z" <=> ends /\ i = Len(out)),
         ends => out # <<>>
  PROVE  /\ InCycles(s \o out)
         /\ ReadyIn(s \o out, Len(s \o out)) = IF ends THEN c ELSE c - 1
<1> DEFINE n == Len(s)
           t == s \o out
<1>1. /\ t \in Seq(ServerMsg) /\ Len(t) = n + Len(out) /\ n \in Nat /\ Len(out) \in Nat
      /\ \A i \in 1 .. n : t[i] = s[i]
      /\ \A i \in 1 .. Len(out) : t[n + i] = out[i]
  OBVIOUS
<1> HIDE DEF t
<1>2. \A k \in 0 .. n : ReadyIn(t, k) = ReadyIn(s, k)
  BY SaidBefore DEF t
<1>3. ASSUME NEW k \in n .. Len(t), k < Len(t) \/ ~ ends
      PROVE  ReadyIn(t, k) = c - 1
  <2>1. \A i \in n + 1 .. k : i \notin {j \in DOMAIN t : t[j].type = "Z"}
    <3> SUFFICES ASSUME NEW i \in n + 1 .. k PROVE t[i].type # "Z"
      OBVIOUS
    <3>1. PICK j \in 1 .. Len(out) : i = n + j
      <4>1. i - n \in 1 .. Len(out) /\ i = n + (i - n)
        BY <1>1, <1>3
      <4>2. QED BY <4>1
    <3>2. t[i] = out[j] /\ (j = Len(out) => k = Len(t))
      BY <1>1, <1>3, <3>1
    <3>3. QED BY <1>1, <1>3, <3>2
  <2>2. ReadyIn(t, n) = ReadyIn(t, k)
    BY <1>1, <2>1, UpToMonotonic DEF ReadyIn
  <2>3. ReadyIn(s, n) \in Nat
    BY <1>1, ReadyStep
  <2>4. QED BY <1>1, <1>2, <2>2, <2>3
<1>4. InCycles(t)
  <2> SUFFICES ASSUME NEW i \in 1 .. Len(t) PROVE t[i].cycle = 1 + ReadyIn(t, i - 1)
    BY DEF InCycles
  <2>1. CASE i <= n
    <3>1. i \in 1 .. n /\ i - 1 \in 0 .. n
      BY <1>1, <2>1
    <3>2. QED BY <1>1, <1>2, <3>1 DEF InCycles
  <2>2. CASE i > n
    <3>1. i - n \in 1 .. Len(out) /\ t[i] = out[i - n] /\ i - 1 \in n .. Len(t) /\ i - 1 < Len(t)
      BY <1>1, <2>2
    <3>2. QED BY <1>3, <3>1, SMTT(30)
  <2>3. QED BY <1>1, <2>1, <2>2
<1>5. ReadyIn(t, Len(t)) = IF ends THEN c ELSE c - 1
  <2>1. CASE ~ ends
    BY <1>1, <1>3, <2>1
  <2>2. CASE ends
    <3>1. Len(out) > 0 /\ Len(t) - 1 \in n .. Len(t) /\ Len(t) \in Nat
      BY <1>1, <2>2
    <3>2. ReadyIn(t, Len(t) - 1) = c - 1
      BY <1>1, <1>3, <3>1, SMTT(30)
    <3>3. t[Len(t)].type = "Z"
      <4>1. t[n + Len(out)] = out[Len(out)]
        BY <1>1, <3>1
      <4>2. QED BY <1>1, <2>2, <3>1, <4>1
    <3>4. ReadyIn(t, Len(t)) = ReadyIn(t, Len(t) - 1) + 1
      <4>1. PICK k \in Nat : k = Len(t) - 1 /\ k + 1 = Len(t) /\ k < Len(t)
        <5>1. Len(t) - 1 \in Nat /\ (Len(t) - 1) + 1 = Len(t) /\ Len(t) - 1 < Len(t)
          BY <1>1, <3>1
        <5>2. QED BY <5>1
      <4>2. ReadyIn(t, k + 1) = IF t[k + 1].type = "Z" THEN ReadyIn(t, k) + 1 ELSE ReadyIn(t, k)
        BY <1>1, <4>1, ReadyStep
      <4>3. QED BY <3>3, <4>1, <4>2
    <3>5. QED BY <2>2, <3>2, <3>4
  <2>3. QED BY <2>1, <2>2
<1>6. QED BY <1>4, <1>5 DEF t

-----------------------------------------------------------------------------
(* The inductive invariant: one lemma for each of its parts. *)

(* A connection that has just been authenticated. *)
LEMMA InitInv == Init => Inv
<1> SUFFICES ASSUME Init PROVE Inv
  OBVIOUS
<1>1. program \in Seq(ClientMsg) /\ Len(program) \in Nat /\ DOMAIN program = 1 .. Len(program)
  BY ProgramType DEF Init
<1>2. /\ <<>> \in Seq(ClientMsg) /\ <<>> \in Seq(ServerMsg) /\ Len(<<>>) = 0
      /\ <<>> \in Seq(Pending) /\ <<>> \in Seq(Event)
  OBVIOUS
<1>3. Types
  <2>1. preparedStmts \in [Stmts -> Queries \cup {NoQuery}] /\ sent \in 0 .. Len(program)
    BY <1>1 DEF Init
  <2>2. /\ toProxy \in Seq(ClientMsg) /\ toServer \in Seq(ClientMsg) /\ served \in Seq(ClientMsg)
        /\ said \in Seq(ServerMsg) /\ fromServer \in Seq(ServerMsg)
        /\ toClient \in Seq(ServerMsg) /\ clientGot \in Seq(ServerMsg)
        /\ pending \in Seq(Pending) /\ events \in Seq(Event)
    BY <1>2, Zenon DEF Init
  <2>3. c2s.pc = "read" /\ s2c.pc = "read"
    BY DEF Init
  <2>4. program \in Programs /\ parseSeen \in BOOLEAN /\ rowCount \in Nat /\ lastError \in BOOLEAN
    BY DEF Init
  <2>5. QED BY <2>1, <2>2, <2>3, <2>4 DEF Types
<1>4. Consumed = 0 /\ Relayed = 0 /\ Written = 0
  <2>1. /\ sent = 0 /\ Len(toProxy) = 0 /\ Len(clientGot) = 0 /\ Len(toClient) = 0
        /\ Len(served) = 0 /\ Len(toServer) = 0
    BY <1>2, Zenon DEF Init
  <2>2. QED BY <2>1 DEF Consumed, Relayed, Written
<1>5. Requests /\ Answers
  <2>1. Segment(<<>>, program, 0) /\ Segment(<<>>, <<>>, 0)
    BY <1>1, <1>2, EmptySegment DEF Segment
  <2>2. QED BY <1>2, <1>4, <2>1 DEF Init, Requests, Answers
<1>6. ReadyIn(said, 0) = 0 /\ CycleAfter(program, 0) = 1 /\ Len(said) = 0
  <2>1. said \in Seq(ServerMsg) /\ Len(said) = 0
    BY <1>2 DEF Init
  <2>2. 0 \in Nat /\ 0 <= 0
    OBVIOUS
  <2>3. ReadyIn(said, 0) = 0
    BY <2>1, <2>2, ReadyStep
  <2>4. CycleAfter(program, 0) = 1
    BY <2>2, CycleMonotonic
  <2>5. QED BY <2>1, <2>3, <2>4
<1>7. Cycles
  BY <1>2, <1>6 DEF Init, Cycles, InCycles
<1>8. Turn = 1 /\ RowsIn(said, 0, 1) = 0 /\ FailedIn(said, 0, 1) = FALSE
  <2>1. Turn = 1
    BY <1>4, <1>6 DEF Init, Turn
  <2>2. RowsIn(said, 0, 1) = 0
    BY UpToNext DEF RowsIn
  <2>3. FailedIn(said, 0, 1) = FALSE
    BY DEF FailedIn
  <2>4. QED BY <2>1, <2>2, <2>3
<1>9. Counters
  <2>1. /\ s2c.pc = "read" /\ rowCount = 0 /\ lastError = FALSE
        /\ \A i \in 1 .. Len(events) : FALSE
    BY <1>2 DEF Init
  <2>2. rowCount = RowsIn(said, Relayed, Turn) /\ lastError = FailedIn(said, Relayed, Turn)
    BY <1>4, <1>8, <2>1, Zenon
  <2>3. QED BY <2>1, <2>2 DEF Counters
<1>10. Paced
  BY <1>2 DEF Init, Paced
<1>11. Captures
  <2>1. ~ CapturedNow
    BY <1>4 DEF CapturedNow
  <2>2. \A s \in Stmts : preparedStmts[s] = NoQuery
    BY DEF Init
  <2>3. events = <<>> /\ pending = <<>> /\ parseSeen = FALSE
    BY DEF Init
  <2>4. QED BY <1>2, <1>4, <1>6, <1>8, <2>1, <2>2, <2>3 DEF Captures, Known, Queued, Reported
<1>12. QED BY <1>3, <1>5, <1>7, <1>9, <1>10, <1>11 DEF Inv, Pairing

(* Where the streams from the client stand. *)
LEMMA RequestFacts ==
  ASSUME Types, Requests
  PROVE  /\ program \in Seq(ClientMsg) /\ Len(program) \in Nat
         /\ Len(toProxy) \in Nat /\ Len(served) \in Nat /\ Len(toServer) \in Nat
         /\ Consumed \in Nat /\ Written \in Nat /\ Consumed + Len(toProxy) = sent
         /\ sent \in Nat /\ sent <= Len(program)
         /\ toProxy # <<>> => /\ Head(toProxy) = program[Consumed + 1]
                              /\ Head(toProxy) \in ClientMsg
                              /\ Consumed + 1 <= sent
                              /\ Tail(toProxy) \in Seq(ClientMsg)
                              /\ Len(Tail(toProxy)) = Len(toProxy) - 1
                              /\ Segment(Tail(toProxy), program, Consumed + 1)
<1>1. program \in Seq(ClientMsg) /\ Len(program) \in Nat
  BY ProgramType DEF Types
<1>2. /\ Len(toProxy) \in Nat /\ Len(served) \in Nat /\ Len(toServer) \in Nat
      /\ sent \in Nat /\ sent <= Len(program)
  BY <1>1 DEF Types
<1>3. Consumed \in Nat /\ Written \in Nat /\ Consumed + Len(toProxy) = sent
  BY <1>2 DEF Requests, Consumed, Written
<1>4. ASSUME toProxy # <<>>
      PROVE  /\ Head(toProxy) = program[Consumed + 1] /\ Head(toProxy) \in ClientMsg
             /\ Tail(toProxy) \in Seq(ClientMsg) /\ Len(Tail(toProxy)) = Len(toProxy) - 1
             /\ Segment(Tail(toProxy), program, Consumed + 1)
  BY <1>1, <1>3, <1>4, SegmentTail DEF Types, Requests
<1>5. toProxy # <<>> => Consumed + 1 <= sent
  <2>1. toProxy # <<>> => Len(toProxy) > 0
    BY DEF Types
  <2>2. QED BY <1>2, <1>3, <2>1
<1>6. QED BY <1>1, <1>2, <1>3, <1>4, <1>5

(* Where the streams from the server stand. *)
LEMMA AnswerFacts ==
  ASSUME Types, Answers
  PROVE  /\ Len(said) \in Nat /\ Relayed \in Nat /\ Len(clientGot) \in Nat
         /\ Len(toClient) \in Nat /\ Len(fromServer) \in Nat /\ Relayed <= Len(said)
         /\ toClient # <<>> => /\ Head(toClient) \in ServerMsg /\ Len(clientGot) + 1 <= Len(said)
                               /\ Head(toClient) = said[Len(clientGot) + 1]
                               /\ Tail(toClient) \in Seq(ServerMsg)
                               /\ Len(Tail(toClient)) = Len(toClient) - 1
                               /\ Segment(Tail(toClient), said, Len(clientGot) + 1)
         /\ fromServer # <<>> => /\ Head(fromServer) \in ServerMsg /\ Relayed + 1 <= Len(said)
                                 /\ Head(fromServer) = said[Relayed + 1]
                                 /\ Tail(fromServer) \in Seq(ServerMsg)
                                 /\ Len(Tail(fromServer)) = Len(fromServer) - 1
                                 /\ Segment(Tail(fromServer), said, Relayed + 1)
<1>1. /\ Len(said) \in Nat /\ Len(clientGot) \in Nat /\ Len(toClient) \in Nat
      /\ Len(fromServer) \in Nat
  BY DEF Types
<1>2. Relayed \in Nat /\ Relayed <= Len(said)
  BY <1>1 DEF Relayed, Answers
<1>3. ASSUME toClient # <<>>
      PROVE  /\ Head(toClient) \in ServerMsg /\ Len(clientGot) + 1 <= Len(said)
             /\ Head(toClient) = said[Len(clientGot) + 1]
             /\ Tail(toClient) \in Seq(ServerMsg) /\ Len(Tail(toClient)) = Len(toClient) - 1
             /\ Segment(Tail(toClient), said, Len(clientGot) + 1)
  BY <1>1, <1>3, SegmentTail DEF Types, Answers
<1>4. ASSUME fromServer # <<>>
      PROVE  /\ Head(fromServer) \in ServerMsg /\ Relayed + 1 <= Len(said)
             /\ Head(fromServer) = said[Relayed + 1]
             /\ Tail(fromServer) \in Seq(ServerMsg) /\ Len(Tail(fromServer)) = Len(fromServer) - 1
             /\ Segment(Tail(fromServer), said, Relayed + 1)
  BY <1>2, <1>4, SegmentTail DEF Types, Answers
<1>5. QED BY <1>1, <1>2, <1>3, <1>4

(* The entry that a send puts on pending, if there is room. *)
LEMMA TrySendType ==
  ASSUME Types, NEW text \in Queries \cup {NoQuery}, NEW cycle \in Nat, trySend(text, cycle)
  PROVE  /\ pending' \in Seq(Pending)
         /\ Len(pending) < PendingCap => /\ Len(pending') = Len(pending) + 1
                                         /\ pending'[Len(pending) + 1].cycle = cycle
                                         /\ \A i \in 1 .. Len(pending) : pending'[i] = pending[i]
<1>1. [query |-> text, cycle |-> cycle] \in Pending /\ pending \in Seq(Pending)
  BY DEF Pending, Types
<1>2. /\ Append(pending, [query |-> text, cycle |-> cycle]) \in Seq(Pending)
      /\ Len(Append(pending, [query |-> text, cycle |-> cycle])) = Len(pending) + 1
      /\ Append(pending, [query |-> text, cycle |-> cycle])[Len(pending) + 1].cycle = cycle
      /\ \A i \in 1 .. Len(pending) :
           Append(pending, [query |-> text, cycle |-> cycle])[i] = pending[i]
  BY <1>1
<1>3. QED BY <1>1, <1>2, Zenon DEF trySend

(* Every variable keeps its type. *)
LEMMA TypesStep ==
  ASSUME Inv, Next
  PROVE  Types'
<1>1. Types /\ Requests /\ Answers
  BY DEF Inv
<1>2. CASE ClientSend
  <2>1. program[sent + 1] \in ClientMsg /\ sent + 1 \in 0 .. Len(program)
    BY <1>1, <1>2, RequestFacts DEF ClientSend
  <2>2. Append(toProxy, program[sent + 1]) \in Seq(ClientMsg)
    BY <1>1, <2>1 DEF Types
  <2>3. QED BY <1>1, <1>2, <2>1, <2>2 DEF ClientSend, Types, c2sVars, serverVars, s2cVars, chanVars
<1>3. CASE ClientRecv
  <2>1. Append(clientGot, Head(toClient)) \in Seq(ServerMsg) /\ Tail(toClient) \in Seq(ServerMsg)
    BY <1>1, <1>3, AnswerFacts DEF ClientRecv, Types
  <2>2. QED BY <1>1, <1>3, <2>1 DEF ClientRecv, Types, c2sVars, serverVars, s2cVars, chanVars
<1>4. CASE ClientHangUp \/ ServerHangUp \/ HandlerReturns
  BY <1>1, <1>4
  DEF ClientHangUp, ServerHangUp, HandlerReturns, Types, clientVars, c2sVars, serverVars, s2cVars,
      chanVars
<1>5. CASE ReadQuery \/ ReadSync \/ ReadOther \/ ReadTerminate
  <2>1. /\ toProxy # <<>> /\ toProxy' = Tail(toProxy) /\ c2s.pc = "read"
        /\ toServer' = Append(toServer, Head(toProxy))
    BY <1>5 DEF ReadQuery, ReadSync, ReadOther, ReadTerminate, ReadClient, WriteServer
  <2>2. Head(toProxy) \in ClientMsg /\ toProxy' \in Seq(ClientMsg) /\ toServer' \in Seq(ClientMsg)
    BY <1>1, <2>1, RequestFacts DEF Types
  <2>3. /\ c2s'.pc \in {"read", "capture", "forward"} \cup Ended
        /\ c2s'.pc \in {"capture", "forward"} => c2s'.msg \in ClientMsg
    BY <1>5, <2>1, <2>2 DEF ReadQuery, ReadSync, ReadOther, ReadTerminate, c2sVars, Ended
  <2>4. parseSeen' \in BOOLEAN /\ UNCHANGED preparedStmts
    BY <1>1, <1>5 DEF ReadQuery, ReadSync, ReadOther, ReadTerminate, c2sVars, Types
  <2>5. UNCHANGED <<clientVars, serverVars, s2cVars, chanVars, fromServer, toClient>>
    BY <1>5 DEF ReadQuery, ReadSync, ReadOther, ReadTerminate
  <2>6. QED
    BY <1>1, <2>2, <2>3, <2>4, <2>5 DEF Types, clientVars, serverVars, s2cVars, chanVars
<1>6. CASE ReadParse \/ ReadBind
  <2> DEFINE m == Head(toProxy)
  <2>1. /\ toProxy # <<>> /\ toProxy' = Tail(toProxy) /\ c2s' = [pc |-> "forward", msg |-> m]
    BY <1>6 DEF ReadParse, ReadBind, ReadClient
  <2>2. m \in ClientMsg /\ toProxy' \in Seq(ClientMsg)
    BY <1>1, <2>1, RequestFacts
  <2>3. m.query \in Queries \cup {NoQuery} /\ m.cycle \in Nat /\ m.stmt \in Stmts \cup {NoStmt}
    BY <2>2 DEF ClientMsg
  <2>4. CASE ReadParse
    <3>1. preparedStmts' \in [Stmts -> Queries \cup {NoQuery}]
      BY <1>1, <2>3, <2>4 DEF ReadParse, Types
    <3>2. pending' \in Seq(Pending) /\ parseSeen' \in BOOLEAN
      BY <1>1, <2>3, <2>4, TrySendType DEF ReadParse, Types
    <3>3. QED
      BY <1>1, <2>1, <2>2, <2>4, <3>1, <3>2 DEF ReadParse, Types, clientVars, serverVars, s2cVars
  <2>5. CASE ReadBind
    <3>1. pending' \in Seq(Pending)
      <4>1. \A t \in Stmts : preparedStmts[t] \in Queries \cup {NoQuery}
        BY <1>1 DEF Types
      <4>2. QED BY <1>1, <2>3, <2>5, <4>1, TrySendType DEF ReadBind, Types
    <3>2. QED BY <1>1, <2>1, <2>2, <2>5, <3>1 DEF ReadBind, Types, clientVars, serverVars, s2cVars
  <2>6. QED BY <1>6, <2>4, <2>5
<1>7. CASE CaptureQuery
  <2>1. c2s.msg \in ClientMsg
    BY <1>1, <1>7 DEF CaptureQuery, Types
  <2>2. pending' \in Seq(Pending)
    <3>1. c2s.msg.query \in Queries \cup {NoQuery} /\ c2s.msg.cycle \in Nat
      BY <2>1 DEF ClientMsg
    <3>2. QED BY <1>1, <1>7, <3>1, TrySendType DEF CaptureQuery
  <2>3. QED BY <1>1, <1>7, <2>2 DEF CaptureQuery, Types, clientVars, serverVars, s2cVars
<1>8. CASE Forward
  <2>1. Append(toServer, c2s.msg) \in Seq(ClientMsg)
    BY <1>1, <1>8 DEF Forward, Types
  <2>2. QED
    BY <1>1, <1>8, <2>1 DEF Forward, WriteServer, Types, clientVars, serverVars, s2cVars, chanVars
<1>9. CASE C2SFails \/ C2SReturns
  BY <1>1, <1>9
  DEF C2SFails, C2SReturns, Types, Ended, clientVars, serverVars, s2cVars, chanVars
<1>10. CASE Serve
  <2>1. PICK r \in Replies(Head(toServer)) :
               fromServer' = fromServer \o r.out /\ said' = said \o r.out
    BY <1>10 DEF Serve
  <2>2. /\ Head(toServer) \in ClientMsg /\ Tail(toServer) \in Seq(ClientMsg)
        /\ Append(served, Head(toServer)) \in Seq(ClientMsg)
    BY <1>1, <1>10 DEF Serve, Types
  <2>3. r.out \in Seq(ServerMsg)
    BY <2>2, RepliesInCycle
  <2>4. fromServer' \in Seq(ServerMsg) /\ said' \in Seq(ServerMsg)
    BY <1>1, <2>1, <2>3 DEF Types
  <2>5. QED BY <1>1, <1>10, <2>2, <2>4 DEF Serve, Types, clientVars, c2sVars, s2cVars, chanVars
<1>11. CASE RelayToClient
  <2>1. /\ Head(fromServer) \in ServerMsg /\ Tail(fromServer) \in Seq(ServerMsg)
        /\ Append(toClient, Head(fromServer)) \in Seq(ServerMsg)
    BY <1>1, <1>11, AnswerFacts DEF RelayToClient, Types
  <2>2. rowCount' \in Nat /\ lastError' \in BOOLEAN
    BY <1>1, <1>11 DEF RelayToClient, Types
  <2>3. QED
    BY <1>1, <1>11, <2>1, <2>2 DEF RelayToClient, Types, clientVars, c2sVars, serverVars, chanVars
<1>12. CASE ReadyForQuery
  <2>1. s2c.msg.cycle \in Nat
    BY <1>1, <1>12 DEF ReadyForQuery, Types, ServerMsg
  <2>2. events' \in Seq(Event) /\ pending' \in Seq(Pending)
    <3>1. CASE pending = <<>>
      BY <1>1, <1>12, <3>1 DEF ReadyForQuery, Types
    <3>2. CASE pending # <<>>
      <4>1. Head(pending) \in Pending /\ Tail(pending) \in Seq(Pending)
        BY <1>1, <3>2 DEF Types
      <4>2. [query |-> Head(pending).query, asked |-> Head(pending).cycle,
             answered |-> s2c.msg.cycle, rows |-> rowCount, error |-> lastError] \in Event
        BY <1>1, <2>1, <4>1 DEF Types, Pending, Event
      <4>3. \A e \in Event : Append(events, e) \in Seq(Event)
        BY <1>1 DEF Types
      <4>4. QED BY <1>12, <3>2, <4>1, <4>2, <4>3, Zenon DEF ReadyForQuery
    <3>3. QED BY <3>1, <3>2
  <2>3. QED BY <1>1, <1>12, <2>2 DEF ReadyForQuery, Types, clientVars, c2sVars, serverVars
<1>13. CASE S2CFails \/ S2CReturns
  BY <1>1, <1>13
  DEF S2CFails, S2CReturns, Types, Ended, clientVars, c2sVars, serverVars, chanVars
<1>14. QED
  BY <1>2, <1>3, <1>4, <1>5, <1>6, <1>7, <1>8, <1>9, <1>10, <1>11, <1>12, <1>13
  DEF Next, C2SStep, S2CStep

(* Messages from the client pass on in order. *)
LEMMA RequestsStep ==
  ASSUME Inv, Next
  PROVE  Requests'
<1>1. Types /\ Requests
  BY DEF Inv
<1>2. /\ program \in Seq(ClientMsg) /\ Len(program) \in Nat
      /\ Len(toProxy) \in Nat /\ Len(served) \in Nat /\ Len(toServer) \in Nat
      /\ Consumed \in Nat /\ Written \in Nat /\ Consumed + Len(toProxy) = sent
      /\ sent \in Nat /\ sent <= Len(program)
      /\ toServer \in Seq(ClientMsg) /\ toProxy \in Seq(ClientMsg) /\ served \in Seq(ClientMsg)
      /\ Segment(served, program, 0) /\ Segment(toServer, program, Len(served))
      /\ Segment(toProxy, program, Consumed)
      /\ c2s.pc \in {"read", "capture"} => Written = Consumed
      /\ c2s.pc = "forward" => Written + 1 = Consumed /\ c2s.msg = program[Consumed]
  BY <1>1, RequestFacts DEF Types, Requests
<1>3. CASE ClientSend
  <2>1. /\ sent < Len(program) /\ sent' = sent + 1 /\ toProxy' = Append(toProxy, program[sent + 1])
        /\ UNCHANGED <<program, c2s, served, toServer>>
    BY <1>3 DEF ClientSend, c2sVars, serverVars
  <2>2. program[sent + 1] \in ClientMsg /\ sent + 1 = Consumed + Len(toProxy) + 1
    BY <1>2, <2>1
  <2>3. Segment(toProxy', program, Consumed) /\ Len(toProxy') = Len(toProxy) + 1
    <3>1. PICK x \in ClientMsg : x = program[sent + 1]
      BY <2>2
    <3>2. /\ Consumed + Len(toProxy) < Len(program) /\ x = program[Consumed + Len(toProxy) + 1]
          /\ toProxy' = Append(toProxy, x)
      BY <1>2, <2>1, <2>2, <3>1
    <3>3. Segment(Append(toProxy, x), program, Consumed) /\ Len(Append(toProxy, x)) = Len(toProxy) + 1
      <4>1. /\ program \in Seq(ClientMsg) /\ toProxy \in Seq(ClientMsg) /\ Consumed \in Nat
            /\ Segment(toProxy, program, Consumed)
        BY <1>2
      <4>2. QED BY <3>2, <4>1, SegmentAppend
    <3>4. QED BY <3>2, <3>3, Zenon
  <2>4. Consumed' = Consumed
    BY <1>2, <2>1, <2>3 DEF Consumed
  <2>5. QED BY <1>1, <2>1, <2>3, <2>4 DEF Requests, Written
<1>4. CASE ReadQuery \/ ReadSync \/ ReadOther \/ ReadTerminate
  <2>1. /\ c2s.pc = "read" /\ toProxy # <<>> /\ toProxy' = Tail(toProxy)
        /\ toServer' = Append(toServer, Head(toProxy)) /\ UNCHANGED <<program, sent, served>>
    BY <1>4
    DEF ReadQuery, ReadSync, ReadOther, ReadTerminate, ReadClient, WriteServer, clientVars, serverVars
  <2>2. /\ Head(toProxy) = program[Consumed + 1] /\ Consumed + 1 <= sent
        /\ Head(toProxy) \in ClientMsg /\ Len(toProxy') = Len(toProxy) - 1
        /\ Segment(toProxy', program, Consumed + 1)
    BY <1>1, <2>1, RequestFacts
  <2>3. Consumed' = Consumed + 1
    BY <1>2, <2>1, <2>2 DEF Consumed
  <2>4. Segment(toServer', program, Len(served)) /\ Len(toServer') = Len(toServer) + 1
    <3>1. PICK x \in ClientMsg : x = Head(toProxy)
      BY <2>2
    <3>2. /\ Len(served) + Len(toServer) < Len(program)
          /\ x = program[Len(served) + Len(toServer) + 1] /\ toServer' = Append(toServer, x)
      BY <1>2, <2>1, <2>2, <3>1 DEF Written
    <3>3. QED BY <1>2, <3>2, SegmentAppend
  <2>5. Written' = Written + 1
    BY <1>2, <2>1, <2>4 DEF Written
  <2>6. \/ c2s' = c2s \/ c2s'.pc = "return"
        \/ c2s' = [pc |-> "capture", msg |-> Head(toProxy)] /\ Head(toProxy).type = "Q"
    BY <1>4 DEF ReadQuery, ReadSync, ReadOther, ReadTerminate, ReadClient, c2sVars
  <2>7. QED BY <1>1, <1>2, <2>1, <2>2, <2>3, <2>4, <2>5, <2>6 DEF Requests
<1>5. CASE ReadParse \/ ReadBind
  <2>1. /\ c2s.pc = "read" /\ toProxy # <<>> /\ toProxy' = Tail(toProxy)
        /\ c2s' = [pc |-> "forward", msg |-> Head(toProxy)]
        /\ UNCHANGED <<program, sent, served, toServer>>
    BY <1>5 DEF ReadParse, ReadBind, ReadClient, clientVars, serverVars
  <2>2. /\ Head(toProxy) = program[Consumed + 1] /\ Len(toProxy') = Len(toProxy) - 1
        /\ Segment(toProxy', program, Consumed + 1)
    BY <1>1, <2>1, RequestFacts
  <2>3. Consumed' = Consumed + 1
    BY <1>2, <2>1, <2>2 DEF Consumed
  <2>4. QED BY <1>1, <1>2, <2>1, <2>2, <2>3 DEF Requests, Written
<1>6. CASE Forward
  <2>1. /\ c2s.pc = "forward" /\ toServer' = Append(toServer, c2s.msg) /\ c2s'.pc = "read"
        /\ UNCHANGED <<program, sent, served, toProxy>>
    BY <1>6 DEF Forward, WriteServer, clientVars, serverVars
  <2>2. Consumed' = Consumed
    BY <2>1 DEF Consumed
  <2>3. Segment(toServer', program, Len(served)) /\ Len(toServer') = Len(toServer) + 1
    <3>1. PICK x \in ClientMsg : x = c2s.msg
      BY <1>1, <2>1 DEF Types
    <3>2. /\ Len(served) + Len(toServer) < Len(program)
          /\ x = program[Len(served) + Len(toServer) + 1] /\ toServer' = Append(toServer, x)
      BY <1>2, <2>1, <3>1 DEF Written
    <3>3. QED BY <1>2, <3>2, SegmentAppend
  <2>4. Written' = Written + 1
    BY <1>2, <2>1, <2>3 DEF Written
  <2>5. QED BY <1>1, <1>2, <2>1, <2>2, <2>3, <2>4 DEF Requests
<1>7. CASE CaptureQuery \/ C2SFails \/ C2SReturns
  <2>1. /\ c2s'.pc \in {"return", "done"} \/ (c2s.pc = "capture" /\ c2s'.pc = "read")
        /\ UNCHANGED <<program, sent, toProxy, served, toServer>>
    BY <1>7 DEF CaptureQuery, C2SFails, C2SReturns, clientVars, serverVars
  <2>2. QED BY <1>1, <1>2, <2>1 DEF Requests, Consumed, Written
<1>8. CASE Serve
  <2>1. /\ toServer # <<>> /\ served' = Append(served, Head(toServer)) /\ toServer' = Tail(toServer)
        /\ UNCHANGED <<program, sent, toProxy, c2s>>
    BY <1>8 DEF Serve, clientVars, c2sVars
  <2>2. /\ Head(toServer) = program[Len(served) + 1] /\ Len(served) + 1 <= Len(program)
        /\ Head(toServer) \in ClientMsg /\ Len(toServer') = Len(toServer) - 1
        /\ Segment(toServer', program, Len(served) + 1)
    BY <1>2, <2>1, SegmentTail
  <2>3. Segment(served', program, 0) /\ Len(served') = Len(served) + 1
    <3>1. PICK x \in ClientMsg : x = Head(toServer)
      BY <2>2
    <3>2. /\ 0 + Len(served) < Len(program) /\ x = program[0 + Len(served) + 1]
          /\ served' = Append(served, x) /\ 0 \in Nat
      BY <1>2, <2>1, <2>2, <3>1
    <3>3. QED BY <1>2, <3>2, SegmentAppend
  <2>4. Written' = Written /\ Consumed' = Consumed
    BY <1>2, <2>1, <2>2, <2>3 DEF Written, Consumed
  <2>5. QED BY <1>1, <2>1, <2>2, <2>3, <2>4 DEF Requests
<1>9. CASE UNCHANGED <<program, sent, toProxy, c2s, served, toServer>>
  BY <1>1, <1>9 DEF Requests, Consumed, Written
<1>10. QED
  BY <1>3, <1>4, <1>5, <1>6, <1>7, <1>8, <1>9
  DEF Next, ClientRecv, ClientHangUp, C2SStep, ServerHangUp, S2CStep, RelayToClient, ReadyForQuery,
      S2CFails, S2CReturns, HandlerReturns, clientVars, c2sVars, serverVars

(* Messages from the server pass on in order. *)
LEMMA AnswersStep ==
  ASSUME Inv, Next
  PROVE  Answers'
<1>1. Types /\ Answers
  BY DEF Inv
<1>2. /\ Len(said) \in Nat /\ Relayed \in Nat /\ Len(clientGot) \in Nat /\ Relayed <= Len(said)
      /\ Len(toClient) \in Nat /\ Len(fromServer) \in Nat /\ Relayed = Len(clientGot) + Len(toClient)
      /\ clientGot \in Seq(ServerMsg) /\ toClient \in Seq(ServerMsg)
      /\ fromServer \in Seq(ServerMsg) /\ said \in Seq(ServerMsg)
      /\ Segment(clientGot, said, 0) /\ Segment(toClient, said, Len(clientGot))
      /\ Segment(fromServer, said, Relayed) /\ Relayed + Len(fromServer) = Len(said)
  BY <1>1, AnswerFacts DEF Types, Answers, Relayed
<1>3. CASE ClientRecv
  <2>1. /\ toClient # <<>> /\ clientGot' = Append(clientGot, Head(toClient))
        /\ toClient' = Tail(toClient) /\ UNCHANGED <<said, fromServer>>
    BY <1>3 DEF ClientRecv, serverVars
  <2>2. /\ Head(toClient) \in ServerMsg /\ Len(clientGot) + 1 <= Len(said)
        /\ Head(toClient) = said[Len(clientGot) + 1]
        /\ Len(toClient') = Len(toClient) - 1 /\ Segment(toClient', said, Len(clientGot) + 1)
    BY <1>1, <2>1, AnswerFacts
  <2>3. Segment(clientGot', said, 0) /\ Len(clientGot') = Len(clientGot) + 1
    <3>1. PICK x \in ServerMsg : x = Head(toClient)
      BY <2>2
    <3>2. /\ 0 + Len(clientGot) < Len(said) /\ x = said[0 + Len(clientGot) + 1]
          /\ clientGot' = Append(clientGot, x) /\ 0 \in Nat
      BY <1>2, <2>1, <2>2, <3>1
    <3>3. /\ said \in Seq(ServerMsg) /\ clientGot \in Seq(ServerMsg)
          /\ Len(clientGot) \in Nat /\ Segment(clientGot, said, 0)
      BY <1>2
    <3>4. QED BY <3>2, <3>3, SegmentAppend
  <2>4. Relayed' = Relayed
    BY <1>2, <2>2, <2>3 DEF Relayed
  <2>5. QED BY <1>2, <2>1, <2>2, <2>3, <2>4 DEF Answers
<1>4. CASE Serve
  <2>1. PICK r \in Replies(Head(toServer)) :
               fromServer' = fromServer \o r.out /\ said' = said \o r.out
    BY <1>4 DEF Serve
  <2>2. toServer # <<>> /\ UNCHANGED <<clientGot, toClient>>
    BY <1>4 DEF Serve, clientVars
  <2>3. r.out \in Seq(ServerMsg)
    <3>1. Head(toServer) \in ClientMsg
      BY <1>1, <2>2 DEF Types
    <3>2. QED BY <3>1, RepliesInCycle
  <2>4. /\ Segment(clientGot, said', 0) /\ Segment(toClient, said', Len(clientGot))
        /\ Segment(fromServer', said', Relayed)
        /\ Len(said') = Len(said) + Len(r.out) /\ Len(fromServer') = Len(fromServer) + Len(r.out)
    BY <1>2, <2>1, <2>3, SegmentGrow
  <2>5. Relayed' = Relayed
    BY <2>2 DEF Relayed
  <2>6. Len(r.out) \in Nat
    BY <2>3
  <2>7. Relayed' + Len(fromServer') = Len(said')
    <3>1. /\ Relayed + Len(fromServer) = Len(said)
          /\ Relayed \in Nat /\ Len(fromServer) \in Nat /\ Len(said) \in Nat
      BY <1>2
    <3>2. Len(said') = Len(said) + Len(r.out) /\ Len(fromServer') = Len(fromServer) + Len(r.out)
      BY <2>4
    <3>3. QED BY <2>5, <2>6, <3>1, <3>2
  <2>8. /\ Segment(clientGot', said', 0) /\ Segment(toClient', said', Len(clientGot'))
        /\ Segment(fromServer', said', Relayed')
    BY <2>2, <2>4, <2>5, Zenon
  <2>9. QED BY <2>7, <2>8 DEF Answers
<1>5. CASE RelayToClient
  <2>1. /\ fromServer # <<>> /\ toClient' = Append(toClient, Head(fromServer))
        /\ fromServer' = Tail(fromServer) /\ UNCHANGED <<clientGot, said>>
    BY <1>5 DEF RelayToClient, clientVars, serverVars
  <2>2. /\ Head(fromServer) \in ServerMsg /\ Relayed + 1 <= Len(said)
        /\ Head(fromServer) = said[Relayed + 1]
        /\ Len(fromServer') = Len(fromServer) - 1 /\ Segment(fromServer', said, Relayed + 1)
    BY <1>1, <2>1, AnswerFacts
  <2>3. Segment(toClient', said, Len(clientGot)) /\ Len(toClient') = Len(toClient) + 1
    <3>1. PICK x \in ServerMsg : x = Head(fromServer)
      BY <2>2
    <3>2. /\ Len(clientGot) + Len(toClient) < Len(said)
          /\ x = said[Len(clientGot) + Len(toClient) + 1] /\ toClient' = Append(toClient, x)
      BY <1>2, <2>1, <2>2, <3>1
    <3>3. /\ said \in Seq(ServerMsg) /\ toClient \in Seq(ServerMsg)
          /\ Len(clientGot) \in Nat /\ Segment(toClient, said, Len(clientGot))
      BY <1>2
    <3>4. QED BY <3>2, <3>3, SegmentAppend
  <2>4. Relayed' = Relayed + 1
    BY <1>2, <2>1, <2>3 DEF Relayed
  <2>5. QED BY <1>2, <2>1, <2>2, <2>3, <2>4 DEF Answers
<1>6. CASE UNCHANGED <<clientGot, toClient, said, fromServer>>
  BY <1>1, <1>6 DEF Answers, Relayed
<1>7. QED
  BY <1>3, <1>4, <1>5, <1>6
  DEF Next, ClientSend, ClientHangUp, C2SStep, ReadQuery, CaptureQuery, ReadParse, ReadBind, Forward,
      ReadSync, ReadOther, ReadTerminate, C2SFails, C2SReturns, ServerHangUp, S2CStep, ReadyForQuery,
      S2CFails, S2CReturns, HandlerReturns, clientVars, serverVars

(* The server answers a message with messages of the cycle that is due. *)
LEMMA ServeSays ==
  ASSUME Inv, Serve
  PROVE  \E out \in Seq(ServerMsg) :
           /\ said' = said \o out
           /\ \A i \in 1 .. Len(out) : out[i].cycle = 1 + ReadyIn(said, Len(said))
           /\ InCycles(said')
           /\ CycleAfter(program, Len(served')) = 1 + ReadyIn(said', Len(said'))
<1>1. Types /\ Requests /\ Cycles
  BY DEF Inv
<1> DEFINE m == Head(toServer)
           c == CycleAfter(program, Len(served))
<1>2. /\ toServer # <<>> /\ served' = Append(served, m)
      /\ \E r \in Replies(m) : said' = said \o r.out
  BY DEF Serve
<1>3. PICK r \in Replies(m) : said' = said \o r.out
  BY <1>2
<1>4. m \in ClientMsg /\ m = program[Len(served) + 1] /\ Len(served) + 1 <= Len(program)
  BY <1>1, <1>2, RequestFacts, SegmentTail DEF Types, Requests
<1>5. Len(served) \in Nat /\ Len(served') = Len(served) + 1 /\ Len(program) \in Nat
  BY <1>1, <1>2, <1>4, ProgramType DEF Types
<1>6. /\ m.cycle = c /\ c \in Nat
      /\ CycleAfter(program, Len(served')) = IF EndsCycle(m) THEN c + 1 ELSE c
  <2>1. Len(served) < Len(program) /\ program \in Programs
    BY <1>1, <1>4, <1>5 DEF Types
  <2>2. QED BY <1>4, <1>5, <2>1, CycleStep
<1>7. c = 1 + ReadyIn(said, Len(said)) /\ InCycles(said) /\ said \in Seq(ServerMsg)
  BY <1>1 DEF Cycles, Types
<1>8. /\ r.out \in Seq(ServerMsg)
      /\ \A i \in 1 .. Len(r.out) : /\ r.out[i].cycle = c
                                    /\ r.out[i].type = "Z" <=> EndsCycle(m) /\ i = Len(r.out)
      /\ EndsCycle(m) => r.out # <<>>
  BY <1>4, <1>6, RepliesInCycle
<1>9. PICK ends \in BOOLEAN : ends <=> EndsCycle(m)
  OBVIOUS
<1>10. /\ InCycles(said \o r.out)
       /\ ReadyIn(said \o r.out, Len(said \o r.out)) = IF ends THEN c ELSE c - 1
  <2>1. PICK out \in Seq(ServerMsg) : out = r.out
    BY <1>8
  <2>2. PICK k \in Nat : k = c
    BY <1>6
  <2>3. /\ \A i \in 1 .. Len(out) : out[i].cycle = k /\ (out[i].type = "Z" <=> ends /\ i = Len(out))
        /\ ends => out # <<>>
    BY <1>8, <1>9, <2>1, <2>2
  <2>4. k = 1 + ReadyIn(said, Len(said)) /\ InCycles(said) /\ said \in Seq(ServerMsg)
    BY <1>7, <2>2
  <2>5. /\ InCycles(said \o out)
        /\ ReadyIn(said \o out, Len(said \o out)) = IF ends THEN k ELSE k - 1
    BY <2>3, <2>4, InCyclesGrow
  <2>6. QED BY <2>1, <2>2, <2>5
<1>11. CycleAfter(program, Len(served')) = 1 + ReadyIn(said', Len(said'))
  BY <1>3, <1>6, <1>9, <1>10
<1>12. QED BY <1>3, <1>7, <1>8, <1>10, <1>11

(* The client does not change its mind. *)
LEMMA ProgramStays == Next => UNCHANGED program
BY DEF Next, ClientSend, ClientRecv, ClientHangUp, C2SStep, ReadQuery, CaptureQuery, ReadParse,
     ReadBind, Forward, ReadSync, ReadOther, ReadTerminate, C2SFails, C2SReturns, Serve, ServerHangUp,
     S2CStep, RelayToClient, ReadyForQuery, S2CFails, S2CReturns, HandlerReturns, clientVars

(* What the server says stays in step with the cycles of the program. *)
LEMMA CyclesStep ==
  ASSUME Inv, Next
  PROVE  Cycles'
<1>1. Types /\ Cycles
  BY DEF Inv
<1>2. UNCHANGED program
  BY ProgramStays
<1>3. CASE Serve
  BY <1>2, <1>3, ServeSays DEF Cycles
<1>4. CASE UNCHANGED <<served, said>>
  BY <1>1, <1>2, <1>4 DEF Cycles, InCycles
<1>5. QED
  BY <1>3, <1>4
  DEF Next, ClientSend, ClientRecv, ClientHangUp, C2SStep, ReadQuery, CaptureQuery, ReadParse,
      ReadBind, Forward, ReadSync, ReadOther, ReadTerminate, C2SFails, C2SReturns, ServerHangUp,
      S2CStep, RelayToClient, ReadyForQuery, S2CFails, S2CReturns, HandlerReturns, serverVars

(* The counters of s2c, and where it stands in what the server has said.   *)
LEMMA CounterFacts ==
  ASSUME Inv
  PROVE  /\ said \in Seq(ServerMsg) /\ Len(said) \in Nat /\ Relayed \in 0 .. Len(said)
         /\ InCycles(said) /\ ReadyIn(said, Relayed) \in Nat /\ ReadyIn(said, Len(said)) \in Nat
         /\ ReadyIn(said, Relayed) <= ReadyIn(said, Len(said)) /\ Turn \in Nat
         /\ rowCount \in Nat /\ lastError \in BOOLEAN /\ events \in Seq(Event)
         /\ s2c.pc \notin Ended => rowCount = RowsIn(said, Relayed, Turn)
         /\ s2c.pc \notin Ended => (lastError <=> FailedIn(said, Relayed, Turn))
         /\ s2c.pc = "ready" => /\ Relayed > 0 /\ s2c.msg = said[Relayed] /\ s2c.msg.type = "Z"
                                /\ s2c.msg.cycle = Turn
<1>1. Types /\ Answers /\ Cycles /\ Counters
  BY DEF Inv
<1>2. /\ said \in Seq(ServerMsg) /\ Len(said) \in Nat /\ Relayed \in 0 .. Len(said)
      /\ Relayed \in Nat /\ InCycles(said)
  BY <1>1, AnswerFacts DEF Types, Cycles
<1>3. /\ ReadyIn(said, Relayed) \in Nat /\ ReadyIn(said, Len(said)) \in Nat
      /\ ReadyIn(said, Relayed) <= ReadyIn(said, Len(said))
  <2>1. Relayed <= Len(said)
    BY <1>2
  <2>2. QED BY <1>2, <2>1, ReadyStep, ReadyMonotonic
<1>4. Turn \in Nat
  BY <1>3 DEF Turn
<1>5. s2c.pc = "ready" => /\ Relayed > 0 /\ s2c.msg = said[Relayed] /\ s2c.msg.type = "Z"
                          /\ s2c.msg.cycle = Turn
  <2> SUFFICES ASSUME s2c.pc = "ready"
               PROVE  /\ Relayed > 0 /\ s2c.msg = said[Relayed] /\ s2c.msg.type = "Z"
                      /\ s2c.msg.cycle = Turn
    OBVIOUS
  <2>1. Relayed > 0 /\ s2c.msg = said[Relayed] /\ s2c.msg.type = "Z"
    BY <1>1 DEF Counters
  <2>2. Relayed \in 1 .. Len(said)
    BY <1>2, <2>1
  <2>3. said[Relayed].cycle = ReadyIn(said, Relayed)
    BY <1>2, <2>1, <2>2, CyclesAround
  <2>4. QED BY <2>1, <2>3 DEF Turn
<1>6. s2c.pc \notin Ended => rowCount = RowsIn(said, Relayed, Turn)
  BY <1>1 DEF Counters
<1>7. s2c.pc \notin Ended => (lastError <=> FailedIn(said, Relayed, Turn))
  BY <1>1, Zenon DEF Counters
<1>8. rowCount \in Nat /\ lastError \in BOOLEAN /\ events \in Seq(Event)
  BY <1>1 DEF Types
<1>9. QED BY <1>2, <1>3, <1>4, <1>5, <1>6, <1>7, <1>8

(* s2c leaves a cycle when it reports it. *)
LEMMA TurnStep ==
  ASSUME Inv, Next
  PROVE  Turn' = IF ReadyForQuery THEN Turn + 1 ELSE Turn
<1>1. /\ said \in Seq(ServerMsg) /\ Len(said) \in Nat /\ Relayed \in 0 .. Len(said)
      /\ ReadyIn(said, Relayed) \in Nat
  BY CounterFacts
<1>2. CASE ReadyForQuery
  <2>1. /\ s2c.pc = "ready" /\ s2c'.pc = "read" /\ UNCHANGED <<said, clientGot, toClient>>
    BY <1>2 DEF ReadyForQuery, clientVars, serverVars
  <2>2. QED BY <1>2, <2>1 DEF Turn, Relayed
<1>3. CASE RelayToClient
  <2> DEFINE m == Head(fromServer)
  <2>1. /\ s2c.pc = "read" /\ fromServer # <<>> /\ toClient' = Append(toClient, m)
        /\ s2c' = (IF m.type = "Z" THEN [pc |-> "ready", msg |-> m] ELSE s2c)
        /\ UNCHANGED <<said, clientGot>>
    BY <1>3 DEF RelayToClient, clientVars, serverVars
  <2>2. m = said[Relayed + 1] /\ Relayed + 1 <= Len(said) /\ m \in ServerMsg
    BY <2>1, AnswerFacts DEF Inv
  <2>3. Relayed' = Relayed + 1
    <3>1. Len(toClient') = Len(toClient) + 1 /\ Len(toClient) \in Nat /\ Len(clientGot) \in Nat
      BY <2>1, <2>2 DEF Inv, Types
    <3>2. QED BY <2>1, <3>1 DEF Relayed
  <2>4. ReadyIn(said, Relayed + 1) = IF m.type = "Z" THEN ReadyIn(said, Relayed) + 1
                                     ELSE ReadyIn(said, Relayed)
    <3>1. Relayed \in Nat /\ Relayed < Len(said)
      BY <1>1, <2>2
    <3>2. QED BY <1>1, <2>2, <3>1, ReadyStep
  <2>5. CASE m.type = "Z"
    BY <1>1, <2>1, <2>3, <2>4, <2>5 DEF Turn, ReadyForQuery
  <2>6. CASE m.type # "Z"
    BY <1>1, <2>1, <2>3, <2>4, <2>6 DEF Turn, ReadyForQuery
  <2>7. QED BY <2>5, <2>6
<1>4. CASE Serve
  <2>1. PICK out \in Seq(ServerMsg) : said' = said \o out
    BY <1>4, ServeSays
  <2>2. ReadyIn(said', Relayed) = ReadyIn(said, Relayed)
    BY <1>1, <2>1, SaidBefore
  <2>3. UNCHANGED <<s2c, events, clientGot, toClient>> /\ Relayed' = Relayed
    BY <1>4 DEF Serve, clientVars, s2cVars, Relayed
  <2>4. ~ ReadyForQuery
    <3>1. ReadyForQuery => s2c.pc = "ready" /\ s2c'.pc = "read"
      BY DEF ReadyForQuery
    <3>2. QED BY <2>3, <3>1
  <2>5. QED BY <2>2, <2>3, <2>4 DEF Turn
<1>5. CASE ClientRecv
  <2>1. /\ toClient # <<>> /\ clientGot' = Append(clientGot, Head(toClient))
        /\ toClient' = Tail(toClient) /\ UNCHANGED <<said, s2c>>
    BY <1>5 DEF ClientRecv, serverVars, s2cVars
  <2>2. Relayed' = Relayed
    <3>1. Len(toClient') = Len(toClient) - 1 /\ Head(toClient) \in ServerMsg
      BY <2>1, AnswerFacts DEF Inv
    <3>2. /\ Len(clientGot') = Len(clientGot) + 1 /\ Len(clientGot) \in Nat /\ Len(toClient) \in Nat
      BY <2>1 DEF Inv, Types
    <3>3. QED BY <3>1, <3>2 DEF Relayed
  <2>3. QED BY <2>1, <2>2 DEF Turn, ReadyForQuery
<1>6. CASE S2CFails \/ S2CReturns
  <2>1. s2c.pc # "ready" /\ s2c'.pc # "ready" /\ UNCHANGED <<said, clientGot, toClient>>
    BY <1>6 DEF S2CFails, S2CReturns, clientVars, serverVars
  <2>2. QED BY <2>1 DEF Turn, Relayed, ReadyForQuery
<1>7. CASE UNCHANGED <<s2c, said, clientGot, toClient>>
  BY <1>7 DEF Turn, Relayed, ReadyForQuery
<1>8. QED
  BY <1>2, <1>3, <1>4, <1>5, <1>6, <1>7
  DEF Next, ClientSend, ClientHangUp, C2SStep, ReadQuery, CaptureQuery, ReadParse, ReadBind, Forward,
      ReadSync, ReadOther, ReadTerminate, C2SFails, C2SReturns, ServerHangUp, S2CStep,
      HandlerReturns, clientVars, serverVars, s2cVars

(* The counters of s2c count the messages of one cycle, and its events     *)
(* name the rows and the error of one.                                     *)
LEMMA CountersStep ==
  ASSUME Inv, Next
  PROVE  Counters'
<1>1. Counters
  BY DEF Inv
<1>2. /\ said \in Seq(ServerMsg) /\ Len(said) \in Nat /\ Relayed \in 0 .. Len(said)
      /\ InCycles(said) /\ ReadyIn(said, Relayed) \in Nat /\ ReadyIn(said, Len(said)) \in Nat
      /\ ReadyIn(said, Relayed) <= ReadyIn(said, Len(said)) /\ Turn \in Nat
  BY CounterFacts
<1>3. CASE Serve
  <2>1. PICK out \in Seq(ServerMsg) :
          /\ said' = said \o out
          /\ \A i \in 1 .. Len(out) : out[i].cycle = 1 + ReadyIn(said, Len(said))
    BY <1>3, ServeSays
  <2>2. UNCHANGED <<s2c, rowCount, lastError, events, clientGot, toClient>>
    BY <1>3 DEF Serve, clientVars, s2cVars
  <2>3. Relayed' = Relayed
    BY <2>2 DEF Relayed
  <2>4. /\ ReadyIn(said', Relayed) = ReadyIn(said, Relayed)
        /\ ReadyIn(said', Len(said)) = ReadyIn(said, Len(said))
    <3>1. Len(said) \in 0 .. Len(said)
      BY <1>2
    <3>2. QED BY <1>2, <2>1, <3>1, SaidBefore
  <2>5. Turn' = Turn
    BY <2>2, <2>3, <2>4 DEF Turn
  <2>6. /\ Len(said') = Len(said) + Len(out) /\ said' \in Seq(ServerMsg) /\ Len(out) \in Nat
        /\ \A i \in 1 .. Len(said) : said'[i] = said[i]
        /\ \A i \in 1 .. Len(out) : said'[Len(said) + i] = out[i]
    BY <1>2, <2>1
  <2>7. s2c'.pc = "ready" => Relayed' > 0 /\ s2c'.msg = said'[Relayed'] /\ s2c'.msg.type = "Z"
    BY <1>1, <1>2, <2>2, <2>3, <2>6 DEF Counters
  <2>8. s2c'.pc \notin Ended => /\ rowCount' = RowsIn(said', Relayed', Turn')
                                /\ lastError' = FailedIn(said', Relayed', Turn')
    <3>1. /\ RowsIn(said', Relayed, Turn) = RowsIn(said, Relayed, Turn)
          /\ FailedIn(said', Relayed, Turn) <=> FailedIn(said, Relayed, Turn)
      BY <1>2, <2>1, SaidBefore
    <3>2. FailedIn(said', Relayed, Turn) = FailedIn(said, Relayed, Turn)
      BY <3>1, Zenon DEF FailedIn
    <3>3. QED BY <1>1, <2>2, <2>3, <2>5, <3>1, <3>2, Zenon DEF Counters
  <2>9. ASSUME NEW i \in 1 .. Len(events)
        PROVE  /\ events[i].answered \in 1 .. ReadyIn(said', Len(said'))
               /\ events[i].rows  = RowsIn(said', Len(said'), events[i].answered)
               /\ events[i].error = FailedIn(said', Len(said'), events[i].answered)
    <3>1. PICK c : c = events[i].answered
      OBVIOUS
    <3>2. /\ c \in 1 .. ReadyIn(said, Len(said))
          /\ events[i].rows  = RowsIn(said, Len(said), c)
          /\ events[i].error = FailedIn(said, Len(said), c)
      BY <1>1, <3>1, Zenon DEF Counters
    <3>3. ReadyIn(said, Len(said)) <= ReadyIn(said', Len(said')) /\ ReadyIn(said', Len(said')) \in Nat
      <4>1. Len(said) <= Len(said') /\ Len(said') \in Nat
        BY <1>2, <2>6
      <4>2. QED BY <1>2, <2>4, <2>6, <4>1, ReadyMonotonic, ReadyStep
    <3>4. /\ RowsIn(said', Len(said), c) = RowsIn(said, Len(said), c)
          /\ FailedIn(said', Len(said), c) <=> FailedIn(said, Len(said), c)
      <4>1. Len(said) \in 0 .. Len(said)
        BY <1>2
      <4>2. QED BY <1>2, <2>1, <4>1, SaidBefore
    <3>5. /\ RowsIn(said', Len(said), c) = RowsIn(said', Len(said'), c)
          /\ FailedIn(said', Len(said), c) <=> FailedIn(said', Len(said'), c)
      <4>1. \A k \in Len(said) + 1 .. Len(said') : said'[k].cycle # c
        <5> SUFFICES ASSUME NEW k \in Len(said) + 1 .. Len(said') PROVE said'[k].cycle # c
          OBVIOUS
        <5>1. PICK j \in 1 .. Len(out) : k = Len(said) + j
          <6>1. k - Len(said) \in 1 .. Len(out) /\ k = Len(said) + (k - Len(said))
            BY <1>2, <2>6
          <6>2. QED BY <6>1
        <5>2. said'[k].cycle = 1 + ReadyIn(said, Len(said))
          BY <2>1, <2>6, <5>1
        <5>3. QED BY <1>2, <3>2, <5>2
      <4>2. Len(said) <= Len(said') /\ Len(said') \in 0 .. Len(said')
        BY <1>2, <2>6
      <4>3. QED BY <1>2, <2>6, <4>1, <4>2, OtherCycles
    <3>6. FailedIn(said', Len(said'), c) = FailedIn(said, Len(said), c)
      BY <3>4, <3>5, Zenon DEF FailedIn
    <3>7. c \in 1 .. ReadyIn(said', Len(said'))
      BY <1>2, <3>2, <3>3
    <3>8. QED BY <3>1, <3>2, <3>4, <3>5, <3>6, <3>7, Zenon
  <2>10. QED BY <2>2, <2>7, <2>8, <2>9 DEF Counters
<1>4. CASE RelayToClient
  <2> DEFINE m == Head(fromServer)
  <2>1. /\ s2c.pc = "read" /\ fromServer # <<>> /\ toClient' = Append(toClient, m)
        /\ rowCount' = (IF m.type = "D" THEN rowCount + 1 ELSE rowCount)
        /\ lastError' = (m.type = "E" \/ lastError)
        /\ s2c' = (IF m.type = "Z" THEN [pc |-> "ready", msg |-> m] ELSE s2c)
        /\ UNCHANGED <<said, events, clientGot>>
    BY <1>4 DEF RelayToClient, clientVars, serverVars
  <2>2. m = said[Relayed + 1] /\ Relayed + 1 <= Len(said) /\ m \in ServerMsg
    BY <2>1, AnswerFacts DEF Inv
  <2>3. Relayed' = Relayed + 1
    <3>1. Len(toClient') = Len(toClient) + 1 /\ Len(toClient) \in Nat /\ Len(clientGot) \in Nat
      BY <2>1, <2>2 DEF Inv, Types
    <3>2. QED BY <2>1, <3>1 DEF Relayed
  <2>4. m.cycle = Turn
    <3>1. Relayed + 1 \in 1 .. Len(said) /\ (Relayed + 1) - 1 = Relayed
      BY <1>2, <2>2
    <3>2. said[Relayed + 1].cycle = 1 + ReadyIn(said, Relayed)
      BY <1>2, <3>1 DEF InCycles
    <3>3. QED BY <1>2, <2>1, <2>2, <3>2 DEF Turn
  <2>5. Turn' = Turn
    BY <2>1, TurnStep DEF ReadyForQuery
  <2>6. /\ m = [type |-> "D", cycle |-> Turn] <=> m.type = "D"
        /\ m = [type |-> "E", cycle |-> Turn] <=> m.type = "E"
    BY <2>2, <2>4 DEF ServerMsg
  <2>7. /\ RowsIn(said, Relayed + 1, Turn) = IF m.type = "D" THEN RowsIn(said, Relayed, Turn) + 1
                                             ELSE RowsIn(said, Relayed, Turn)
        /\ FailedIn(said, Relayed + 1, Turn) <=> FailedIn(said, Relayed, Turn) \/ m.type = "E"
    <3>1. Relayed \in Nat /\ Relayed < Len(said)
      BY <1>2, <2>2
    <3>2. /\ RowsIn(said, Relayed + 1, Turn)
               = IF said[Relayed + 1] = [type |-> "D", cycle |-> Turn]
                 THEN RowsIn(said, Relayed, Turn) + 1 ELSE RowsIn(said, Relayed, Turn)
          /\ FailedIn(said, Relayed + 1, Turn)
               <=> FailedIn(said, Relayed, Turn) \/ said[Relayed + 1] = [type |-> "E", cycle |-> Turn]
      BY <1>2, <3>1, RowsStep
    <3>3. QED BY <2>2, <2>6, <3>2
  <2>8. rowCount = RowsIn(said, Relayed, Turn) /\ (lastError <=> FailedIn(said, Relayed, Turn))
    BY <2>1, CounterFacts DEF Ended
  <2>9. rowCount' = RowsIn(said', Relayed', Turn')
    BY <2>1, <2>3, <2>5, <2>7, <2>8
  <2>10. lastError' = FailedIn(said', Relayed', Turn')
    <3>1. FailedIn(said, Relayed + 1, Turn) = (m.type = "E" \/ lastError)
      BY <2>7, <2>8, Zenon DEF FailedIn
    <3>2. QED BY <2>1, <2>3, <2>5, <3>1, Zenon
  <2>11. s2c'.pc = "ready" => Relayed' > 0 /\ s2c'.msg = said'[Relayed'] /\ s2c'.msg.type = "Z"
    BY <1>2, <2>1, <2>2, <2>3
  <2>12. QED BY <1>1, <2>1, <2>9, <2>10, <2>11 DEF Counters
<1>5. CASE ReadyForQuery
  <2> DEFINE R == ReadyIn(said, Relayed)
             e == [query |-> Head(pending).query, asked |-> Head(pending).cycle,
                   answered |-> s2c.msg.cycle, rows |-> rowCount, error |-> lastError]
  <2>1. /\ s2c.pc = "ready" /\ s2c'.pc = "read" /\ rowCount' = 0 /\ lastError' = FALSE
        /\ events' = Append(events, e) \/ events' = events
        /\ UNCHANGED <<said, clientGot, toClient>>
    BY <1>5 DEF ReadyForQuery, clientVars, serverVars
  <2>2. Relayed' = Relayed
    BY <2>1 DEF Relayed
  <2>3. Turn = R /\ Turn' = R + 1
    BY <2>1, <2>2 DEF Turn
  <2>4. Relayed > 0 /\ said[Relayed].type = "Z" /\ s2c.msg.cycle = R /\ R >= 1
    <3>1. Relayed > 0 /\ s2c.msg = said[Relayed] /\ s2c.msg.type = "Z" /\ s2c.msg.cycle = Turn
      BY <2>1, CounterFacts
    <3>2. Relayed \in 1 .. Len(said) /\ Relayed - 1 \in Nat
      BY <1>2, <3>1
    <3>3. said[Relayed].cycle = 1 + ReadyIn(said, Relayed - 1) /\ ReadyIn(said, Relayed - 1) \in Nat
      BY <1>2, <3>2, ReadyStep DEF InCycles
    <3>4. QED BY <2>3, <3>1, <3>3
  <2>5. /\ \A i \in 1 .. Relayed : said[i].cycle # R + 1
        /\ \A i \in Relayed + 1 .. Len(said) : said[i].cycle # R
    <3>1. ASSUME NEW i \in 1 .. Len(said)
          PROVE  /\ i > Relayed => said[i].cycle > R
                 /\ i <= Relayed => said[i].cycle <= R
                 /\ said[i].cycle \in Nat
      BY <1>2, <2>4, CyclesAround
    <3>2. QED BY <1>2, <3>1
  <2>6. RowsIn(said, Relayed, R + 1) = 0 /\ ~ FailedIn(said, Relayed, R + 1)
    <3>1. /\ RowsIn(said, 0, R + 1) = RowsIn(said, Relayed, R + 1)
          /\ FailedIn(said, 0, R + 1) <=> FailedIn(said, Relayed, R + 1)
      <4>1. 0 \in Nat /\ 0 <= Relayed /\ 0 + 1 = 1
        BY <1>2
      <4>2. QED BY <1>2, <2>5, <4>1, OtherCycles
    <3>2. RowsIn(said, 0, R + 1) = 0 /\ ~ FailedIn(said, 0, R + 1)
      BY RowsNone, Zenon
    <3>3. QED BY <3>1, <3>2
  <2>7. /\ RowsIn(said, Relayed, R) = RowsIn(said, Len(said), R)
        /\ FailedIn(said, Relayed, R) <=> FailedIn(said, Len(said), R)
    <3>1. Relayed \in Nat /\ Len(said) \in 0 .. Len(said) /\ Relayed <= Len(said)
      BY <1>2
    <3>2. QED BY <1>2, <2>5, <3>1, OtherCycles
  <2>8. /\ rowCount = RowsIn(said, Len(said), R) /\ lastError \in BOOLEAN
        /\ lastError <=> FailedIn(said, Len(said), R)
    BY <2>1, <2>3, <2>7, CounterFacts DEF Ended
  <2>9. /\ rowCount' = RowsIn(said', Relayed', Turn')
        /\ lastError' = FailedIn(said', Relayed', Turn')
    <3>1. FailedIn(said, Relayed, R + 1) = FALSE
      BY <2>6, Zenon DEF FailedIn
    <3>2. QED BY <2>1, <2>2, <2>3, <2>6, <3>1, Zenon
  <2>10. ASSUME NEW i \in 1 .. Len(events')
         PROVE  /\ events'[i].answered \in 1 .. ReadyIn(said', Len(said'))
                /\ events'[i].rows  = RowsIn(said', Len(said'), events'[i].answered)
                /\ events'[i].error = FailedIn(said', Len(said'), events'[i].answered)
    <3>1. \/ i \in 1 .. Len(events) /\ events'[i] = events[i]
          \/ events'[i] = e
      <4>1. events \in Seq(Event)
        BY CounterFacts
      <4> HIDE DEF e
      <4>2. QED BY <2>1, <4>1
    <3>2. CASE i \in 1 .. Len(events) /\ events'[i] = events[i]
      BY <1>1, <2>1, <3>2, Zenon DEF Counters
    <3>3. CASE events'[i] = e
      <4>1. /\ events'[i].answered = R /\ events'[i].rows = rowCount
            /\ events'[i].error = lastError
        BY <2>4, <3>3
      <4>2. R \in 1 .. ReadyIn(said, Len(said))
        BY <1>2, <2>4
      <4>3. lastError = FailedIn(said, Len(said), R)
        BY <2>8, Zenon DEF FailedIn
      <4>4. QED BY <2>1, <2>8, <4>1, <4>2, <4>3, Zenon
    <3>4. QED BY <3>1, <3>2, <3>3
  <2>11. s2c'.pc # "ready"
    BY <2>1
  <2>12. QED BY <2>9, <2>10, <2>11 DEF Counters
<1>6. CASE ClientRecv
  <2>1. /\ toClient # <<>> /\ clientGot' = Append(clientGot, Head(toClient))
        /\ toClient' = Tail(toClient) /\ UNCHANGED <<said, s2c, rowCount, lastError, events>>
    BY <1>6 DEF ClientRecv, serverVars, s2cVars
  <2>2. Relayed' = Relayed
    <3>1. Len(toClient') = Len(toClient) - 1 /\ Head(toClient) \in ServerMsg
      BY <2>1, AnswerFacts DEF Inv
    <3>2. /\ Len(clientGot') = Len(clientGot) + 1 /\ Len(clientGot) \in Nat /\ Len(toClient) \in Nat
      BY <2>1 DEF Inv, Types
    <3>3. QED BY <3>1, <3>2 DEF Relayed
  <2>3. Turn' = Turn
    BY <2>1, <2>2 DEF Turn
  <2>4. QED BY <1>1, <2>1, <2>2, <2>3, Zenon DEF Counters
<1>7. CASE S2CFails \/ S2CReturns
  <2>1. s2c'.pc \in Ended /\ UNCHANGED <<said, events>>
    BY <1>7 DEF S2CFails, S2CReturns, Ended, serverVars
  <2>2. s2c'.pc # "ready"
    BY <2>1 DEF Ended
  <2>3. QED BY <1>1, <2>1, <2>2, Zenon DEF Counters
<1>8. CASE UNCHANGED <<s2c, rowCount, lastError, events, said, clientGot, toClient>>
  <2>1. Relayed' = Relayed /\ Turn' = Turn
    BY <1>8 DEF Relayed, Turn
  <2>2. QED BY <1>1, <1>8, <2>1, Zenon DEF Counters
<1>9. QED
  BY <1>3, <1>4, <1>5, <1>6, <1>7, <1>8
  DEF Next, ClientSend, ClientHangUp, C2SStep, ReadQuery, CaptureQuery, ReadParse, ReadBind, Forward,
      ReadSync, ReadOther, ReadTerminate, C2SFails, C2SReturns, ServerHangUp, S2CStep,
      HandlerReturns, clientVars, serverVars, s2cVars

(* The client has as many answers as it has read ReadyForQuery messages.   *)
LEMMA AnsweredFacts ==
  ASSUME Inv
  PROVE  Answered \in Nat /\ Answered <= ReadyIn(said, Relayed)
<1>1. /\ said \in Seq(ServerMsg) /\ clientGot \in Seq(ServerMsg) /\ Segment(clientGot, said, 0)
      /\ Len(clientGot) \in Nat /\ Len(toClient) \in Nat
  BY DEF Inv, Types, Answers
<1>2. Answered = ReadyIn(said, Len(clientGot))
  BY <1>1, ReadyCount DEF Answered
<1>3. Len(clientGot) <= Relayed /\ Relayed \in Nat
  BY <1>1 DEF Relayed
<1>4. QED BY <1>1, <1>2, <1>3, ReadyStep, ReadyMonotonic

(* The client sends no message of a cycle too far ahead of its answers.    *)
LEMMA PacedStep ==
  ASSUME Inv, Next
  PROVE  Paced'
<1>1. /\ \A i \in 1 .. Len(toProxy) : toProxy[i].cycle <= Answered + Ahead
      /\ toProxy \in Seq(ClientMsg) /\ Answered \in Nat
  BY AnsweredFacts DEF Inv, Paced, Types
<1>2. CASE ClientSend
  <2>1. /\ toProxy' = Append(toProxy, program[sent + 1]) /\ UNCHANGED clientGot
        /\ program[sent + 1].cycle <= Answered + Ahead
    BY <1>2 DEF ClientSend
  <2>2. Answered' = Answered
    BY <2>1 DEF Answered
  <2>3. QED BY <1>1, <2>1, <2>2 DEF Paced
<1>3. CASE ClientRecv
  <2>1. clientGot' = Append(clientGot, Head(toClient)) /\ toClient # <<>> /\ UNCHANGED toProxy
    BY <1>3 DEF ClientRecv
  <2>2. clientGot \in Seq(ServerMsg) /\ clientGot' \in Seq(ServerMsg)
    BY <2>1 DEF Inv, Types
  <2>3. Answered <= Answered' /\ Answered' \in Nat
    <3>1. {i \in DOMAIN clientGot : clientGot[i].type = "Z"}
            \subseteq {i \in DOMAIN clientGot' : clientGot'[i].type = "Z"}
      BY <2>1, <2>2
    <3>2. IsFiniteSet({i \in DOMAIN clientGot' : clientGot'[i].type = "Z"})
      <4>1. IsFiniteSet(1 .. Len(clientGot')) /\ DOMAIN clientGot' = 1 .. Len(clientGot')
        BY <2>2, FS_Interval
      <4>2. QED BY <4>1, FS_Subset
    <3>3. QED BY <3>1, <3>2, FS_Subset, FS_CardinalityType DEF Answered
  <2>4. ASSUME NEW i \in 1 .. Len(toProxy) PROVE toProxy[i].cycle <= Answered' + Ahead
    <3>1. toProxy[i].cycle \in Nat /\ toProxy[i].cycle <= Answered + Ahead
      <4>1. toProxy[i] \in ClientMsg
        BY <1>1
      <4>2. QED BY <1>1, <4>1 DEF ClientMsg
    <3>2. QED BY <1>1, <2>3, <3>1, CapAssumption
  <2>5. QED BY <2>1, <2>4 DEF Paced
<1>4. CASE toProxy # <<>> /\ toProxy' = Tail(toProxy) /\ UNCHANGED clientGot
  <2>1. Answered' = Answered
    BY <1>4 DEF Answered
  <2>2. \A i \in 1 .. Len(toProxy') : i + 1 \in 1 .. Len(toProxy) /\ toProxy'[i] = toProxy[i + 1]
    BY <1>1, <1>4
  <2>3. QED BY <1>1, <2>1, <2>2 DEF Paced
<1>5. CASE UNCHANGED <<toProxy, clientGot>>
  BY <1>1, <1>5 DEF Paced, Answered
<1>6. QED
  BY <1>2, <1>3, <1>4, <1>5
  DEF Next, ClientHangUp, C2SStep, ReadQuery, CaptureQuery, ReadParse, ReadBind, Forward, ReadSync,
      ReadOther, ReadTerminate, ReadClient, C2SFails, C2SReturns, Serve, ServerHangUp, S2CStep,
      RelayToClient, ReadyForQuery, S2CFails, S2CReturns, HandlerReturns, clientVars

(* c2s receives the next message of the program. *)
LEMMA ReadFacts ==
  ASSUME Inv, toProxy # <<>>
  PROVE  /\ Consumed \in Nat /\ Consumed + 1 \in 1 .. Len(program)
         /\ Head(toProxy) = program[Consumed + 1] /\ Head(toProxy) \in ClientMsg
         /\ Head(toProxy).cycle = CycleAfter(program, Consumed)
         /\ Head(toProxy).cycle <= Answered + Ahead
         /\ CycleAfter(program, Consumed) \in Nat \ {0}
         /\ CycleAfter(program, Consumed + 1)
              = IF EndsCycle(Head(toProxy)) THEN CycleAfter(program, Consumed) + 1
                ELSE CycleAfter(program, Consumed)
         /\ toProxy' = Tail(toProxy) /\ UNCHANGED sent => Consumed' = Consumed + 1
<1>1. Types /\ Requests /\ Paced
  BY DEF Inv
<1>2. /\ Consumed \in Nat /\ sent \in Nat /\ sent <= Len(program) /\ Len(program) \in Nat
      /\ Consumed + 1 <= sent /\ Head(toProxy) = program[Consumed + 1]
      /\ Head(toProxy) \in ClientMsg /\ Len(Tail(toProxy)) = Len(toProxy) - 1
      /\ Len(toProxy) \in Nat /\ Consumed + Len(toProxy) = sent
  BY <1>1, RequestFacts
<1>3. Consumed < Len(program) /\ Consumed + 1 \in 1 .. Len(program) /\ program \in Programs
  BY <1>1, <1>2 DEF Types
<1>4. /\ program[Consumed + 1].cycle = CycleAfter(program, Consumed)
      /\ CycleAfter(program, Consumed) \in Nat \ {0}
      /\ CycleAfter(program, Consumed + 1)
           = IF EndsCycle(program[Consumed + 1]) THEN CycleAfter(program, Consumed) + 1
             ELSE CycleAfter(program, Consumed)
  BY <1>2, <1>3, CycleStep
<1>5. Head(toProxy).cycle <= Answered + Ahead
  <2>1. Head(toProxy) = toProxy[1] /\ 1 \in 1 .. Len(toProxy)
    BY <1>1 DEF Types
  <2>2. QED BY <1>1, <2>1 DEF Paced
<1>6. toProxy' = Tail(toProxy) /\ UNCHANGED sent => Consumed' = Consumed + 1
  BY <1>2 DEF Consumed
<1>7. QED BY <1>2, <1>3, <1>4, <1>5, <1>6

(* The programs that pgx runs capture exactly one message of each cycle.   *)
LEMMA OneCapture ==
  ASSUME Inv, OneCapturePerCycle, NEW i \in 1 .. Len(program)
  PROVE  \E k \in 1 .. Len(program) :
           /\ program[k].cycle = program[i].cycle /\ CapturesAhead(k)
           /\ \A j \in 1 .. Len(program) :
                program[j].cycle = program[i].cycle /\ CapturesAhead(j) => j = k
<1> DEFINE S == {j \in DOMAIN program : program[j].cycle = program[i].cycle /\ CapturesAhead(j)}
<1>1. DOMAIN program = 1 .. Len(program) /\ Len(program) \in Nat
  BY ProgramType DEF Inv, Types
<1>2. IsFiniteSet(S)
  <2>1. IsFiniteSet(1 .. Len(program))
    BY <1>1, FS_Interval
  <2>2. QED BY <1>1, <2>1, FS_Subset
<1>3. Cardinality(S) = 1
  BY <1>1 DEF OneCapturePerCycle
<1> HIDE DEF S
<1>4. PICK k : S = {k}
  BY <1>2, <1>3, FS_Singleton
<1>5. k \in 1 .. Len(program) /\ program[k].cycle = program[i].cycle /\ CapturesAhead(k)
  <2>1. k \in S
    BY <1>4
  <2>2. QED BY <1>1, <2>1 DEF S
<1>6. \A j \in 1 .. Len(program) : program[j].cycle = program[i].cycle /\ CapturesAhead(j) => j = k
  <2>1. \A j \in 1 .. Len(program) :
          program[j].cycle = program[i].cycle /\ CapturesAhead(j) => j \in S
    BY <1>1 DEF S
  <2>2. QED BY <1>4, <2>1
<1>7. QED BY <1>5, <1>6

(* A message that is captured is the first of its cycle, and there is room *)
(* for its entry.                                                          *)
LEMMA Room ==
  ASSUME Inv, OneCapturePerCycle, Ahead < PendingCap, Captures, toProxy # <<>>,
         CapturesAhead(Consumed + 1)
  PROVE  /\ ~ CapturedNow /\ Len(pending) < PendingCap
         /\ Len(events) + Len(pending) = CycleAfter(program, Consumed) - 1
<1> DEFINE c == CycleAfter(program, Consumed)
<1>1. /\ Consumed \in Nat /\ Consumed + 1 \in 1 .. Len(program) /\ c \in Nat \ {0}
      /\ program[Consumed + 1].cycle = c /\ c <= Answered + Ahead
  BY ReadFacts
<1>2. ~ CapturedNow
  <2>1. PICK k \in 1 .. Len(program) :
               \A j \in 1 .. Len(program) :
                 program[j].cycle = program[Consumed + 1].cycle /\ CapturesAhead(j) => j = k
    BY <1>1, OneCapture
  <2>2. Consumed + 1 = k
    BY <1>1, <2>1
  <2>3. \A j \in 1 .. Consumed : j \in 1 .. Len(program) /\ j # k
    BY <1>1, <2>2
  <2>4. QED BY <1>1, <2>1, <2>3 DEF CapturedNow
<1>3. Len(events) + Len(pending) = c - 1
  BY <1>2 DEF Captures, Queued
<1>4. Len(pending) < PendingCap
  <2>1. /\ Answered \in Nat /\ Answered <= ReadyIn(said, Relayed)
        /\ ReadyIn(said, Relayed) \in Nat
    BY AnsweredFacts, CounterFacts
  <2>2. Turn \in Nat /\ Turn >= ReadyIn(said, Relayed) /\ Len(events) = Turn - 1
    BY <2>1 DEF Turn, Captures, Reported
  <2>3. Len(pending) \in Nat /\ Len(events) \in Nat
    BY DEF Inv, Types
  <2> HIDE DEF c
  <2>4. QED BY <1>1, <1>3, <2>1, <2>2, <2>3, CapAssumption
<1>5. QED BY <1>2, <1>3, <1>4

(* What is known, and what is captured of the current cycle, when c2s has  *)
(* received one message more.                                              *)
LEMMA ReadNext ==
  ASSUME Inv, toProxy # <<>>, toProxy' = Tail(toProxy), UNCHANGED <<program, sent>>, NEW m,
         m = Head(toProxy)
  PROVE  /\ (\E j \in 1 .. Consumed' :
               (IsParse(program[j]))' /\ program'[j].cycle = CycleAfter(program', Consumed'))
            <=> ~ EndsCycle(m)
                /\ \/ IsParse(m)
                   \/ \E j \in 1 .. Consumed :
                        IsParse(program[j]) /\ program[j].cycle = CycleAfter(program, Consumed)
         /\ \A s \in Stmts :
              (\E j \in 1 .. Consumed' : (IsParse(program[j]))' /\ program'[j].stmt = s)
              <=> \/ IsParse(m) /\ m.stmt = s
                  \/ \E j \in 1 .. Consumed : IsParse(program[j]) /\ program[j].stmt = s
         /\ CapturedNow' <=> ~ EndsCycle(m) /\ (CapturesAhead(Consumed + 1) \/ CapturedNow)
         /\ CycleAfter(program', Consumed')
              = IF EndsCycle(m) THEN CycleAfter(program, Consumed) + 1
                ELSE CycleAfter(program, Consumed)
<1> DEFINE n == Consumed
           c == CycleAfter(program, n)
<1>1. /\ n \in Nat /\ n + 1 \in 1 .. Len(program) /\ m = program[n + 1] /\ m.cycle = c
      /\ c \in Nat \ {0} /\ Consumed' = n + 1
      /\ CycleAfter(program, n + 1) = IF EndsCycle(m) THEN c + 1 ELSE c
  BY ReadFacts
<1>2. \A j \in 1 .. n + 1 : program[j].cycle \in Nat /\ program[j].cycle <= c
  <2>1. Len(program) \in Nat /\ program \in Programs
    BY ProgramType DEF Inv, Types
  <2>2. \A j \in 1 .. n + 1 : j \in 1 .. Len(program) /\ j <= n + 1
    BY <1>1, <2>1
  <2>3. QED BY <1>1, <2>1, <2>2, CycleOf
<1>3. \A j : (IsParse(program[j])' <=> IsParse(program[j])) /\ (CapturesAhead(j)' <=> CapturesAhead(j))
  BY DEF IsParse, CapturesAhead
<1>4. 1 .. n + 1 = (1 .. n) \cup {n + 1}
  BY <1>1
<1> HIDE DEF n, c
<1>5. CycleAfter(program', Consumed') = IF EndsCycle(m) THEN c + 1 ELSE c
  BY <1>1
<1>6. (\E j \in 1 .. Consumed' :
         IsParse(program[j])' /\ program'[j].cycle = CycleAfter(program', Consumed'))
      <=> /\ ~ EndsCycle(m)
          /\ IsParse(m) \/ \E j \in 1 .. n : IsParse(program[j]) /\ program[j].cycle = c
  <2>1. (\E j \in 1 .. Consumed' :
           IsParse(program[j])' /\ program'[j].cycle = CycleAfter(program', Consumed'))
        <=> \E j \in (1 .. n) \cup {n + 1} :
              IsParse(program[j]) /\ program[j].cycle = IF EndsCycle(m) THEN c + 1 ELSE c
    BY <1>1, <1>3, <1>4, <1>5
  <2>2. QED BY <1>1, <1>2, <1>4, <2>1
<1>7. \A s \in Stmts :
        (\E j \in 1 .. Consumed' : IsParse(program[j])' /\ program'[j].stmt = s)
        <=> \/ IsParse(m) /\ m.stmt = s
            \/ \E j \in 1 .. n : IsParse(program[j]) /\ program[j].stmt = s
  BY <1>1, <1>3, <1>4
<1>8. CapturedNow' <=> ~ EndsCycle(m) /\ (CapturesAhead(n + 1) \/ CapturedNow)
  <2>1. CapturedNow'
        <=> \E j \in (1 .. n) \cup {n + 1} :
              CapturesAhead(j) /\ program[j].cycle = IF EndsCycle(m) THEN c + 1 ELSE c
    BY <1>1, <1>3, <1>4, <1>5 DEF CapturedNow
  <2>2. CapturedNow <=> \E j \in 1 .. n : CapturesAhead(j) /\ program[j].cycle = c
    BY DEF CapturedNow, n, c
  <2>3. CASE EndsCycle(m)
    <3>1. \A j \in (1 .. n) \cup {n + 1} : program[j].cycle # c + 1
      BY <1>1, <1>2, <1>4
    <3>2. QED BY <2>1, <2>3, <3>1
  <2>4. CASE ~ EndsCycle(m)
    <3>1. CapturedNow' <=> \E j \in (1 .. n) \cup {n + 1} : CapturesAhead(j) /\ program[j].cycle = c
      BY <2>1, <2>4
    <3>2. program[n + 1].cycle = c
      BY <1>1
    <3>3. QED BY <2>2, <2>4, <3>1, <3>2, Zenon
  <2>5. QED BY <2>3, <2>4
<1>9. QED BY <1>5, <1>6, <1>7, <1>8 DEF n, c

(* When a Sync arrives, a message of its cycle has been captured. *)
LEMMA CapturedBySync ==
  ASSUME Inv, OneCapturePerCycle, toProxy # <<>>, Head(toProxy).type = "S"
  PROVE  CapturedNow /\ EndsCycle(Head(toProxy)) /\ ~ CapturesAhead(Consumed + 1)
<1> DEFINE n == Consumed
           c == CycleAfter(program, n)
<1>1. /\ n \in Nat /\ n + 1 \in 1 .. Len(program) /\ Head(toProxy) = program[n + 1]
      /\ program[n + 1].cycle = c /\ c \in Nat \ {0}
      /\ CycleAfter(program, n + 1) = IF EndsCycle(Head(toProxy)) THEN c + 1 ELSE c
  BY ReadFacts
<1>2. program[n + 1].type = "S"
  BY <1>1
<1>3. EndsCycle(Head(toProxy)) /\ ~ CapturesAhead(n + 1)
  BY <1>2 DEF EndsCycle, CapturesAhead, IsParse
<1>4. PICK k \in 1 .. Len(program) : program[k].cycle = c /\ CapturesAhead(k)
  BY <1>1, OneCapture
<1>5. k <= n + 1
  <2>1. n + 1 \in Nat /\ program \in Programs
    BY <1>1 DEF Inv, Types
  <2>2. k > n + 1 => program[k].cycle >= CycleAfter(program, n + 1)
    BY <2>1, CycleOf
  <2>3. CycleAfter(program, n + 1) = c + 1
    BY <1>1, <1>3
  <2> HIDE DEF n, c
  <2>4. QED BY <1>1, <1>4, <2>2, <2>3
<1>6. k # n + 1
  BY <1>3, <1>4
<1>7. k \in 1 .. n
  BY <1>1, <1>5, <1>6
<1>8. QED BY <1>3, <1>4, <1>7 DEF CapturedNow

(* Programs without simple queries. *)
LEMMA NoSimpleQuery ==
  ASSUME Inv, OneCapturePerCycle
  PROVE  ~ ReadQuery /\ ~ CaptureQuery
<1>1. \A i \in 1 .. Len(program) : program[i].type # "Q"
  BY ProgramType DEF OneCapturePerCycle, Inv, Types
<1>2. ~ ReadQuery
  <2>1. ReadQuery => toProxy # <<>> /\ Head(toProxy).type = "Q"
    BY DEF ReadQuery, ReadClient
  <2>2. QED BY <1>1, <2>1, ReadFacts
<1>3. ~ CaptureQuery
  <2>1. CaptureQuery => c2s.msg = program[Consumed] /\ c2s.msg.type = "Q" /\ Written = Consumed
    BY DEF CaptureQuery, Inv, Requests
  <2>2. c2s.pc = "capture" => Consumed \in 1 .. Len(program)
    <3>1. /\ Consumed \in Nat /\ Len(toProxy) \in Nat /\ Consumed + Len(toProxy) = sent
          /\ sent <= Len(program) /\ Len(program) \in Nat
      BY RequestFacts DEF Inv
    <3>2. c2s.pc = "capture" => Consumed > 0
      BY DEF Inv, Requests
    <3>3. QED BY <3>1, <3>2
  <2>3. QED BY <1>1, <2>1, <2>2 DEF CaptureQuery
<1>4. QED BY <1>2, <1>3

(* c2s knows the statements that were parsed, and whether one was in the   *)
(* current cycle.                                                          *)
LEMMA KnownStep ==
  ASSUME Inv, Next, OneCapturePerCycle, Known
  PROVE  Known'
<1> DEFINE m == Head(toProxy)
<1>1. preparedStmts \in [Stmts -> Queries \cup {NoQuery}] /\ UNCHANGED program
  BY ProgramStays DEF Inv, Types
<1>2. ASSUME toProxy # <<>>, toProxy' = Tail(toProxy), UNCHANGED sent,
             parseSeen' <=> ~ EndsCycle(m) /\ (IsParse(m) \/ parseSeen),
             \A s \in Stmts : preparedStmts'[s] # NoQuery
                                <=> (IsParse(m) /\ m.stmt = s) \/ preparedStmts[s] # NoQuery
      PROVE  Known'
  <2> HIDE DEF m
  <2>1. /\ (\E j \in 1 .. Consumed' :
              (IsParse(program[j]))' /\ program'[j].cycle = CycleAfter(program', Consumed'))
           <=> ~ EndsCycle(m)
               /\ \/ IsParse(m)
                  \/ \E j \in 1 .. Consumed :
                       IsParse(program[j]) /\ program[j].cycle = CycleAfter(program, Consumed)
        /\ \A s \in Stmts :
             (\E j \in 1 .. Consumed' : (IsParse(program[j]))' /\ program'[j].stmt = s)
             <=> \/ IsParse(m) /\ m.stmt = s
                 \/ \E j \in 1 .. Consumed : IsParse(program[j]) /\ program[j].stmt = s
    BY <1>1, <1>2, ReadNext DEF m
  <2>2. /\ parseSeen <=> \E j \in 1 .. Consumed :
               IsParse(program[j]) /\ program[j].cycle = CycleAfter(program, Consumed)
        /\ \A s \in Stmts : preparedStmts[s] # NoQuery <=>
             \E j \in 1 .. Consumed : IsParse(program[j]) /\ program[j].stmt = s
    BY DEF Known
  <2>3. parseSeen' <=> \E j \in 1 .. Consumed' :
               (IsParse(program[j]))' /\ program'[j].cycle = CycleAfter(program', Consumed')
    BY <1>2, <2>1, <2>2, Zenon
  <2>4. \A s \in Stmts : preparedStmts'[s] # NoQuery <=>
               \E j \in 1 .. Consumed' : (IsParse(program[j]))' /\ program'[j].stmt = s
    BY <1>2, <2>1, <2>2, Zenon
  <2>5. QED BY <2>3, <2>4, Zenon DEF Known
<1>3. CASE ReadSync \/ ReadOther \/ ReadTerminate \/ ReadBind
  <2>1. /\ toProxy # <<>> /\ toProxy' = Tail(toProxy) /\ UNCHANGED <<sent, preparedStmts>>
        /\ m.type \in {"S", "E", "X", "B"}
        /\ IF m.type = "S" THEN parseSeen' = FALSE ELSE UNCHANGED parseSeen
    BY <1>3
    DEF ReadSync, ReadOther, ReadTerminate, ReadBind, ReadClient, clientVars, c2sVars
  <2>2. ~ IsParse(m) /\ (EndsCycle(m) <=> m.type = "S")
    BY <2>1 DEF IsParse, EndsCycle
  <2> HIDE DEF m
  <2>3. parseSeen' <=> ~ EndsCycle(m) /\ (IsParse(m) \/ parseSeen)
    BY <2>1, <2>2
  <2>4. QED BY <1>2, <2>1, <2>2, <2>3
<1>4. CASE ReadParse
  <2>1. /\ toProxy # <<>> /\ toProxy' = Tail(toProxy) /\ UNCHANGED sent /\ m.type = "P"
        /\ preparedStmts' = IF m.stmt # NoStmt /\ m.query # NoQuery
                            THEN [preparedStmts EXCEPT ![m.stmt] = m.query]
                            ELSE preparedStmts
        /\ IF m.query # NoQuery THEN parseSeen' = TRUE ELSE UNCHANGED parseSeen
    BY <1>4 DEF ReadParse, ReadClient, clientVars
  <2>2. ~ EndsCycle(m) /\ (IsParse(m) <=> m.query # NoQuery) /\ m.stmt \in Stmts \cup {NoStmt}
    <3>1. m \in ClientMsg
      BY <2>1, ReadFacts
    <3>2. QED BY <2>1, <3>1 DEF EndsCycle, IsParse, ClientMsg
  <2> HIDE DEF m
  <2>3. \A s \in Stmts : preparedStmts'[s] # NoQuery
                           <=> (IsParse(m) /\ m.stmt = s) \/ preparedStmts[s] # NoQuery
    BY <1>1, <2>1, <2>2, NamesAssumption
  <2>4. parseSeen' <=> ~ EndsCycle(m) /\ (IsParse(m) \/ parseSeen)
    BY <2>1, <2>2
  <2>5. QED BY <1>2, <2>1, <2>3, <2>4
<1>5. CASE UNCHANGED <<Consumed, preparedStmts, parseSeen>>
  BY <1>1, <1>5 DEF Known, IsParse
<1>6. CASE ClientSend
  <2>1. Consumed' = Consumed
    <3>1. /\ sent' = sent + 1 /\ toProxy' = Append(toProxy, program[sent + 1])
          /\ sent \in Nat /\ toProxy \in Seq(ClientMsg)
      BY <1>6, RequestFacts DEF ClientSend, Inv, Types
    <3>2. QED BY <3>1 DEF Consumed
  <2>2. QED BY <1>5, <1>6, <2>1 DEF ClientSend, c2sVars
<1>7. CASE UNCHANGED <<sent, toProxy, preparedStmts, parseSeen>>
  BY <1>5, <1>7 DEF Consumed
<1>8. QED
  BY <1>3, <1>4, <1>6, <1>7, NoSimpleQuery
  DEF Next, ClientRecv, ClientHangUp, C2SStep, Forward, C2SFails, C2SReturns, Serve, ServerHangUp,
      S2CStep, RelayToClient, ReadyForQuery, S2CFails, S2CReturns, HandlerReturns, clientVars, c2sVars

(* c2s decides as CapturesAhead says. *)
LEMMA CaptureStep ==
  ASSUME Inv, OneCapturePerCycle, Known, NEW m, m = Head(toProxy), ReadParse \/ ReadBind
  PROVE  /\ toProxy # <<>> /\ toProxy' = Tail(toProxy) /\ UNCHANGED <<program, sent, events>>
         /\ m.cycle \in Nat /\ m.cycle = CycleAfter(program, Consumed) /\ ~ EndsCycle(m)
         /\ IF CapturesAhead(Consumed + 1)
            THEN \E text \in Queries \cup {NoQuery} : trySend(text, m.cycle)
            ELSE UNCHANGED pending
<1> DEFINE n == Consumed
<1>1. /\ toProxy # <<>> /\ toProxy' = Tail(toProxy) /\ UNCHANGED <<program, sent, events>>
      /\ m.type \in {"P", "B"}
  BY DEF ReadParse, ReadBind, ReadClient, clientVars, s2cVars
<1>2. /\ m \in ClientMsg /\ m = program[n + 1] /\ n \in Nat
      /\ m.cycle = CycleAfter(program, n)
  BY <1>1, ReadFacts
<1>3. /\ m.cycle \in Nat /\ m.stmt \in Stmts \cup {NoStmt} /\ m.query \in Queries \cup {NoQuery}
      /\ ~ EndsCycle(m)
  BY <1>1, <1>2 DEF ClientMsg, EndsCycle
<1>4. CASE ReadParse
  <2>1. /\ m.type = "P"
        /\ IF m.query # NoQuery THEN trySend(m.query, m.cycle) ELSE UNCHANGED pending
    BY <1>4 DEF ReadParse, ReadClient
  <2>2. CapturesAhead(n + 1) <=> m.query # NoQuery
    BY <1>2, <2>1 DEF CapturesAhead, IsParse
  <2>3. QED BY <1>1, <1>2, <1>3, <2>1, <2>2
<1>5. CASE ReadBind
  <2>1. /\ m.type = "B"
        /\ IF ~ parseSeen /\ m.stmt \in Stmts /\ preparedStmts[m.stmt] # NoQuery
           THEN trySend(preparedStmts[m.stmt], m.cycle)
           ELSE UNCHANGED pending
    BY <1>5 DEF ReadBind, ReadClient
  <2>2. /\ parseSeen <=> \E j \in 1 .. n : IsParse(program[j]) /\ program[j].cycle = m.cycle
        /\ \A s \in Stmts : preparedStmts[s] # NoQuery <=>
             \E j \in 1 .. n : IsParse(program[j]) /\ program[j].stmt = s
    BY <1>2, Zenon DEF Known
  <2>3. CapturesAhead(n + 1)
        <=> /\ m.stmt # NoStmt
            /\ \E j \in 1 .. n : IsParse(program[j]) /\ program[j].stmt = m.stmt
            /\ \A j \in 1 .. n : IsParse(program[j]) => program[j].cycle # m.cycle
    <3>1. (n + 1) - 1 = n /\ ~ IsParse(m)
      BY <1>2, <2>1 DEF IsParse
    <3>2. QED BY <1>2, <2>1, <3>1, Zenon DEF CapturesAhead
  <2>4. m.stmt \in Stmts <=> m.stmt # NoStmt
    BY <1>3, NamesAssumption
  <2>5. CapturesAhead(n + 1) <=> ~ parseSeen /\ m.stmt \in Stmts /\ preparedStmts[m.stmt] # NoQuery
    BY <2>2, <2>3, <2>4, Zenon
  <2>6. m.stmt \in Stmts => preparedStmts[m.stmt] \in Queries \cup {NoQuery}
    BY DEF Inv, Types
  <2>7. QED BY <1>1, <1>2, <1>3, <2>1, <2>5, <2>6, Zenon
<1>6. QED BY <1>4, <1>5

(* A cycle is in pending from its capture to its report. *)
LEMMA QueuedStep ==
  ASSUME Inv, Next, OneCapturePerCycle, Ahead < PendingCap, Captures
  PROVE  Queued'
<1> DEFINE n == Consumed
           c == CycleAfter(program, Consumed)
           m == Head(toProxy)
<1>1. /\ Len(events) + Len(pending) = IF CapturedNow THEN c ELSE c - 1
      /\ \A i \in 1 .. Len(pending) : pending[i].cycle = Len(events) + i
      /\ pending \in Seq(Pending) /\ Len(pending) \in Nat
      /\ events \in Seq(Event) /\ Len(events) \in Nat
      /\ UNCHANGED program
  BY ProgramStays DEF Inv, Types, Captures, Queued
<1>2. CASE ReadSync
  <2>1. /\ toProxy # <<>> /\ m.type = "S" /\ toProxy' = Tail(toProxy)
        /\ UNCHANGED <<sent, pending, events>>
    BY <1>2 DEF ReadSync, ReadClient, clientVars, s2cVars, chanVars
  <2>2. CapturedNow /\ EndsCycle(m) /\ c \in Nat
    BY <2>1, CapturedBySync, ReadFacts
  <2>3. ~ CapturedNow' /\ CycleAfter(program', Consumed') = c + 1
    BY <1>1, <2>1, <2>2, ReadNext
  <2> HIDE DEF c, m
  <2>4. QED BY <1>1, <2>1, <2>2, <2>3 DEF Queued
<1>3. CASE ReadOther \/ ReadTerminate
  <2>1. /\ toProxy # <<>> /\ m.type \in {"E", "X"} /\ toProxy' = Tail(toProxy)
        /\ UNCHANGED <<sent, pending, events>>
    BY <1>3 DEF ReadOther, ReadTerminate, ReadClient, clientVars, s2cVars, chanVars
  <2>2. ~ EndsCycle(m) /\ ~ CapturesAhead(n + 1)
    <3>1. m = program[n + 1]
      BY <2>1, ReadFacts
    <3>2. QED BY <2>1, <3>1 DEF EndsCycle, CapturesAhead, IsParse
  <2>3. (CapturedNow' <=> CapturedNow) /\ CycleAfter(program', Consumed') = c
    BY <1>1, <2>1, <2>2, ReadNext
  <2> HIDE DEF c, m
  <2>4. QED BY <1>1, <2>1, <2>3 DEF Queued
<1>4. CASE ReadParse \/ ReadBind
  <2>1. /\ toProxy # <<>> /\ toProxy' = Tail(toProxy) /\ UNCHANGED <<sent, events>>
        /\ m.cycle \in Nat /\ m.cycle = c /\ ~ EndsCycle(m)
        /\ IF CapturesAhead(n + 1)
           THEN \E text \in Queries \cup {NoQuery} : trySend(text, m.cycle)
           ELSE UNCHANGED pending
    BY <1>4, CaptureStep DEF Captures
  <2>2. /\ CapturedNow' <=> CapturesAhead(n + 1) \/ CapturedNow
        /\ CycleAfter(program', Consumed') = c
    BY <1>1, <2>1, ReadNext
  <2>3. CASE CapturesAhead(n + 1)
    <3>1. Len(pending) < PendingCap /\ Len(events) + Len(pending) = c - 1
      BY <2>1, <2>3, Room
    <3>2. /\ Len(pending') = Len(pending) + 1 /\ pending'[Len(pending) + 1].cycle = m.cycle
          /\ \A i \in 1 .. Len(pending) : pending'[i] = pending[i]
      <4>1. PICK text \in Queries \cup {NoQuery} : trySend(text, m.cycle)
        BY <2>1, <2>3
      <4>2. QED BY <2>1, <3>1, <4>1, TrySendType DEF Inv
    <3> HIDE DEF c, m
    <3>3. Len(events) + Len(pending') = c
      <4>1. c \in Nat
        BY <2>1
      <4>2. Len(events) \in Nat /\ Len(pending) \in Nat
        BY <1>1
      <4>3. QED BY <3>1, <3>2, <4>1, <4>2
    <3>4. \A i \in 1 .. Len(pending') : pending'[i].cycle = Len(events) + i
      <4>1. \A i \in 1 .. Len(pending') : i \in 1 .. Len(pending) \/ i = Len(pending) + 1
        BY <1>1, <3>2
      <4>2. m.cycle = Len(events) + (Len(pending) + 1)
        BY <1>1, <2>1, <3>1
      <4>3. QED BY <1>1, <3>2, <4>1, <4>2
    <3>5. QED BY <2>1, <2>2, <2>3, <3>3, <3>4 DEF Queued
  <2>4. CASE ~ CapturesAhead(n + 1)
    <3> HIDE DEF c, m
    <3>1. QED BY <1>1, <2>1, <2>2, <2>4 DEF Queued
  <2>5. QED BY <2>3, <2>4
<1>5. CASE ReadyForQuery
  <2>1. /\ UNCHANGED <<sent, toProxy>> /\ s2c.pc = "ready"
        /\ IF pending # <<>>
           THEN /\ \E e \in Event : events' = Append(events, e)
                /\ pending' = Tail(pending)
           ELSE UNCHANGED <<events, pending>>
    <3>1. events' \in Seq(Event)
      BY TypesStep DEF Types
    <3>2. /\ UNCHANGED <<sent, toProxy>> /\ s2c.pc = "ready"
          /\ IF pending # <<>>
             THEN (\E e : events' = Append(events, e)) /\ pending' = Tail(pending)
             ELSE UNCHANGED <<events, pending>>
      BY <1>5 DEF ReadyForQuery, clientVars
    <3>3. \A e : Append(events, e) \in Seq(Event) => e \in Event
      BY <1>1
    <3>4. QED BY <3>1, <3>2, <3>3
  <2>2. Consumed' = Consumed
    BY <2>1 DEF Consumed
  <2>3. (CapturedNow' <=> CapturedNow) /\ CycleAfter(program', Consumed') = c
    BY <1>1, <2>2 DEF CapturedNow, CapturesAhead, IsParse
  <2> HIDE DEF c
  <2>4. CASE pending = <<>>
    BY <1>1, <2>1, <2>3, <2>4 DEF Queued
  <2>5. CASE pending # <<>>
    <3>1. /\ Len(events') = Len(events) + 1 /\ Len(pending') = Len(pending) - 1
          /\ \A i \in 1 .. Len(pending') : i + 1 \in 1 .. Len(pending) /\ pending'[i] = pending[i + 1]
      <4>1. PICK e : events' = Append(events, e)
        BY <2>1, <2>5
      <4>2. pending' = Tail(pending)
        BY <2>1, <2>5
      <4>3. QED BY <1>1, <2>5, <4>1, <4>2, AppendTail
    <3>2. Len(events') + Len(pending') = Len(events) + Len(pending)
      BY <1>1, <3>1
    <3>3. \A i \in 1 .. Len(pending') : pending'[i].cycle = Len(events') + i
      <4> SUFFICES ASSUME NEW i \in 1 .. Len(pending') PROVE pending'[i].cycle = Len(events') + i
        OBVIOUS
      <4>1. pending'[i].cycle = Len(events) + (i + 1)
        BY <1>1, <3>1
      <4>2. i \in Nat /\ Len(events) \in Nat /\ Len(events') = Len(events) + 1
        BY <1>1, <3>1
      <4>3. QED BY <4>1, <4>2
    <3>4. QED BY <1>1, <2>3, <3>2, <3>3 DEF Queued
  <2>6. QED BY <2>4, <2>5
<1>6. CASE UNCHANGED <<Consumed, pending, events>>
  <2>1. (CapturedNow' <=> CapturedNow) /\ CycleAfter(program', Consumed') = c
    BY <1>1, <1>6 DEF CapturedNow, CapturesAhead, IsParse
  <2> HIDE DEF c
  <2>2. QED BY <1>1, <1>6, <2>1 DEF Queued
<1>7. CASE ClientSend
  <2>1. Consumed' = Consumed
    <3>1. /\ sent' = sent + 1 /\ toProxy' = Append(toProxy, program[sent + 1])
          /\ sent \in Nat /\ toProxy \in Seq(ClientMsg)
      BY <1>7, RequestFacts DEF ClientSend, Inv, Types
    <3>2. QED BY <3>1 DEF Consumed
  <2>2. QED BY <1>6, <1>7, <2>1 DEF ClientSend, s2cVars, chanVars
<1>8. CASE UNCHANGED <<sent, toProxy, pending, events>>
  BY <1>6, <1>8 DEF Consumed
<1>9. QED
  BY <1>2, <1>3, <1>4, <1>5, <1>7, <1>8, NoSimpleQuery
  DEF Next, ClientRecv, ClientHangUp, C2SStep, Forward, C2SFails, C2SReturns, Serve, ServerHangUp,
      S2CStep, RelayToClient, S2CFails, S2CReturns, HandlerReturns, clientVars, s2cVars, chanVars

(* Each answer reports the query of its cycle. *)
LEMMA ReportedStep ==
  ASSUME Inv, Next, OneCapturePerCycle, Ahead < PendingCap, Captures
  PROVE  Reported'
<1>1. /\ Len(events) = Turn - 1 /\ Turn \in Nat
      /\ \A i \in 1 .. Len(events) : events[i].asked = i /\ events[i].answered = i
      /\ events \in Seq(Event) /\ Len(events) \in Nat
  BY CounterFacts DEF Inv, Types, Captures, Reported
<1>2. CASE ReadyForQuery
  <2> DEFINE R == ReadyIn(said, Relayed)
             e == [query |-> Head(pending).query, asked |-> Head(pending).cycle,
                   answered |-> s2c.msg.cycle, rows |-> rowCount, error |-> lastError]
  <2>1. s2c.pc = "ready" /\ (pending # <<>> => events' = Append(events, e))
    BY <1>2 DEF ReadyForQuery
  <2>2. /\ Turn = R /\ s2c.msg.cycle = R /\ R \in Nat /\ R <= ReadyIn(said, Len(said))
        /\ ReadyIn(said, Len(said)) \in Nat
    BY <2>1, CounterFacts DEF Turn
  <2>3. CycleAfter(program, Consumed) >= R + 1 /\ CycleAfter(program, Consumed) \in Nat
    <3>1. CycleAfter(program, Len(served)) = 1 + ReadyIn(said, Len(said))
      BY DEF Inv, Cycles
    <3>2. Len(served) \in Nat /\ Consumed \in Nat /\ Len(served) <= Consumed
      <4>1. Len(served) \in Nat /\ Len(toServer) \in Nat /\ Consumed \in Nat /\ Written <= Consumed
        BY RequestFacts DEF Inv, Requests
      <4>2. QED BY <4>1 DEF Written
    <3>3. /\ CycleAfter(program, Len(served)) <= CycleAfter(program, Consumed)
          /\ CycleAfter(program, Consumed) \in Nat
      BY <3>2, CycleMonotonic
    <3>4. QED BY <2>2, <3>1, <3>3
  <2>4. pending # <<>> /\ Head(pending).cycle = R
    <3>1. /\ Len(events) + Len(pending) >= CycleAfter(program, Consumed) - 1
          /\ \A i \in 1 .. Len(pending) : pending[i].cycle = Len(events) + i
          /\ pending \in Seq(Pending) /\ Len(pending) \in Nat
      BY <1>1, <2>3 DEF Inv, Types, Captures, Queued
    <3>2. Len(pending) > 0
      BY <1>1, <2>2, <2>3, <3>1
    <3>3. pending # <<>> /\ Head(pending) = pending[1] /\ 1 \in 1 .. Len(pending)
      BY <3>1, <3>2
    <3>4. pending[1].cycle = Len(events) + 1
      BY <3>1, <3>3, Zenon
    <3>5. Len(events) + 1 = R
      BY <1>1, <2>2
    <3>6. QED BY <3>3, <3>4, <3>5, Zenon
  <2>5. e.asked = R /\ e.answered = R
    BY <2>2, <2>4
  <2>6. Turn' = Turn + 1
    BY <1>2, TurnStep
  <2> HIDE DEF e, R
  <2>7. /\ Len(events') = Len(events) + 1
        /\ \A i \in 1 .. Len(events') : \/ i \in 1 .. Len(events) /\ events'[i] = events[i]
                                        \/ i = Len(events) + 1 /\ events'[i] = e
    <3>1. events' = Append(events, e) /\ events \in Seq(Event)
      BY <1>1, <2>1, <2>4
    <3>2. QED BY <3>1, AppendTail
  <2>8. \A i \in 1 .. Len(events') : events'[i].asked = i /\ events'[i].answered = i
    <3>1. R = Len(events) + 1
      BY <1>1, <2>2
    <3>2. QED BY <1>1, <2>5, <2>7, <3>1
  <2>9. QED BY <1>1, <2>6, <2>7, <2>8 DEF Reported
<1>3. CASE ~ ReadyForQuery
  <2>1. Turn' = Turn
    BY <1>3, TurnStep
  <2>2. UNCHANGED events
    BY <1>3
    DEF Next, ClientSend, ClientRecv, ClientHangUp, C2SStep, ReadQuery, CaptureQuery, ReadParse,
        ReadBind, Forward, ReadSync, ReadOther, ReadTerminate, C2SFails, C2SReturns, Serve,
        ServerHangUp, S2CStep, RelayToClient, S2CFails, S2CReturns, HandlerReturns, s2cVars
  <2>3. QED BY <1>1, <2>1, <2>2 DEF Reported
<1>4. QED BY <1>2, <1>3

-----------------------------------------------------------------------------
(* The theorems. *)

(* All but who is still there. *)
relayVars == <<program, sent, clientGot, c2sVars, served, skipping, said, s2cVars,
               pending, pendingClosed, errCh, toProxy, toServer, fromServer, toClient>>

(* Inv does not ask who is still there. *)
LEMMA InvKept ==
  ASSUME Inv, UNCHANGED relayVars
  PROVE  Inv'
<1>1. UNCHANGED <<program, sent, clientGot, c2s, preparedStmts, parseSeen, served, said, s2c,
                  rowCount, lastError, events, pending, toProxy, toServer, fromServer, toClient>>
  BY DEF relayVars, c2sVars, s2cVars
<1>2. Types' /\ Requests' /\ Answers' /\ Cycles'
  BY <1>1 DEF Inv, Types, Requests, Answers, Cycles, InCycles, Consumed, Written, Relayed
<1>3. UNCHANGED <<Relayed, Turn, Consumed, Answered, CapturedNow, OneCapturePerCycle>>
  BY <1>1 DEF Relayed, Turn, Consumed, Answered, CapturedNow, OneCapturePerCycle, CapturesAhead, IsParse
<1>4. Counters' /\ Paced'
  BY <1>1, <1>3, Zenon DEF Inv, Counters, Paced
<1>5. Pairing'
  BY <1>1, <1>3, Zenon DEF Inv, Pairing, Captures, Known, Queued, Reported, IsParse
<1>6. QED BY <1>2, <1>4, <1>5 DEF Inv

(* Every step keeps the invariant. *)
LEMMA InvInductive == Inv /\ [Next]_vars => Inv'
<1> SUFFICES ASSUME Inv, [Next]_vars PROVE Inv'
  OBVIOUS
<1>1. CASE Next
  <2>1. Types' /\ Requests' /\ Answers' /\ Cycles' /\ Counters' /\ Paced'
    BY <1>1, TypesStep, RequestsStep, AnswersStep, CyclesStep, CountersStep, PacedStep
  <2>2. Pairing'
    <3>1. OneCapturePerCycle' <=> OneCapturePerCycle
      <4>1. program' = program
        BY <1>1, ProgramStays
      <4>2. UNCHANGED OneCapturePerCycle
        BY <4>1 DEF OneCapturePerCycle, CapturesAhead, IsParse
      <4>3. QED BY <4>2
    <3>2. ASSUME OneCapturePerCycle, Ahead < PendingCap PROVE Captures'
      <4>1. Captures
        BY <3>2 DEF Inv, Pairing
      <4>2. Known' /\ Queued' /\ Reported'
        BY <1>1, <3>2, <4>1, KnownStep, QueuedStep, ReportedStep DEF Captures
      <4>3. QED BY <4>2 DEF Captures
    <3>3. QED BY <3>1, <3>2 DEF Pairing
  <2>3. QED BY <2>1, <2>2 DEF Inv
<1>2. CASE UNCHANGED vars
  BY <1>2, InvKept DEF relayVars, vars, clientVars, c2sVars, serverVars, s2cVars, chanVars
<1>3. QED BY <1>1, <1>2

(* The invariant of the relay, for any client programs. *)
THEOREM AlwaysInv == Spec => []Inv
<1>1. Init => Inv
  BY InitInv
<1>2. Inv /\ [Next]_vars => Inv'
  BY InvInductive
<1>3. QED BY <1>1, <1>2, PTL DEF Spec

(* The segments of the streams make up the program and the answers. *)
LEMMA InvTransparent == Inv => TransparentRelay
<1> SUFFICES ASSUME Inv, c2s.pc \notin Ended
             PROVE  /\ served \o toServer \o InHand \o toProxy = SubSeq(program, 1, sent)
                    /\ clientGot \o toClient \o fromServer = said
  BY DEF TransparentRelay, Ended
<1>1. Types /\ Requests /\ Answers
  BY DEF Inv
<1>2. /\ program \in Seq(ClientMsg) /\ Len(program) \in Nat /\ Consumed \in Nat
      /\ Consumed + Len(toProxy) = sent /\ sent <= Len(program) /\ Len(toProxy) \in Nat
  BY <1>1, RequestFacts
<1>3. /\ Segment(served \o toServer, program, 0) /\ Len(served \o toServer) = Written
      /\ served \o toServer \in Seq(ClientMsg) /\ Written \in Nat
  BY <1>1, <1>2, RequestFacts, SegmentConcat DEF Types, Requests, Written
<1>4. /\ InHand \in Seq(ClientMsg) /\ Segment(InHand, program, Written)
      /\ Written + Len(InHand) = Consumed
  <2>1. CASE c2s.pc = "forward"
    <3>1. /\ InHand = <<c2s.msg>> /\ c2s.msg \in ClientMsg /\ Written + 1 = Consumed
          /\ c2s.msg = program[Consumed] /\ Consumed <= Len(program)
      BY <1>1, <1>2, <2>1 DEF InHand, Types, Requests
    <3>2. QED BY <1>3, <3>1 DEF Segment
  <2>2. CASE c2s.pc # "forward"
    <3>1. InHand = <<>> /\ Written = Consumed
      BY <1>1, <2>2 DEF InHand, Types, Requests
    <3>2. Written \in 0 .. Len(program)
      BY <1>2, <3>1
    <3>3. QED BY <1>2, <3>1, <3>2 DEF Segment
  <2>3. QED BY <2>1, <2>2
<1>5. /\ Segment(served \o toServer \o InHand, program, 0)
      /\ Len(served \o toServer \o InHand) = Consumed
      /\ served \o toServer \o InHand \in Seq(ClientMsg)
  BY <1>2, <1>3, <1>4, SegmentConcat
<1>6. /\ Segment(served \o toServer \o InHand \o toProxy, program, 0)
      /\ Len(served \o toServer \o InHand \o toProxy) = sent
      /\ served \o toServer \o InHand \o toProxy \in Seq(ClientMsg)
  <2>1. PICK s \in Seq(ClientMsg) : s = served \o toServer \o InHand
    BY <1>5
  <2>2. toProxy \in Seq(ClientMsg) /\ Segment(toProxy, program, Len(s)) /\ Segment(s, program, 0)
    BY <1>1, <1>5, <2>1 DEF Types, Requests
  <2>3. /\ Segment(s \o toProxy, program, 0) /\ Len(s \o toProxy) = Len(s) + Len(toProxy)
        /\ s \o toProxy \in Seq(ClientMsg)
    BY <1>2, <2>2, SegmentConcat
  <2>4. QED BY <1>2, <1>5, <2>1, <2>3
<1>7. served \o toServer \o InHand \o toProxy = SubSeq(program, 1, sent)
  BY <1>2, <1>6, SegmentPrefix
<1>8. /\ Segment(clientGot \o toClient, said, 0) /\ Len(clientGot \o toClient) = Relayed
      /\ clientGot \o toClient \in Seq(ServerMsg) /\ said \in Seq(ServerMsg)
  BY <1>1, SegmentConcat DEF Types, Answers, Relayed
<1>9. /\ Segment(clientGot \o toClient \o fromServer, said, 0)
      /\ Len(clientGot \o toClient \o fromServer) = Len(said)
      /\ clientGot \o toClient \o fromServer \in Seq(ServerMsg)
  <2>1. PICK s \in Seq(ServerMsg) : s = clientGot \o toClient
    BY <1>8
  <2>2. /\ fromServer \in Seq(ServerMsg) /\ Segment(fromServer, said, Len(s))
        /\ Segment(s, said, 0) /\ Len(s) + Len(fromServer) = Len(said)
    BY <1>1, <1>8, <2>1 DEF Types, Answers
  <2>3. /\ Segment(s \o fromServer, said, 0) /\ Len(s \o fromServer) = Len(s) + Len(fromServer)
        /\ s \o fromServer \in Seq(ServerMsg)
    BY <1>8, <2>2, SegmentConcat
  <2>4. QED BY <2>1, <2>2, <2>3
<1>10. clientGot \o toClient \o fromServer = said
  <2>1. clientGot \o toClient \o fromServer = SubSeq(said, 1, Len(said))
    BY <1>8, <1>9, SegmentPrefix
  <2>2. SubSeq(said, 1, Len(said)) = said
    BY <1>8
  <2>3. QED BY <2>1, <2>2
<1>11. QED BY <1>7, <1>10

(* Whatever client and server say, and however c2s and s2c interleave, the *)
(* proxy passes every message on, once and in order.                       *)
THEOREM RelayAlwaysTransparent == Spec => []TransparentRelay
BY InvTransparent, AlwaysInv, PTL

(* The counts of Counters are those of the property. *)
LEMMA InvCountsOneCycle == Inv => EventCountsOneCycle
<1> SUFFICES ASSUME Inv, NEW i \in DOMAIN events
             PROVE  /\ events[i].rows = RowsOf(events[i].answered)
                    /\ events[i].error = ErrorIn(events[i].answered)
  BY DEF EventCountsOneCycle
<1>1. PICK c : c = events[i].answered
  OBVIOUS
<1>2. i \in 1 .. Len(events) /\ DOMAIN said = 1 .. Len(said)
  BY DEF Inv, Types
<1>3. events[i].rows = RowsIn(said, Len(said), c) /\ events[i].error = FailedIn(said, Len(said), c)
  BY <1>1, <1>2, Zenon DEF Inv, Counters
<1>4. RowsIn(said, Len(said), c) = RowsOf(c)
  <2>1. {n \in 1 .. Len(said) : n \in {k \in DOMAIN said : said[k] = [type |-> "D", cycle |-> c]}}
          = {n \in DOMAIN said : said[n] = [type |-> "D", cycle |-> c]}
    BY <1>2
  <2>2. QED BY <2>1, Zenon DEF RowsIn, UpTo, RowsOf
<1>5. FailedIn(said, Len(said), c) = ErrorIn(c)
  BY <1>2, Zenon DEF FailedIn, ErrorIn
<1>6. QED BY <1>1, <1>3, <1>4, <1>5, Zenon

(* An event never mixes the rows or the error of two cycles, also if the   *)
(* client pipelines and if some cycles report no event.                    *)
THEOREM EventsAlwaysCountOneCycle == Spec => []EventCountsOneCycle
BY InvCountsOneCycle, AlwaysInv, PTL

(* As many events as cycles that have ended, each with its own number. *)
LEMMA InvReports == Inv => OneStatementPerSync
<1> SUFFICES ASSUME Inv, OneCapturePerCycle, Ahead < PendingCap PROVE EventsMatchCycles
  BY DEF OneStatementPerSync
<1>1. Reported /\ events \in Seq(Event)
  BY DEF Inv, Types, Pairing, Captures
<1>2. \A i \in DOMAIN events : events[i].asked = i /\ events[i].answered = i
  BY <1>1 DEF Reported
<1>3. ASSUME s2c.pc = "read"
      PROVE  Len(events) = Cardinality({i \in DOMAIN (clientGot \o toClient) :
                                          (clientGot \o toClient)[i].type = "Z"})
  <2>1. /\ Segment(clientGot \o toClient, said, 0) /\ Len(clientGot \o toClient) = Relayed
        /\ clientGot \o toClient \in Seq(ServerMsg) /\ said \in Seq(ServerMsg)
    BY SegmentConcat DEF Inv, Types, Answers, Relayed
  <2>2. PICK relayed \in Seq(ServerMsg) : relayed = clientGot \o toClient
    BY <2>1
  <2>3. Cardinality({i \in DOMAIN relayed : relayed[i].type = "Z"}) = ReadyIn(said, Relayed)
    BY <2>1, <2>2, ReadyCount
  <2>4. Len(events) = Turn - 1 /\ Turn = ReadyIn(said, Relayed) + 1 /\ ReadyIn(said, Relayed) \in Nat
    BY <1>1, <1>3, CounterFacts DEF Reported, Turn
  <2>5. Len(events) = Cardinality({i \in DOMAIN relayed : relayed[i].type = "Z"})
    BY <2>3, <2>4
  <2>6. QED BY <2>2, <2>5, Zenon
<1>4. QED BY <1>2, <1>3 DEF EventsMatchCycles

(* For any number of cycles, rows and statements, and any pending buffer   *)
(* larger than the client's lead: one statement per Sync, one event each.  *)
THEOREM StatementsAlwaysReported == Spec => []OneStatementPerSync
BY InvReports, AlwaysInv, PTL

-----------------------------------------------------------------------------
(* The handshake, for any attempts of the client and any login of the      *)
(* server that ends where the protocol ends it.                            *)

Asks     == {"Rpassword", "Rsasl", "Rcontinue"}
Plain(s) == s \in Seq(LoginMessages) /\ \A i \in DOMAIN s : s[i] \notin Asks

(* What the server has said and the proxy has not read ends with a request *)
(* to the client, or with the login.                                       *)
Batch(s, auth, up) ==
  /\ s \in Seq(LoginMessages) /\ s # <<>>
  /\ \A i \in 1 .. Len(s) - 1 : s[i] \notin Asks \cup {"Z", "E"}
  /\ \/ s[Len(s)] \in Asks /\ IsLogin(auth)
     \/ s[Len(s)] = "Z" /\ auth = <<>>
     \/ s[Len(s)] = "E" /\ ~ up

(* Where the handshake may be while the proxy reads first messages: the    *)
(* client is to try the next one, has tried it, the server is asked for    *)
(* encryption, has replied, or its refusal is on the way to the client.    *)
ToTry ==
  /\ stage \in {"dial", "first"} /\ ~ waiting
  /\ cin = <<>> /\ sin = <<>> /\ sout = <<>> /\ cout = <<>>
Tried ==
  /\ stage \in {"dial", "first"} /\ waiting
  /\ \E m \in FirstMessages : cin = <<m>> /\ (m = "Startup" => tries = <<>>)
  /\ sin = <<>> /\ sout = <<>> /\ cout = <<>>
SSLAsked ==
  /\ stage = "reply" /\ waiting
  /\ cin = <<>> /\ sin = <<>> /\ sout = <<"SSLRequest">> /\ cout = <<>>
SSLReplied ==
  /\ stage = "reply" /\ waiting
  /\ cin = <<>> /\ sin \in {<<"N">>, <<"S">>} /\ sout = <<>> /\ cout = <<>>
SSLRefused ==
  /\ stage = "first" /\ waiting
  /\ cin = <<>> /\ sin = <<>> /\ sout = <<>> /\ cout = <<"N">>

BeforeLogin ==
  /\ IsAttempt(tries) /\ server.ssl \in {"N", "S"} /\ IsLogin(server.auth)
  /\ ToTry \/ Tried \/ SSLAsked \/ SSLReplied \/ SSLRefused

(* Where it may be from the message on that is taken for the startup: it is*)
(* on its way, its refusal cannot be read, the server is gone, it logs the *)
(* client in, or the client is asked, has answered, and is passed on.      *)
FirstSent ==
  /\ stage = "auth" /\ cin = <<>> /\ sin = <<>> /\ cout = <<>> /\ IsLogin(server.auth)
  /\ \E m \in FirstMessages \ {"SSLRequest", "Junk"} :
       sout = <<m>> /\ (m = "Startup" => tries = <<>>)
Unread == stage = "auth" /\ cin = <<>> /\ sin = <<"N">> /\ sout = <<>> /\ cout = <<>>
Over   == stage = "auth" /\ sin = <<>> /\ sout = <<>> /\ ~ serverUp
LoggingIn ==
  /\ stage = "auth" /\ tries = <<>> /\ Batch(sin, server.auth, serverUp)
  /\ cin = <<>> /\ sout = <<>> /\ Plain(cout)
ClientAsked ==
  /\ stage = "answer" /\ tries = <<>> /\ IsLogin(server.auth)
  /\ cin = <<>> /\ sin = <<>> /\ sout = <<>>
  /\ cout \in Seq(LoginMessages) /\ cout # <<>>
  /\ \A i \in 1 .. Len(cout) : cout[i] \in Asks <=> i = Len(cout)
AnswerIn ==
  /\ stage = "answer" /\ tries = <<>> /\ IsLogin(server.auth)
  /\ cin = <<"p">> /\ sin = <<>> /\ sout = <<>> /\ cout = <<>>
AnswerSent ==
  /\ stage = "auth" /\ tries = <<>> /\ IsLogin(server.auth)
  /\ cin = <<>> /\ sin = <<>> /\ sout = <<"p">> /\ cout = <<>>
Ready ==
  /\ stage = "relay" /\ tries = <<>> /\ server.auth = <<>>
  /\ cin = <<>> /\ sin = <<>> /\ sout = <<>> /\ Plain(cout)

FromLogin ==
  waiting /\ (FirstSent \/ Unread \/ LoggingIn \/ ClientAsked \/ AnswerIn \/ AnswerSent \/ Ready)

(* The connection may also be closed, encrypted, or without a server.      *)
Handshake ==
  \/ handler # "wait" /\ stage # "relay"
  \/ stage = "pipe"
  \/ Over
  \/ BeforeLogin
  \/ FromLogin

Untimed == stage = "relay" => deadline = "none"

ConnInv == Handshake /\ Untimed

-----------------------------------------------------------------------------
(* Lemmas about messages. *)

(* Every non-empty set of natural numbers has a least. *)
LEMMA LeastOf ==
  ASSUME NEW S \in SUBSET Nat, S # {}
  PROVE  \E m \in S : \A y \in S : m <= y
<1> DEFINE R == {p \in Nat \X Nat : p[1] < p[2]}
<1>1. IsWellFoundedOn(R, Nat)
  BY NatLessThanWellFounded DEF OpToRel
<1> HIDE DEF R
<1>2. \E x \in S : \A y \in S : <<y, x>> \notin R
  BY <1>1, WFMin
<1>3. PICK x \in S : \A y \in S : ~ (y < x)
  BY <1>2 DEF R
<1>4. QED BY <1>3

(* It is what Min picks. *)
LEMMA MinIn ==
  ASSUME NEW S \in SUBSET Nat, S # {}
  PROVE  Min(S) \in S /\ \A y \in S : Min(S) <= y
BY LeastOf, Zenon DEF Min

(* A login is a sequence of messages that ends with its first Z or E. *)
LEMMA LoginFacts ==
  ASSUME NEW auth, IsLogin(auth)
  PROVE  /\ Len(auth) \in Nat /\ Len(auth) >= 1
         /\ \A i \in 1 .. Len(auth) : auth[i] \in LoginMessages
         /\ \A i \in 1 .. Len(auth) - 1 : auth[i] \notin {"Z", "E"}
         /\ auth[Len(auth)] \in {"Z", "E"}
<1>1. auth \in Seq(LoginMessages) /\ auth # <<>>
  BY DEF IsLogin
<1>2. /\ Len(auth) \in Nat /\ Len(auth) >= 1 /\ DOMAIN auth = 1 .. Len(auth)
      /\ \A i \in 1 .. Len(auth) : auth[i] \in LoginMessages
  BY <1>1, EmptySeq, LenProperties, ElementOfSeq
<1>3. \A i \in 1 .. Len(auth) : auth[i] \in {"Z", "E"} <=> i = Len(auth)
  BY <1>2, Zenon DEF IsLogin
<1>4. Len(auth) \in Nat /\ Len(auth) >= 1
  BY <1>2
<1>5. \A i \in 1 .. Len(auth) - 1 : i \in 1 .. Len(auth) /\ i # Len(auth)
  BY <1>4
<1>6. Len(auth) \in 1 .. Len(auth)
  BY <1>4
<1>7. QED BY <1>2, <1>3, <1>5, <1>6, Zenon

(* The server says its part of a login up to the first request.            *)
LEMMA UpToAsk ==
  ASSUME NEW auth, IsLogin(auth)
  PROVE  /\ UpToRequest(auth) \in 1 .. Len(auth)
         /\ \A i \in 1 .. UpToRequest(auth) - 1 : auth[i] \notin Asks \cup {"Z", "E"}
         /\ \/ auth[UpToRequest(auth)] \in Asks /\ UpToRequest(auth) < Len(auth)
            \/ UpToRequest(auth) = Len(auth) /\ auth[Len(auth)] \in {"Z", "E"}
<1>1. /\ Len(auth) \in Nat /\ Len(auth) >= 1
      /\ \A i \in 1 .. Len(auth) - 1 : auth[i] \notin {"Z", "E"}
      /\ auth[Len(auth)] \in {"Z", "E"}
  BY LoginFacts
<1>2. PICK I : I = {i \in 1 .. Len(auth) : auth[i] \in Asks}
  OBVIOUS
<1>3. I \in SUBSET Nat
  BY <1>1, <1>2
<1>4. UpToRequest(auth) = IF I = {} THEN Len(auth) ELSE Min(I)
  <2>1. UpToRequest(auth) = LET i == IF I # {} THEN Min(I) ELSE 0 IN IF i = 0 THEN Len(auth) ELSE i
    BY <1>2, Zenon DEF UpToRequest, SelectInSeq, Asks
  <2>2. I # {} => Min(I) # 0
    <3>1. 0 \notin I
      BY <1>1, <1>2
    <3>2. QED BY <1>3, <3>1, MinIn, Zenon
  <2>3. QED BY <2>1, <2>2, Zenon
<1>5. CASE I = {}
  <2>1. \A i \in 1 .. Len(auth) : auth[i] \notin Asks
    BY <1>2, <1>5, Zenon
  <2>2. QED BY <1>1, <1>4, <1>5, <2>1
<1>6. CASE I # {}
  <2>1. PICK m : m = Min(I)
    OBVIOUS
  <2>2. m \in I /\ \A y \in I : m <= y
    BY <1>3, <1>6, <2>1, MinIn, Zenon
  <2>3. m \in 1 .. Len(auth) /\ auth[m] \in Asks
    BY <1>2, <2>2
  <2>4. m # Len(auth)
    BY <1>1, <2>3 DEF Asks
  <2>5. \A i \in 1 .. m - 1 : auth[i] \notin Asks
    <3> TAKE i \in 1 .. m - 1
    <3>1. i \in 1 .. Len(auth) /\ i < m
      BY <1>1, <2>3
    <3>2. ~ (m <= i)
      BY <2>3, <3>1
    <3>3. i \notin I
      BY <2>2, <3>2, Zenon
    <3>4. QED BY <1>2, <3>1, <3>3, Zenon
  <2>6. QED BY <1>1, <1>4, <1>6, <2>1, <2>3, <2>4, <2>5
<1>7. QED BY <1>5, <1>6

(* What it says is a batch, and the rest is what is left of its login.     *)
LEMMA ServerSays ==
  ASSUME NEW auth, IsLogin(auth), NEW n, n = UpToRequest(auth), NEW up \in BOOLEAN,
         up <=> Last(SubSeq(auth, 1, n)) # "E"
  PROVE  Batch(SubSeq(auth, 1, n), SubSeq(auth, n + 1, Len(auth)), up)
<1>1. /\ Len(auth) \in Nat /\ Len(auth) >= 1
      /\ \A i \in 1 .. Len(auth) : auth[i] \in LoginMessages
      /\ \A i \in 1 .. Len(auth) - 1 : auth[i] \notin {"Z", "E"}
      /\ auth[Len(auth)] \in {"Z", "E"}
  BY LoginFacts
<1>2. /\ n \in 1 .. Len(auth)
      /\ \A i \in 1 .. n - 1 : auth[i] \notin Asks \cup {"Z", "E"}
      /\ \/ auth[n] \in Asks /\ n < Len(auth)
         \/ n = Len(auth) /\ auth[Len(auth)] \in {"Z", "E"}
  BY UpToAsk, Zenon
<1>3. PICK s : s = SubSeq(auth, 1, n)
  OBVIOUS
<1>4. PICK t : t = SubSeq(auth, n + 1, Len(auth))
  OBVIOUS
<1>5. s \in Seq(LoginMessages) /\ Len(s) = n /\ \A i \in 1 .. n : s[i] = auth[i]
  <2>1. \A i \in 1 .. n : auth[i] \in LoginMessages
    BY <1>1, <1>2
  <2>2. QED BY <1>2, <1>3, <2>1, SubSeqProperties
<1>6. /\ t \in Seq(LoginMessages) /\ Len(t) = Len(auth) - n
      /\ \A i \in 1 .. Len(auth) - n : t[i] = auth[n + i]
  <2>1. \A i \in n + 1 .. Len(auth) : auth[i] \in LoginMessages
    BY <1>1, <1>2
  <2>2. n + 1 \in Int /\ Len(auth) \in Int
    BY <1>1, <1>2
  <2>3. /\ t \in Seq(LoginMessages)
        /\ Len(t) = IF n + 1 <= Len(auth) THEN Len(auth) - (n + 1) + 1 ELSE 0
        /\ \A i \in 1 .. Len(auth) - (n + 1) + 1 : t[i] = auth[(n + 1) + i - 1]
    BY <1>4, <2>1, <2>2, SubSeqProperties
  <2>4. QED BY <1>1, <1>2, <2>3
<1>7. s # <<>> /\ Last(s) = s[n]
  BY <1>2, <1>5 DEF Last
<1>8. \A i \in 1 .. Len(s) - 1 : s[i] \notin Asks \cup {"Z", "E"}
  BY <1>2, <1>5
<1>9. CASE auth[n] \in Asks /\ n < Len(auth)
  <2>1. n \in Nat /\ n >= 1 /\ Len(t) \in Nat /\ Len(t) >= 1 /\ Len(auth) = n + Len(t)
    <3>1. n \in 1 .. Len(auth) /\ n < Len(auth) /\ Len(auth) \in Nat
      BY <1>1, <1>2, <1>9
    <3>2. Len(t) = Len(auth) - n
      BY <1>6
    <3>3. QED BY <3>1, <3>2
  <2>2. \A i \in 1 .. Len(t) : t[i] \in {"Z", "E"} <=> i = Len(t)
    <3> TAKE i \in 1 .. Len(t)
    <3>1. t[i] = auth[n + i] /\ n + i \in 1 .. Len(auth)
      <4>1. i \in 1 .. Len(auth) - n /\ n + i \in 1 .. Len(auth)
        BY <2>1
      <4>2. QED BY <1>6, <4>1
    <3>2. CASE i = Len(t)
      BY <1>1, <2>1, <3>1, <3>2
    <3>3. CASE i # Len(t)
      <4>1. n + i \in 1 .. Len(auth) - 1
        BY <2>1, <3>3
      <4>2. QED BY <1>1, <3>1, <3>3, <4>1
    <3>4. QED BY <3>2, <3>3
  <2>3. t # <<>> /\ DOMAIN t = 1 .. Len(t)
    BY <1>6, <2>1, LenProperties, EmptySeq
  <2>4. IsLogin(t)
    BY <1>6, <2>2, <2>3, Zenon DEF IsLogin
  <2>5. s[Len(s)] \in Asks
    BY <1>2, <1>5, <1>9
  <2>6. QED BY <1>3, <1>4, <1>5, <1>7, <1>8, <2>4, <2>5, Zenon DEF Batch
<1>10. CASE n = Len(auth) /\ auth[Len(auth)] \in {"Z", "E"}
  <2>1. t = <<>>
    BY <1>1, <1>4, <1>10, SubSeqEmpty
  <2>2. up <=> s[n] # "E"
    BY <1>3, <1>7, Zenon
  <2>3. s[Len(s)] = auth[Len(auth)]
    BY <1>2, <1>5, <1>10
  <2>4. (s[Len(s)] = "Z" /\ t = <<>>) \/ (s[Len(s)] = "E" /\ ~ up)
    BY <1>5, <1>10, <2>1, <2>2, <2>3
  <2>5. QED BY <1>3, <1>4, <1>5, <1>7, <1>8, <2>4, Zenon DEF Batch
<1>11. QED BY <1>2, <1>9, <1>10

-----------------------------------------------------------------------------
(* The steps of the handshake. *)

(* A connection begins with a client that is to try its first message. *)
LEMMA ConnInitInv == ConnInit => ConnInv
<1> SUFFICES ASSUME ConnInit PROVE ConnInv
  OBVIOUS
<1>1. IsAttempt(tries) /\ server.ssl \in {"N", "S"} /\ IsLogin(server.auth)
  BY ClientsAssumption, ServersAssumption DEF ConnInit
<1>2. QED BY <1>1 DEF ConnInit, ConnInv, Handshake, Untimed, BeforeLogin, ToTry

(* A step that leaves the handshake alone, or closes the connection.       *)
LEMMA HandshakeKept ==
  ASSUME ConnInv,
         UNCHANGED <<stage, tries, waiting, server, cin, sin, cout, sout>>,
         handler # "wait" => handler' # "wait", serverUp' => serverUp,
         stage = "relay" => deadline' = "none"
  PROVE  ConnInv'
<1>1. UNCHANGED BeforeLogin
  BY DEF BeforeLogin, ToTry, Tried, SSLAsked, SSLReplied, SSLRefused
<1>2. UNCHANGED <<FirstSent, Unread, ClientAsked, AnswerIn, AnswerSent, Ready>>
  BY DEF FirstSent, Unread, ClientAsked, AnswerIn, AnswerSent, Ready
<1>3. (LoggingIn => LoggingIn') /\ (Over => Over')
  BY DEF LoggingIn, Over, Batch
<1>4. FromLogin => FromLogin'
  BY <1>2, <1>3 DEF FromLogin
<1>5. QED BY <1>1, <1>3, <1>4 DEF ConnInv, Handshake, Untimed

(* A step of the proxy that closes the connection, before the relay.       *)
LEMMA Closed ==
  ASSUME ConnInv, Close, stage' = stage, stage # "relay"
  PROVE  ConnInv'
BY DEF Close, ConnInv, Handshake, Untimed

(* The client sends the next first message. *)
LEMMA ClientTriesStep ==
  ASSUME ConnInv, ClientTries
  PROVE  ConnInv'
<1>1. /\ UNCHANGED <<stage, deadline, server, sin, cout, sout, handler, serverUp>>
      /\ stage # "relay" /\ handler = "wait" /\ ~ waiting /\ tries # <<>>
      /\ cin' = Append(cin, Head(tries)) /\ tries' = Tail(tries) /\ waiting' = TRUE
  BY DEF ClientTries, vars, chanVars, serverVars
<1>2. CASE BeforeLogin
  <2>1. ToTry
    BY <1>1, <1>2 DEF BeforeLogin, Tried, SSLAsked, SSLReplied, SSLRefused
  <2>2. IsAttempt(tries)
    BY <1>2 DEF BeforeLogin
  <2>3. PICK m, c : m = Head(tries) /\ c = Tail(tries)
    OBVIOUS
  <2>4. m \in FirstMessages /\ (m = "Startup" => c = <<>>) /\ IsAttempt(c)
    BY <1>1, <2>2, <2>3 DEF IsAttempt
  <2>5. cin' = <<m>>
    BY <1>1, <2>1, <2>3 DEF ToTry
  <2>6. Tried'
    BY <1>1, <2>1, <2>3, <2>4, <2>5 DEF ToTry, Tried
  <2>7. BeforeLogin'
    BY <1>1, <1>2, <2>3, <2>4, <2>6 DEF BeforeLogin
  <2>8. QED BY <1>1, <2>7 DEF ConnInv, Handshake, Untimed
<1>3. CASE Over
  <2>1. Over'
    BY <1>1, <1>3 DEF Over
  <2>2. QED BY <1>1, <2>1 DEF ConnInv, Handshake, Untimed
<1>4. QED BY <1>1, <1>2, <1>3 DEF ConnInv, Handshake, Untimed, FromLogin

(* The client reads a message of the login that asks it for nothing.       *)
LEMMA PlainRead ==
  ASSUME NEW s, Plain(s), s # <<>>
  PROVE  Plain(Tail(s)) /\ Head(s) \notin Asks \cup {"N", "S"}
<1>1. s \in Seq(LoginMessages) /\ \A i \in 1 .. Len(s) : s[i] \notin Asks
  BY LenProperties DEF Plain
<1>2. Head(s) = s[1] /\ s[1] \in LoginMessages /\ 1 \in 1 .. Len(s)
  BY <1>1
<1>3. PICK t : t = Tail(s)
  OBVIOUS
<1>4. t \in Seq(LoginMessages) /\ Len(t) = Len(s) - 1 /\ \A i \in 1 .. Len(t) : t[i] = s[i + 1]
  BY <1>1, <1>3, HeadTailProperties
<1>5. \A i \in 1 .. Len(t) : t[i] \notin Asks
  <2> TAKE i \in 1 .. Len(t)
  <2>1. i + 1 \in 1 .. Len(s)
    BY <1>1, <1>4
  <2>2. QED BY <1>1, <1>4, <2>1
<1>6. Plain(t)
  BY <1>4, <1>5, LenProperties DEF Plain
<1>7. QED BY <1>1, <1>2, <1>3, <1>6 DEF LoginMessages

(* The client answers what asks it, and only that. *)
LEMMA ClientReadsStep ==
  ASSUME ConnInv, ClientReads
  PROVE  ConnInv'
<1>1. PICK m : m = Head(cout)
  OBVIOUS
<1>2. /\ UNCHANGED <<stage, deadline, server, sin, sout, handler, serverUp>>
      /\ cout # <<>> /\ cout' = Tail(cout)
      /\ waiting' = (m # "N" /\ waiting)
      /\ cin' = IF m \in Asks THEN Append(cin, "p")
                ELSE IF m = "S" THEN Append(cin, "tls") ELSE cin
      /\ tries' = IF m = "S" THEN <<>> ELSE tries
  BY <1>1 DEF ClientReads, Asks, vars, chanVars, serverVars
<1>3. CASE BeforeLogin
  <2>1. SSLRefused
    BY <1>2, <1>3 DEF BeforeLogin, ToTry, Tried, SSLAsked, SSLReplied
  <2>2. m = "N" /\ cout' = <<>>
    BY <1>1, <1>2, <2>1 DEF SSLRefused
  <2>3. ToTry' /\ tries' = tries
    BY <1>2, <2>1, <2>2 DEF SSLRefused, ToTry, Asks
  <2>4. BeforeLogin'
    BY <1>2, <1>3, <2>3 DEF BeforeLogin
  <2>5. QED BY <1>2, <2>4 DEF ConnInv, Handshake, Untimed
<1>4. CASE waiting /\ (LoggingIn \/ Ready)
  <2>1. Plain(cout)
    BY <1>4 DEF LoggingIn, Ready
  <2>2. Plain(cout') /\ m \notin Asks \cup {"N", "S"}
    BY <1>1, <1>2, <2>1, PlainRead
  <2>3. UNCHANGED <<cin, tries, waiting>>
    BY <1>2, <1>4, <2>2
  <2>4. LoggingIn' \/ Ready'
    BY <1>2, <1>4, <2>2, <2>3 DEF LoggingIn, Ready
  <2>5. FromLogin'
    BY <1>4, <2>3, <2>4, Zenon DEF FromLogin
  <2>6. QED BY <1>2, <2>5 DEF ConnInv, Handshake, Untimed
<1>5. CASE waiting /\ ClientAsked
  <2>1. /\ cout \in Seq(LoginMessages)
        /\ \A i \in 1 .. Len(cout) : cout[i] \in Asks <=> i = Len(cout)
    BY <1>5 DEF ClientAsked
  <2>2. m = cout[1] /\ m \in LoginMessages /\ Len(cout) \in Nat /\ 1 \in 1 .. Len(cout)
    BY <1>1, <1>2, <2>1
  <2>3. PICK t : t = Tail(cout)
    OBVIOUS
  <2>4. /\ t \in Seq(LoginMessages) /\ Len(t) = Len(cout) - 1
        /\ \A i \in 1 .. Len(t) : t[i] = cout[i + 1]
    BY <1>2, <2>1, <2>3, HeadTailProperties
  <2>5. m \notin {"N", "S"}
    BY <2>2 DEF LoginMessages
  <2>6. CASE Len(cout) = 1
    <3>1. t = <<>> /\ m \in Asks
      BY <2>1, <2>2, <2>4, <2>6, EmptySeq
    <3>2. cin' = <<"p">>
      BY <1>2, <1>5, <3>1 DEF ClientAsked
    <3>3. AnswerIn' /\ waiting'
      BY <1>2, <1>5, <2>3, <2>5, <3>1, <3>2 DEF ClientAsked, AnswerIn
    <3>4. QED BY <1>2, <1>5, <3>3 DEF ConnInv, Handshake, FromLogin, Untimed
  <2>7. CASE Len(cout) # 1
    <3>1. m \notin Asks /\ Len(t) \in Nat /\ Len(t) >= 1
      BY <2>1, <2>2, <2>4, <2>7
    <3>2. \A i \in 1 .. Len(t) : t[i] \in Asks <=> i = Len(t)
      <4> TAKE i \in 1 .. Len(t)
      <4>1. i + 1 \in 1 .. Len(cout) /\ (i = Len(t) <=> i + 1 = Len(cout))
        BY <2>2, <2>4
      <4>2. QED BY <2>1, <2>4, <4>1
    <3>3. t # <<>>
      BY <3>1
    <3>4. UNCHANGED <<cin, tries, waiting>>
      BY <1>2, <1>5, <2>5, <3>1
    <3>5. ClientAsked'
      BY <1>2, <1>5, <2>3, <2>4, <3>2, <3>3, <3>4 DEF ClientAsked
    <3>6. FromLogin'
      BY <1>5, <3>4, <3>5, Zenon DEF FromLogin
    <3>7. QED BY <1>2, <3>6 DEF ConnInv, Handshake, Untimed
  <2>8. QED BY <2>6, <2>7
<1>6. CASE Over
  <2>1. Over'
    BY <1>2, <1>6 DEF Over
  <2>2. QED BY <1>2, <2>1 DEF ConnInv, Handshake, Untimed
<1>7. CASE FromLogin
  <2>1. waiting /\ (LoggingIn \/ Ready \/ ClientAsked)
    BY <1>2, <1>7 DEF FromLogin, FirstSent, Unread, AnswerIn, AnswerSent
  <2>2. QED BY <1>4, <1>5, <2>1
<1>8. QED BY <1>2, <1>3, <1>6, <1>7 DEF ConnInv, Handshake, Untimed

(* The server says what comes up to its next request. *)
LEMMA ServerAnswersStep ==
  ASSUME ConnInv, ServerAnswers
  PROVE  ConnInv'
<1>1. PICK m, n : m = Head(sout) /\ n = UpToRequest(server.auth)
  OBVIOUS
<1>2. /\ UNCHANGED <<stage, deadline, tries, waiting, cin, cout, handler>>
      /\ serverUp /\ sout # <<>> /\ sout' = Tail(sout)
  BY DEF ServerAnswers, chanVars
<1>3. /\ m = "SSLRequest" => sin' = Append(sin, server.ssl) /\ server' = server
      /\ m = "GSSENCRequest" => sin' = Append(sin, "N")
      /\ m = "CancelRequest" => ~ serverUp' /\ sin' = sin
      /\ m \in {"Startup", "p"} =>
           /\ sin' = sin \o SubSeq(server.auth, 1, n)
           /\ server' = [ssl |-> "N", auth |-> SubSeq(server.auth, n + 1, Len(server.auth))]
           /\ serverUp' = (Last(SubSeq(server.auth, 1, n)) # "E")
  BY <1>1 DEF ServerAnswers
<1>4. ASSUME m \in {"Startup", "p"}, IsLogin(server.auth), stage = "auth", waiting, tries = <<>>,
             cin = <<>>, sin = <<>>, cout = <<>>, sout = <<m>>
      PROVE  ConnInv'
  <2>1. Batch(SubSeq(server.auth, 1, n), SubSeq(server.auth, n + 1, Len(server.auth)), serverUp')
    BY <1>1, <1>3, <1>4, ServerSays, Zenon
  <2>2. sin' = SubSeq(server.auth, 1, n)
    <3>1. SubSeq(server.auth, 1, n) \in Seq(LoginMessages)
      BY <2>1, Zenon DEF Batch
    <3>2. QED BY <1>3, <1>4, <3>1, ConcatEmptySeq
  <2>3. server'.auth = SubSeq(server.auth, n + 1, Len(server.auth))
    BY <1>3, <1>4
  <2>4. Batch(sin', server'.auth, serverUp')
    BY <2>1, <2>2, <2>3, Zenon
  <2>5. sout' = <<>> /\ Plain(cout')
    BY <1>2, <1>4, LenProperties DEF Plain
  <2>6. LoggingIn' /\ waiting'
    BY <1>2, <1>4, <2>4, <2>5 DEF LoggingIn
  <2>7. FromLogin'
    BY <2>6, Zenon DEF FromLogin
  <2>8. QED BY <1>2, <2>7 DEF ConnInv, Handshake, Untimed
<1>5. CASE BeforeLogin
  <2>1. SSLAsked /\ m = "SSLRequest"
    BY <1>1, <1>2, <1>5 DEF BeforeLogin, ToTry, Tried, SSLReplied, SSLRefused, SSLAsked
  <2>2. sin' \in {<<"N">>, <<"S">>} /\ sout' = <<>> /\ server' = server
    BY <1>2, <1>3, <1>5, <2>1 DEF BeforeLogin, SSLAsked
  <2>3. SSLReplied'
    BY <1>2, <2>1, <2>2 DEF SSLAsked, SSLReplied
  <2>4. BeforeLogin'
    BY <1>2, <1>5, <2>2, <2>3 DEF BeforeLogin
  <2>5. QED BY <1>2, <2>4 DEF ConnInv, Handshake, Untimed
<1>6. CASE waiting /\ FirstSent
  <2>1. /\ m \in FirstMessages \ {"SSLRequest", "Junk"} /\ sout = <<m>>
        /\ m = "Startup" => tries = <<>>
    BY <1>1, <1>6 DEF FirstSent
  <2>2. CASE m = "GSSENCRequest"
    <3>1. Unread' /\ waiting'
      BY <1>2, <1>3, <1>6, <2>1, <2>2 DEF FirstSent, Unread
    <3>2. FromLogin'
      BY <3>1, Zenon DEF FromLogin
    <3>3. QED BY <1>2, <3>2 DEF ConnInv, Handshake, Untimed
  <2>3. CASE m = "CancelRequest"
    <3>1. Over'
      BY <1>2, <1>3, <1>6, <2>1, <2>3 DEF FirstSent, Over
    <3>2. QED BY <1>2, <3>1 DEF ConnInv, Handshake, Untimed
  <2>4. CASE m = "Startup"
    BY <1>4, <1>6, <2>1, <2>4 DEF FirstSent
  <2>5. QED BY <2>1, <2>2, <2>3, <2>4 DEF FirstMessages
<1>7. CASE waiting /\ AnswerSent
  <2>1. m = "p"
    BY <1>1, <1>7 DEF AnswerSent
  <2>2. QED BY <1>4, <1>7, <2>1 DEF AnswerSent
<1>8. CASE FromLogin
  <2>1. waiting /\ (FirstSent \/ AnswerSent)
    BY <1>2, <1>8 DEF FromLogin, Unread, LoggingIn, ClientAsked, AnswerIn, Ready
  <2>2. QED BY <1>6, <1>7, <2>1
<1>9. ~ Over
  BY <1>2 DEF Over
<1>10. QED BY <1>2, <1>5, <1>8, <1>9 DEF ConnInv, Handshake, Untimed

(* The deadline is set before the handshake. *)
LEMMA DialStep ==
  ASSUME ConnInv, Dial
  PROVE  ConnInv'
<1>1. /\ stage = "dial" /\ handler = "wait"
      /\ UNCHANGED <<tries, waiting, server, cin, sin, cout, sout>>
      /\ (stage' = "first" \/ (Close /\ stage' = stage))
  BY DEF Dial, Waits, peerVars
<1>2. CASE stage' = "first"
  <2>1. BeforeLogin
    BY <1>1 DEF ConnInv, Handshake, Over, FromLogin, FirstSent, Unread, LoggingIn, ClientAsked,
                AnswerIn, AnswerSent, Ready
  <2>2. ToTry \/ Tried
    BY <1>1, <2>1 DEF BeforeLogin, SSLAsked, SSLReplied, SSLRefused
  <2>3. ToTry' \/ Tried'
    BY <1>1, <1>2, <2>2 DEF ToTry, Tried
  <2>4. BeforeLogin'
    BY <1>1, <2>1, <2>3 DEF BeforeLogin
  <2>5. QED BY <1>2, <2>4 DEF ConnInv, Handshake, Untimed
<1>3. CASE Close /\ stage' = stage
  BY <1>1, <1>3, Closed
<1>4. QED BY <1>1, <1>2, <1>3

(* From the message that is taken for the startup on, the server has the   *)
(* turn.                                                                   *)
LEMMA ReadFirstStep ==
  ASSUME ConnInv, ReadFirst
  PROVE  ConnInv'
<1>1. PICK m : m = Head(cin)
  OBVIOUS
<1>2. /\ stage = "first" /\ handler = "wait" /\ cin # <<>> /\ cin' = Tail(cin)
      /\ UNCHANGED <<deadline, tries, waiting, server, sin, cout>>
      /\ m = "Junk" => Close /\ stage' = stage
      /\ m # "Junk" => /\ sout' = Append(sout, m) /\ UNCHANGED <<handler, serverUp>>
                       /\ stage' = IF m = "SSLRequest" THEN "reply" ELSE "auth"
  BY <1>1 DEF ReadFirst, Waits, peerVars, vars, chanVars, serverVars
<1>3. BeforeLogin
  BY <1>2 DEF ConnInv, Handshake, Over, FromLogin, FirstSent, Unread, LoggingIn, ClientAsked,
              AnswerIn, AnswerSent, Ready
<1>4. Tried
  BY <1>2, <1>3 DEF BeforeLogin, ToTry, SSLAsked, SSLReplied, SSLRefused
<1>5. m \in FirstMessages /\ cin = <<m>> /\ (m = "Startup" => tries = <<>>)
  BY <1>1, <1>4 DEF Tried
<1>6. CASE m = "Junk"
  BY <1>2, <1>6, Closed
<1>7. CASE m = "SSLRequest"
  <2>1. SSLAsked'
    BY <1>2, <1>4, <1>5, <1>7 DEF Tried, SSLAsked
  <2>2. BeforeLogin'
    BY <1>2, <1>3, <2>1 DEF BeforeLogin
  <2>3. QED BY <1>2, <1>7, <2>2 DEF ConnInv, Handshake, Untimed
<1>8. CASE m \notin {"Junk", "SSLRequest"}
  <2>1. sout' = <<m>> /\ cin' = <<>> /\ stage' = "auth"
    BY <1>2, <1>4, <1>5, <1>8 DEF Tried
  <2>2. IsLogin(server'.auth)
    BY <1>2, <1>3 DEF BeforeLogin
  <2>3. FirstSent' /\ waiting'
    BY <1>2, <1>4, <1>5, <1>8, <2>1, <2>2 DEF Tried, FirstSent
  <2>4. FromLogin'
    BY <2>3, Zenon DEF FromLogin
  <2>5. QED BY <2>1, <2>4 DEF ConnInv, Handshake, Untimed
<1>9. QED BY <1>6, <1>7, <1>8

(* A refusal goes back to the client, which tries the next message. *)
LEMMA ReadReplyStep ==
  ASSUME ConnInv, ReadReply
  PROVE  ConnInv'
<1>1. /\ stage = "reply" /\ handler = "wait" /\ sin # <<>>
      /\ cout' = Append(cout, Head(sin)) /\ sin' = Tail(sin)
      /\ stage' = IF Head(sin) = "N" THEN "first" ELSE "pipe"
      /\ UNCHANGED <<deadline, tries, waiting, server, cin, sout>>
  BY DEF ReadReply, Waits, peerVars
<1>2. BeforeLogin
  BY <1>1 DEF ConnInv, Handshake, Over, FromLogin, FirstSent, Unread, LoggingIn, ClientAsked,
              AnswerIn, AnswerSent, Ready
<1>3. SSLReplied
  BY <1>1, <1>2 DEF BeforeLogin, ToTry, Tried, SSLAsked, SSLRefused
<1>4. CASE sin = <<"N">>
  <2>1. SSLRefused'
    BY <1>1, <1>3, <1>4 DEF SSLReplied, SSLRefused
  <2>2. BeforeLogin'
    BY <1>1, <1>2, <2>1 DEF BeforeLogin
  <2>3. QED BY <1>1, <1>4, <2>2 DEF ConnInv, Handshake, Untimed
<1>5. CASE sin = <<"S">>
  BY <1>1, <1>5 DEF ConnInv, Handshake, Untimed
<1>6. QED BY <1>3, <1>4, <1>5 DEF SSLReplied

(* Encrypted, the handshake is not followed any further. *)
LEMMA PipeStep ==
  ASSUME ConnInv, Pipe
  PROVE  ConnInv'
BY DEF ConnInv, Handshake, Untimed, Pipe

(* The proxy passes on a message of the login that asks for nothing.       *)
LEMMA PlainAppend ==
  ASSUME NEW s, Plain(s), NEW m \in LoginMessages \ Asks
  PROVE  Plain(Append(s, m))
<1>1. s \in Seq(LoginMessages) /\ \A i \in 1 .. Len(s) : s[i] \notin Asks
  BY LenProperties DEF Plain
<1>2. PICK t : t = Append(s, m)
  OBVIOUS
<1>3. /\ t \in Seq(LoginMessages) /\ Len(t) = Len(s) + 1
      /\ \A i \in 1 .. Len(s) : t[i] = s[i]
      /\ t[Len(s) + 1] = m
  BY <1>1, <1>2, AppendProperties
<1>4. \A i \in 1 .. Len(t) : t[i] \notin Asks
  <2> TAKE i \in 1 .. Len(t)
  <2>1. i \in 1 .. Len(s) \/ i = Len(s) + 1
    BY <1>1, <1>3
  <2>2. QED BY <1>1, <1>3, <2>1
<1>5. QED BY <1>2, <1>3, <1>4, LenProperties DEF Plain

(* A request passes the turn to the client, Z ends the handshake. *)
LEMMA RelayAuthStep ==
  ASSUME ConnInv, RelayAuth
  PROVE  ConnInv'
<1>1. PICK m : m = Head(sin)
  OBVIOUS
<1>2. /\ stage = "auth" /\ handler = "wait" /\ sin # <<>> /\ m # "N"
      /\ cout' = Append(cout, m) /\ sin' = Tail(sin)
      /\ stage' = CASE m \in Asks -> "answer" [] m = "Z" -> "relay" [] OTHER -> "auth"
      /\ deadline' = IF stage' = "relay" THEN "none" ELSE deadline
      /\ UNCHANGED <<tries, waiting, server, cin, sout, serverUp>>
  BY <1>1 DEF RelayAuth, NeedsAnswer, Asks, Waits, peerVars, vars, serverVars
<1>3. Untimed'
  BY <1>2 DEF Untimed
<1>4. waiting /\ LoggingIn
  BY <1>1, <1>2 DEF ConnInv, Handshake, BeforeLogin, ToTry, Tried, SSLAsked, SSLReplied, SSLRefused,
              Over, FromLogin, FirstSent, Unread, ClientAsked, AnswerIn, AnswerSent, Ready
<1>5. /\ sin \in Seq(LoginMessages) /\ sin # <<>>
      /\ \A i \in 1 .. Len(sin) - 1 : sin[i] \notin Asks \cup {"Z", "E"}
      /\ \/ sin[Len(sin)] \in Asks /\ IsLogin(server.auth)
         \/ sin[Len(sin)] = "Z" /\ server.auth = <<>>
         \/ sin[Len(sin)] = "E" /\ ~ serverUp
  BY <1>4, Zenon DEF LoggingIn, Batch
<1>6. Len(sin) \in Nat /\ Len(sin) >= 1 /\ m = sin[1] /\ m \in LoginMessages
  BY <1>1, <1>5
<1>7. PICK t : t = Tail(sin)
  OBVIOUS
<1>8. /\ t \in Seq(LoginMessages) /\ Len(t) = Len(sin) - 1
      /\ \A i \in 1 .. Len(t) : t[i] = sin[i + 1]
  BY <1>5, <1>7, HeadTailProperties
<1>9. Plain(cout)
  BY <1>4 DEF LoggingIn
<1>10. m \notin Asks => Plain(cout')
  BY <1>2, <1>6, <1>9, PlainAppend
<1>11. CASE Len(sin) = 1
  <2>1. t = <<>>
    BY <1>8, <1>11, EmptySeq
  <2>2. CASE m \in Asks
    <3>1. IsLogin(server.auth)
      BY <1>5, <1>6, <1>11, <2>2 DEF Asks
    <3>2. /\ cout \in Seq(LoginMessages) /\ Len(cout) \in Nat
          /\ \A i \in 1 .. Len(cout) : cout[i] \notin Asks
      BY <1>9, LenProperties DEF Plain
    <3>3. PICK c : c = Append(cout, m)
      OBVIOUS
    <3>4. /\ c \in Seq(LoginMessages) /\ c # <<>> /\ Len(c) = Len(cout) + 1
          /\ \A i \in 1 .. Len(cout) : c[i] = cout[i]
          /\ c[Len(cout) + 1] = m
      BY <1>6, <3>2, <3>3, AppendProperties
    <3>5. \A i \in 1 .. Len(c) : c[i] \in Asks <=> i = Len(c)
      <4> TAKE i \in 1 .. Len(c)
      <4>1. (i \in 1 .. Len(cout) /\ i # Len(c)) \/ (i = Len(cout) + 1 /\ i = Len(c))
        BY <3>2, <3>4
      <4>2. QED BY <2>2, <3>2, <3>4, <4>1
    <3>6. /\ stage' = "answer" /\ waiting' /\ tries' = <<>> /\ server' = server
          /\ cin' = <<>> /\ sin' = <<>> /\ sout' = <<>> /\ cout' = c
      <4>1. stage' = "answer"
        BY <1>2, <2>2 DEF Asks
      <4>2. tries = <<>> /\ cin = <<>> /\ sout = <<>>
        BY <1>4, Zenon DEF LoggingIn
      <4>3. sin' = <<>> /\ cout' = c
        BY <1>2, <1>7, <2>1, <3>3, Zenon
      <4>4. QED BY <1>2, <1>4, <4>1, <4>2, <4>3, Zenon
    <3>7. ClientAsked'
      BY <3>1, <3>4, <3>5, <3>6, Zenon DEF ClientAsked
    <3>8. FromLogin'
      BY <3>6, <3>7, Zenon DEF FromLogin
    <3>9. QED BY <1>3, <3>8 DEF ConnInv, Handshake
  <2>3. CASE m = "Z"
    <3>1. server.auth = <<>>
      BY <1>5, <1>6, <1>11, <2>3 DEF Asks
    <3>2. Ready' /\ waiting'
      BY <1>2, <1>4, <1>7, <1>10, <2>1, <2>3, <3>1 DEF LoggingIn, Ready, Asks
    <3>3. FromLogin'
      BY <3>2, Zenon DEF FromLogin
    <3>4. QED BY <1>3, <3>3 DEF ConnInv, Handshake
  <2>4. CASE m = "E" /\ ~ serverUp
    <3>1. Over'
      BY <1>2, <1>4, <1>7, <2>1, <2>4 DEF LoggingIn, Over, Asks
    <3>2. QED BY <1>3, <3>1 DEF ConnInv, Handshake
  <2>5. QED BY <1>5, <1>6, <1>11, <2>2, <2>3, <2>4
<1>12. CASE Len(sin) # 1
  <2>1. m \notin Asks \cup {"Z", "E"} /\ Len(t) \in Nat /\ Len(t) >= 1
    BY <1>5, <1>6, <1>8, <1>12
  <2>2. \A i \in 1 .. Len(t) - 1 : t[i] \notin Asks \cup {"Z", "E"}
    <3> TAKE i \in 1 .. Len(t) - 1
    <3>1. i \in 1 .. Len(t) /\ i + 1 \in 1 .. Len(sin) - 1
      BY <1>6, <1>8, <2>1
    <3>2. QED BY <1>5, <1>8, <3>1
  <2>3. t[Len(t)] = sin[Len(sin)]
    BY <1>6, <1>8, <2>1
  <2>4. t # <<>>
    BY <2>1
  <2>5. Batch(t, server.auth, serverUp)
    BY <1>5, <1>8, <2>2, <2>3, <2>4, Zenon DEF Batch
  <2>6. Batch(sin', server'.auth, serverUp')
    BY <1>2, <1>7, <2>5, Zenon
  <2>7. LoggingIn' /\ waiting'
    BY <1>2, <1>4, <1>10, <2>1, <2>6 DEF LoggingIn
  <2>8. FromLogin'
    BY <2>7, Zenon DEF FromLogin
  <2>9. QED BY <1>3, <2>8 DEF ConnInv, Handshake
<1>13. QED BY <1>11, <1>12

(* The answer passes it back. *)
LEMMA RelayAnswerStep ==
  ASSUME ConnInv, RelayAnswer
  PROVE  ConnInv'
<1>1. /\ stage = "answer" /\ handler = "wait" /\ cin # <<>>
      /\ sout' = Append(sout, Head(cin)) /\ cin' = Tail(cin) /\ stage' = "auth"
      /\ UNCHANGED <<deadline, tries, waiting, server, sin, cout>>
  BY DEF RelayAnswer, Waits, peerVars
<1>2. waiting /\ AnswerIn
  BY <1>1 DEF ConnInv, Handshake, BeforeLogin, ToTry, Tried, SSLAsked, SSLReplied, SSLRefused,
              Over, FromLogin, FirstSent, Unread, LoggingIn, ClientAsked, AnswerSent, Ready
<1>3. AnswerSent' /\ waiting'
  BY <1>1, <1>2 DEF AnswerIn, AnswerSent
<1>4. FromLogin'
  BY <1>3, Zenon DEF FromLogin
<1>5. QED BY <1>1, <1>4 DEF ConnInv, Handshake, Untimed

(* The other steps of the connection leave the handshake alone.            *)
LEMMA RelayStep ==
  ASSUME ConnInv, Next, UNCHANGED startVars
  PROVE  ConnInv'
<1>1. UNCHANGED <<stage, deadline, tries, waiting, server, cin, sin, cout, sout>>
  BY DEF startVars
<1>2. (handler # "wait" => handler' # "wait") /\ (serverUp' => serverUp)
  <2>1. CASE ClientSend \/ ClientRecv \/ ClientHangUp \/ S2CStep \/ C2SStep
    BY <2>1 DEF ClientSend, ClientRecv, ClientHangUp, S2CStep, C2SStep, ReadQuery, CaptureQuery,
         ReadParse, ReadBind, Forward, ReadSync, ReadOther, ReadTerminate, C2SFails, C2SReturns,
         RelayToClient, ReadyForQuery, S2CFails, S2CReturns, chanVars, serverVars
  <2>2. CASE Serve \/ ServerHangUp
    BY <2>2 DEF Serve, ServerHangUp, chanVars
  <2>3. CASE HandlerReturns
    BY <2>3 DEF HandlerReturns, serverVars
  <2>4. QED BY <2>1, <2>2, <2>3 DEF Next
<1>3. stage = "relay" => deadline' = "none"
  BY <1>1 DEF ConnInv, Untimed
<1>4. QED BY <1>1, <1>2, <1>3, HandshakeKept

(* Every step of the connection keeps its invariant. *)
LEMMA ConnInvInductive == ConnInv /\ [ConnNext]_allVars => ConnInv'
<1> SUFFICES ASSUME ConnInv, [ConnNext]_allVars PROVE ConnInv'
  OBVIOUS
<1>1. CASE Dial \/ ReadFirst \/ ReadReply \/ Pipe \/ RelayAuth \/ RelayAnswer
  BY <1>1, DialStep, ReadFirstStep, ReadReplyStep, PipeStep, RelayAuthStep, RelayAnswerStep
<1>2. CASE StartupFails
  <2>1. Close /\ stage' = stage /\ stage # "relay"
    BY <1>2 DEF StartupFails, startVars
  <2>2. QED BY <2>1, Closed
<1>3. CASE TimesOut
  <2>1. stage # "relay"
    BY <1>3 DEF TimesOut, ConnInv, Untimed
  <2>2. Close /\ stage' = stage
    BY <1>3, <2>1 DEF TimesOut, startVars
  <2>3. QED BY <2>1, <2>2, Closed
<1>4. CASE PeerStep
  BY <1>4, ClientTriesStep, ClientReadsStep, ServerAnswersStep DEF PeerStep
<1>5. CASE DeadlinePasses
  <2>1. /\ UNCHANGED <<stage, tries, waiting, server, cin, sin, cout, sout, handler, serverUp>>
        /\ deadline = "armed"
    BY <1>5 DEF DeadlinePasses, peerVars, vars, chanVars, serverVars
  <2>2. stage # "relay"
    BY <2>1 DEF ConnInv, Untimed
  <2>3. QED BY <2>1, <2>2, HandshakeKept
<1>6. CASE stage # "relay" /\ (ClientHangUp \/ ServerHangUp) /\ UNCHANGED startVars
  BY <1>6, RelayStep DEF Next
<1>7. CASE InRelay(Next)
  BY <1>7, RelayStep DEF InRelay
<1>8. CASE UNCHANGED allVars
  <2>1. UNCHANGED <<stage, deadline, tries, waiting, server, cin, sin, cout, sout, handler, serverUp>>
    BY <1>8 DEF allVars, startVars, vars, chanVars, serverVars
  <2>2. stage = "relay" => deadline' = "none"
    BY <2>1 DEF ConnInv, Untimed
  <2>3. QED BY <2>1, <2>2, HandshakeKept
<1>9. QED BY <1>1, <1>2, <1>3, <1>4, <1>5, <1>6, <1>7, <1>8 DEF ConnNext, StartupStep

(* Where the handshake is tells who is to act: the relay starts with       *)
(* nothing of it left, and the proxy does not wait for a peer that waits.  *)
THEOREM HandshakeAlwaysInStep == ConnSpec => []HandshakeInStep
<1>1. ConnInit => ConnInv
  BY ConnInitInv
<1>2. ConnInv /\ [ConnNext]_allVars => ConnInv'
  BY ConnInvInductive
<1>3. ConnInv => HandshakeInStep
  <2> SUFFICES ASSUME ConnInv PROVE HandshakeInStep
    OBVIOUS
  <2>1. RelayStartsInStep
    <3> SUFFICES ASSUME stage = "relay"
                 PROVE  cin = <<>> /\ sin = <<>> /\ sout = <<>> /\ server.auth = <<>> /\ tries = <<>>
      BY DEF RelayStartsInStep
    <3>1. Ready
      BY DEF ConnInv, Handshake, BeforeLogin, ToTry, Tried, SSLAsked, SSLReplied, SSLRefused,
             Over, FromLogin, FirstSent, Unread, LoggingIn, ClientAsked, AnswerIn, AnswerSent
    <3>2. QED BY <3>1 DEF Ready
  <2>2. NoMutualWait
    <3> SUFFICES ASSUME handler = "wait", serverUp
                 PROVE  /\ stage \in {"first", "answer"} => cin # <<>> \/ cout # <<>> \/ ~ waiting
                        /\ stage \in {"reply", "auth"} => sin # <<>> \/ sout # <<>>
      BY DEF NoMutualWait, Waits
    <3>1. CASE BeforeLogin
      BY <3>1, SMTT(30) DEF BeforeLogin, ToTry, Tried, SSLAsked, SSLReplied, SSLRefused
    <3>2. CASE FromLogin
      BY <3>2 DEF FromLogin, FirstSent, Unread, LoggingIn, Batch, ClientAsked, AnswerIn, AnswerSent,
                  Ready
    <3>3. QED BY <3>1, <3>2 DEF ConnInv, Handshake, Over
  <2>3. QED BY <2>1, <2>2 DEF HandshakeInStep
<1>4. QED BY <1>1, <1>2, <1>3, PTL DEF ConnSpec

(* No deadline is set in the relay, so that a direction only ends for a    *)
(* reason of its own.                                                      *)
THEOREM RelayNeverTimed == ConnSpec => RelayIsUntimed
<1>1. ConnInit => ConnInv
  BY ConnInitInv
<1>2. ConnInv /\ [ConnNext]_allVars => ConnInv'
  BY ConnInvInductive
<1>3. ConnInv /\ [ConnNext]_allVars =>
        [stage = "relay" /\ c2s.pc # "return" /\ c2s'.pc = "return"
           => ~ clientUp \/ ~ serverUp \/ ~ Running
              \/ (toProxy # <<>> /\ Head(toProxy).type = "X")]_allVars
  <2> SUFFICES ASSUME ConnInv, [ConnNext]_allVars, stage = "relay", c2s.pc # "return",
                      c2s'.pc = "return"
               PROVE  \/ ~ clientUp \/ ~ serverUp \/ ~ Running
                      \/ toProxy # <<>> /\ Head(toProxy).type = "X"
    OBVIOUS
  <2>1. CASE StartupStep
    <3>1. c2s' = c2s
      BY <2>1 DEF StartupStep, Dial, ReadFirst, ReadReply, Pipe, RelayAuth, RelayAnswer,
                  StartupFails, TimesOut, ConnInv, Untimed, Close, vars, c2sVars
    <3>2. QED BY <3>1
  <2>2. CASE PeerStep \/ DeadlinePasses
    BY <2>2 DEF PeerStep, ClientTries, ClientReads, ServerAnswers, DeadlinePasses, vars, c2sVars
  <2>3. CASE stage # "relay" /\ (ClientHangUp \/ ServerHangUp) /\ UNCHANGED startVars
    BY <2>3
  <2>4. CASE InRelay(Next)
    <3>1. CASE C2SStep
      BY <3>1 DEF C2SStep, ReadQuery, CaptureQuery, ReadParse, ReadBind, Forward, ReadSync, ReadOther,
                  ReadTerminate, C2SFails, C2SReturns, ReadClient, c2sVars
    <3>2. CASE ~ C2SStep
      <4>1. c2s' = c2s
        BY <2>4, <3>2 DEF InRelay, Next, ClientSend, ClientRecv, ClientHangUp, Serve, ServerHangUp,
             S2CStep, RelayToClient, ReadyForQuery, S2CFails, S2CReturns, HandlerReturns, c2sVars
      <4>2. QED BY <4>1
    <3>3. QED BY <3>1, <3>2
  <2>5. CASE UNCHANGED allVars
    BY <2>5 DEF allVars, vars, c2sVars
  <2>6. QED BY <2>1, <2>2, <2>3, <2>4, <2>5 DEF ConnNext
<1>4. QED BY <1>1, <1>2, <1>3, PTL DEF ConnSpec, RelayIsUntimed

-----------------------------------------------------------------------------
(* The whole connection. *)

(* Before the relay no step touches its state, but for who is there and    *)
(* what the connection is closed with; in the relay the steps are those of *)
(* PGProxy, as no deadline is left.                                        *)
LEMMA StartupKeepsRelay ==
  ASSUME ConnInv, [ConnNext]_allVars
  PROVE  [Next]_vars \/ UNCHANGED relayVars
<1>1. CASE StartupStep
  BY <1>1 DEF StartupStep, Dial, ReadFirst, ReadReply, Pipe, RelayAuth, RelayAnswer,
     StartupFails, TimesOut, ConnInv, Untimed, Close, vars, relayVars, clientVars, serverVars, chanVars
<1>2. CASE PeerStep \/ DeadlinePasses
  BY <1>2 DEF PeerStep, ClientTries, ClientReads, ServerAnswers, DeadlinePasses, vars, relayVars,
     clientVars, chanVars
<1>3. CASE ClientHangUp \/ ServerHangUp
  BY <1>3 DEF Next
<1>4. CASE InRelay(Next)
  BY <1>4 DEF InRelay
<1>5. CASE UNCHANGED allVars
  BY <1>5 DEF allVars
<1>6. QED BY <1>1, <1>2, <1>3, <1>4, <1>5 DEF ConnNext

(* What is proved of the relay holds of a connection that begins with its  *)
(* startup, however that goes: nothing of the handshake gets into the      *)
(* relay's counters, statements or streams.                                *)
THEOREM ConnectionRelays ==
  ConnSpec => [](TransparentRelay /\ EventCountsOneCycle /\ OneStatementPerSync)
<1>1. ConnInit => Inv /\ ConnInv
  BY InitInv, ConnInitInv DEF ConnInit
<1>2. Inv /\ ConnInv /\ [ConnNext]_allVars => Inv' /\ ConnInv'
  BY StartupKeepsRelay, InvInductive, InvKept, ConnInvInductive
<1>3. Inv => TransparentRelay /\ EventCountsOneCycle /\ OneStatementPerSync
  BY InvTransparent, InvCountsOneCycle, InvReports
<1>4. QED BY <1>1, <1>2, <1>3, PTL DEF ConnSpec

(* What a goroutine puts on errCh is the last it does, so errCh never holds*)
(* more than the goroutines that are done.                                 *)
Done(g)   == IF g.pc = "done" THEN 1 ELSE 0
Reporting == errCh \in Nat /\ errCh <= Done(c2s) + Done(s2c)

(* Only C2SReturns and S2CReturns add an error. *)
LEMMA ReportingStep ==
  ASSUME Reporting, [Next]_vars \/ UNCHANGED relayVars
  PROVE  Reporting'
<1>1. CASE C2SReturns
  BY <1>1 DEF C2SReturns, Reporting, Done, s2cVars
<1>2. CASE S2CReturns
  BY <1>2 DEF S2CReturns, Reporting, Done, c2sVars
<1>3. CASE HandlerReturns
  BY <1>3 DEF HandlerReturns, Reporting, Done, c2sVars, s2cVars
<1>4. CASE Next /\ ~ C2SReturns /\ ~ S2CReturns /\ ~ HandlerReturns
  <2>1. errCh' = errCh /\ (c2s.pc = "done" <=> c2s'.pc = "done") /\ (s2c.pc = "done" <=> s2c'.pc = "done")
    <3>1. CASE ClientSend \/ ClientRecv \/ ClientHangUp \/ Serve \/ ServerHangUp
      BY <3>1 DEF ClientSend, ClientRecv, ClientHangUp, Serve, ServerHangUp, c2sVars, s2cVars, chanVars
    <3>2. CASE C2SStep /\ ~ C2SReturns
      <4>1. CASE ReadQuery \/ CaptureQuery \/ Forward \/ ReadSync
        BY <4>1 DEF ReadQuery, CaptureQuery, Forward, ReadSync, ReadClient, s2cVars, chanVars
      <4>2. CASE ReadParse \/ ReadBind \/ ReadOther \/ ReadTerminate \/ C2SFails
        BY <4>2 DEF ReadParse, ReadBind, ReadOther, ReadTerminate, C2SFails, ReadClient, c2sVars, s2cVars,
                    chanVars
      <4>3. QED BY <3>2, <4>1, <4>2 DEF C2SStep
    <3>3. CASE S2CStep /\ ~ S2CReturns
      BY <3>3 DEF S2CStep, RelayToClient, ReadyForQuery, S2CFails, c2sVars, chanVars
    <3>4. QED BY <1>4, <3>1, <3>2, <3>3 DEF Next
  <2>2. QED BY <2>1 DEF Reporting, Done
<1>5. CASE UNCHANGED vars \/ UNCHANGED relayVars
  BY <1>5 DEF Reporting, Done, vars, relayVars, c2sVars, s2cVars, chanVars
<1>6. QED BY <1>1, <1>2, <1>3, <1>4, <1>5

(* Neither goroutine is ever left with an error that nobody takes, also if *)
(* handleConn has returned with the error of the other: the part of        *)
(* TeardownCompletes that does not need fairness.                          *)
THEOREM ErrorsAlwaysTaken ==
  ConnSpec => [](c2s.pc = "return" \/ s2c.pc = "return" => CanReport)
<1>1. ConnInit => ConnInv /\ Reporting
  BY ConnInitInv DEF ConnInit, Init, Reporting, Done
<1>2. ConnInv /\ Reporting /\ [ConnNext]_allVars => ConnInv' /\ Reporting'
  BY StartupKeepsRelay, ReportingStep, ConnInvInductive
<1>3. Reporting => (c2s.pc = "return" \/ s2c.pc = "return" => CanReport)
  BY DEF Reporting, Done, CanReport, ErrCap
<1>4. QED BY <1>1, <1>2, <1>3, PTL DEF ConnSpec

=============================================================================
