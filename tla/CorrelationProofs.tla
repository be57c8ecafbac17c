------------------------- MODULE CorrelationProofs -------------------------
(***************************************************************************)
(* Theorems about Correlation, for every set of requests and of queries,   *)
(* every TTL and any number of requests at a time.  The inductive          *)
(* invariant is Inv: the types, the contents and the order of the stack,   *)
(* and two facts about the history of SetActive calls that order it.       *)
(*                                                                         *)
(* The second half is about SqlComment, the other thing that the callback  *)
(* of the SQL proxy needs to file a query: for statements and comments of  *)
(* every length, what is read of the comment and what is shown of the      *)
(* query.  Its inductive invariant, CommentInv, says after which place of  *)
(* the comment each pair stands (LaidOut).                                 *)
(***************************************************************************)
EXTENDS Correlation, SqlComment, FiniteSetTheorems, SequenceTheorems, WellFoundedInduction, TLAPS

(* The places handed out so far do not exceed the number of requests begun,*)
(* so the next place is larger than all of them.                           *)
PlacesBounded ==
  /\ IsFiniteSet(Begun)
  /\ \A r \in Begun : began[r].place <= Cardinality(Begun)

(* An entry was pushed when its request began. *)
SeenWhenBegun == \A i \in DOMAIN entries : entries[i].seen = began[entries[i].context].time

Inv == TypeOK /\ StackIsOpenRequests /\ PlacesBounded /\ SeenWhenBegun

Entry == [context : Requests, seen : 0 .. now]

-----------------------------------------------------------------------------
(* An element above all others is what Max picks.                          *)
LEMMA MaxIs ==
  ASSUME NEW S \in SUBSET Nat, NEW m \in S, \A y \in S : m >= y
  PROVE  Max(S) = m
<1>1. \E x \in S : \A y \in S : x >= y
  OBVIOUS
<1>2. Max(S) \in S /\ \A y \in S : Max(S) >= y
  BY <1>1, Zenon DEF Max
<1>3. Max(S) >= m /\ m >= Max(S)
  BY <1>2
<1>4. Max(S) \in Nat /\ m \in Nat
  BY <1>2
<1>5. QED BY <1>3, <1>4

(* What the invariant says of single entries.                              *)
LEMMA EntryFacts ==
  ASSUME Inv, NEW i \in DOMAIN entries
  PROVE  /\ i \in 1 .. Len(entries)
         /\ entries[i].context \in Requests
         /\ entries[i].seen \in Nat /\ entries[i].seen <= now
         /\ entries[i].context \in Begun
         /\ began[entries[i].context].place \in Nat
<1>1. now \in Nat /\ entries \in Seq(Entry)
  BY DEF Inv, TypeOK, Entry
<1>2. i \in 1 .. Len(entries) /\ entries[i] \in Entry
  BY <1>1
<1>3. entries[i].context \in Requests /\ entries[i].seen \in 0 .. now
  BY <1>2 DEF Entry
<1>4. entries[i].context \in Begun
  BY <1>3 DEF Inv, StackIsOpenRequests, Stacked, Begun
<1>5. began[entries[i].context].place \in Nat
  BY <1>3 DEF Inv, TypeOK
<1>6. QED BY <1>1, <1>2, <1>3, <1>4, <1>5

(* No request has two entries.                                             *)
LEMMA EntriesUnique ==
  ASSUME Inv, NEW i \in DOMAIN entries, NEW j \in DOMAIN entries,
         entries[i].context = entries[j].context
  PROVE  i = j
<1> DEFINE place(k) == began[entries[k].context].place
<1>1. place(i) = place(j) /\ place(i) \in Nat /\ i \in Int /\ j \in Int
  BY EntryFacts
<1>2. i < j => place(i) < place(j)
  BY DEF Inv, StackIsOpenRequests
<1>3. j < i => place(j) < place(i)
  BY DEF Inv, StackIsOpenRequests
<1>4. QED BY <1>1, <1>2, <1>3

(* Correlate returns the top of the stack if it has not expired: an entry  *)
(* below the top is never younger than the top.                            *)
LEMMA CorrelateIsTop ==
  ASSUME Inv
  PROVE  \/ /\ Correlate = NoContext
            /\ \A i \in DOMAIN entries : ~ (now - entries[i].seen < TTL)
         \/ /\ Len(entries) \in DOMAIN entries
            /\ Correlate = entries[Len(entries)].context
            /\ now - entries[Len(entries)].seen < TTL
<1> DEFINE live == {i \in DOMAIN entries : now - entries[i].seen < TTL}
<1>1. now \in Nat /\ Len(entries) \in Nat /\ DOMAIN entries = 1 .. Len(entries)
  BY DEF Inv, TypeOK
<1>2. CASE live = {}
  <2>1. Correlate = NoContext
    BY <1>2 DEF Correlate
  <2>2. QED BY <1>2, <2>1
<1>3. CASE live # {}
  <2> DEFINE top == Len(entries)
  <2>1. PICK k \in DOMAIN entries : now - entries[k].seen < TTL
    BY <1>3
  <2>2. top \in DOMAIN entries /\ k <= top
    BY <1>1, <2>1
  <2>3. entries[k].seen <= entries[top].seen
    <3>1. CASE k = top
      BY <2>1, <3>1, EntryFacts
    <3>2. CASE k < top
      BY <2>1, <2>2, <3>2 DEF Inv, StackIsOpenRequests
    <3>3. QED BY <1>1, <2>2, <3>1, <3>2
  <2>4. entries[k].seen \in Nat /\ entries[top].seen \in Nat /\ TTL \in Nat
    BY <2>1, <2>2, EntryFacts, TTLAssumption
  <2>5. now - entries[top].seen < TTL
    BY <1>1, <2>1, <2>3, <2>4
  <2>6. top \in live /\ live \in SUBSET Nat /\ \A y \in live : top >= y
    BY <1>1, <2>2, <2>5
  <2>7. Max(live) = top
    <3> HIDE DEF live, top
    <3>1. QED BY <2>6, MaxIs
  <2>8. Correlate = entries[top].context
    BY <1>3, <2>7 DEF Correlate
  <2>9. QED BY <2>2, <2>5, <2>8
<1>4. QED BY <1>2, <1>3

-----------------------------------------------------------------------------
(* The invariant holds initially: no entry, and no request has begun.      *)
LEMMA InitInv == Init => Inv
<1> SUFFICES ASSUME Init PROVE Inv
  OBVIOUS
<1>1. now = 0 /\ entries = <<>> /\ DOMAIN entries = {}
  BY DEF Init
<1>2. TypeOK
  BY <1>1 DEF Init, TypeOK, Phases, NotSent, Statuses
<1>3. StackIsOpenRequests
  BY <1>1 DEF Init, StackIsOpenRequests, Stacked
<1>4. Begun = {}
  BY DEF Init, Begun
<1>5. PlacesBounded
  BY <1>4, FS_EmptySet DEF PlacesBounded
<1>6. SeenWhenBegun
  BY <1>1 DEF Init, SeenWhenBegun
<1>7. QED BY <1>2, <1>3, <1>5, <1>6 DEF Inv

(* SetActive pushes the request on top of those that began before it.      *)
LEMMA BeginInv ==
  ASSUME Inv, NEW r \in Requests, Begin(r)
  PROVE  Inv'
<1> DEFINE new == [context |-> r, seen |-> now]
           n   == Len(entries)
<1>1. /\ now \in Nat /\ now' = now /\ phase[r] = "idle"
      /\ entries \in Seq(Entry) /\ new \in Entry
      /\ entries' = Append(entries, new)
      /\ phase' = [phase EXCEPT ![r] = "open"]
      /\ began' = [began EXCEPT ![r] = [place |-> Cardinality(Begun) + 1, time |-> now]]
      /\ UNCHANGED <<query, parent, submitted>>
  BY DEF Begin, SetActive, queryVars, Inv, TypeOK, Entry
<1>2. /\ entries' \in Seq(Entry) /\ n \in Nat /\ Len(entries') = n + 1
      /\ DOMAIN entries = 1 .. n /\ DOMAIN entries' = 1 .. n + 1
      /\ \A i \in 1 .. n : entries'[i] = entries[i]
      /\ entries'[n + 1] = new
  BY <1>1, AppendProperties
<1>3. /\ IsFiniteSet(Begun) /\ Cardinality(Begun) \in Nat
      /\ Begun' = Begun \cup {r} /\ r \notin Begun
  <2>1. Begun' = Begun \cup {r} /\ r \notin Begun
    BY <1>1 DEF Inv, TypeOK, Begun
  <2>2. QED BY <2>1, FS_CardinalityType DEF Inv, PlacesBounded
<1>4. /\ IsFiniteSet(Begun') /\ Cardinality(Begun') = Cardinality(Begun) + 1
  BY <1>3, FS_AddElement
<1>5. TypeOK'
  <2>1. phase' \in [Requests -> Phases]
    BY <1>1 DEF Inv, TypeOK, Phases
  <2>2. began' \in [Requests -> [place : Nat, time : 0 .. now]]
    BY <1>1, <1>3 DEF Inv, TypeOK
  <2>3. QED BY <1>1, <1>2, <2>1, <2>2 DEF Inv, TypeOK, Entry
<1>6. /\ began'[r] = [place |-> Cardinality(Begun) + 1, time |-> now]
      /\ \A s \in Requests \ {r} : began'[s] = began[s] /\ phase'[s] = phase[s]
      /\ phase'[r] = "open"
  BY <1>1 DEF Inv, TypeOK
<1>7. \A i \in 1 .. n : /\ entries[i].context \in Begun
                        /\ entries[i].context \in Requests \ {r}
  BY <1>2, <1>3, EntryFacts
<1>8. PlacesBounded'
  <2>1. \A s \in Begun' : began'[s].place <= Cardinality(Begun')
    <3> SUFFICES ASSUME NEW s \in Begun'
                 PROVE  began'[s].place <= Cardinality(Begun')
      OBVIOUS
    <3>1. CASE s = r
      BY <1>3, <1>4, <1>6, <3>1
    <3>2. CASE s # r
      <4>1. s \in Begun /\ s \in Requests \ {r}
        BY <1>3, <3>2 DEF Begun
      <4>2. began[s].place \in Nat /\ began[s].place <= Cardinality(Begun)
        BY <4>1 DEF Inv, TypeOK, PlacesBounded
      <4>3. QED BY <1>3, <1>4, <1>6, <4>1, <4>2
    <3>3. QED BY <3>1, <3>2
  <2>2. QED BY <1>4, <2>1 DEF PlacesBounded
<1>9. SeenWhenBegun'
  <2>1. \A i \in 1 .. n : entries'[i].seen = began'[entries'[i].context].time
    BY <1>2, <1>6, <1>7 DEF Inv, SeenWhenBegun
  <2>2. entries'[n + 1].seen = began'[entries'[n + 1].context].time
    BY <1>2, <1>6
  <2>3. \A i \in 1 .. n + 1 : i \in 1 .. n \/ i = n + 1
    BY <1>2
  <2>4. QED BY <1>2, <2>1, <2>2, <2>3 DEF SeenWhenBegun
<1>10. StackIsOpenRequests'
  <2>1. Stacked' = {s \in Requests : phase'[s] \notin {"idle", "ended"}}
    <3>1. Stacked' = Stacked \cup {r}
      <4>1. \A i \in 1 .. n + 1 : i \in 1 .. n \/ i = n + 1
        BY <1>2
      <4>2. n + 1 \in DOMAIN entries' /\ \A i \in 1 .. n : i \in DOMAIN entries'
        BY <1>2
      <4>3. QED BY <1>2, <4>1, <4>2 DEF Stacked
    <3>2. Stacked = {s \in Requests : phase[s] \notin {"idle", "ended"}}
      BY DEF Inv, StackIsOpenRequests
    <3>3. QED BY <1>6, <3>1, <3>2
  <2>2. \A i, j \in DOMAIN entries' :
          i < j => /\ began'[entries'[i].context].place < began'[entries'[j].context].place
                   /\ entries'[i].seen <= entries'[j].seen
    <3> SUFFICES ASSUME NEW i \in 1 .. n + 1, NEW j \in 1 .. n + 1, i < j
                 PROVE  /\ began'[entries'[i].context].place < began'[entries'[j].context].place
                        /\ entries'[i].seen <= entries'[j].seen
      BY <1>2
    <3>1. i \in 1 .. n /\ i \in DOMAIN entries
      BY <1>2
    <3>2. CASE j \in 1 .. n
      BY <1>2, <1>6, <1>7, <3>1, <3>2 DEF Inv, StackIsOpenRequests
    <3>3. CASE j = n + 1
      <4>1. began'[entries'[j].context].place = Cardinality(Begun) + 1 /\ entries'[j].seen = now
        BY <1>2, <1>6, <3>3
      <4>2. /\ began'[entries'[i].context].place = began[entries[i].context].place
            /\ entries'[i].seen = entries[i].seen
        BY <1>2, <1>6, <1>7, <3>1
      <4>3. /\ began[entries[i].context].place \in Nat
            /\ began[entries[i].context].place <= Cardinality(Begun)
            /\ entries[i].seen <= now
        BY <1>7, <3>1, EntryFacts DEF Inv, PlacesBounded
      <4>4. QED BY <1>3, <4>1, <4>2, <4>3
    <3>4. QED BY <1>2, <3>2, <3>3
  <2>3. QED BY <2>1, <2>2 DEF StackIsOpenRequests
<1>11. QED BY <1>5, <1>8, <1>9, <1>10 DEF Inv

(* RemoveAt closes the gap it makes.                                         *)
LEMMA RemoveProperties ==
  ASSUME NEW S, NEW s \in Seq(S), NEW k \in 1 .. Len(s)
  PROVE  /\ RemoveAt(s, k) \in Seq(S)
         /\ Len(RemoveAt(s, k)) = Len(s) - 1
         /\ \A i \in 1 .. Len(s) - 1 :
              RemoveAt(s, k)[i] = s[IF i < k THEN i ELSE i + 1]
<1> DEFINE a == SubSeq(s, 1, k - 1)
           b == SubSeq(s, k + 1, Len(s))
<1>1. Len(s) \in Nat /\ k \in Int /\ 1 <= k /\ k <= Len(s)
  OBVIOUS
<1>2. /\ a \in Seq(S) /\ Len(a) = k - 1
      /\ \A i \in 1 .. k - 1 : a[i] = s[i]
  <2>1. \A i \in 1 .. k - 1 : s[i] \in S
    BY <1>1
  <2>2. /\ a \in Seq(S)
        /\ Len(a) = IF 1 <= k - 1 THEN (k - 1) - 1 + 1 ELSE 0
        /\ \A i \in 1 .. (k - 1) - 1 + 1 : a[i] = s[1 + i - 1]
    BY <1>1, <2>1, SubSeqProperties
  <2> HIDE DEF a
  <2>3. QED BY <1>1, <2>2
<1>3. /\ b \in Seq(S) /\ Len(b) = Len(s) - k
      /\ \A i \in 1 .. Len(s) - k : b[i] = s[k + i]
  <2>1. \A i \in k + 1 .. Len(s) : s[i] \in S
    BY <1>1
  <2>2. /\ b \in Seq(S)
        /\ Len(b) = IF k + 1 <= Len(s) THEN Len(s) - (k + 1) + 1 ELSE 0
        /\ \A i \in 1 .. Len(s) - (k + 1) + 1 : b[i] = s[(k + 1) + i - 1]
    BY <1>1, <2>1, SubSeqProperties
  <2> HIDE DEF b
  <2>3. QED BY <1>1, <2>2
<1>4. RemoveAt(s, k) = a \o b
  BY DEF RemoveAt
<1> HIDE DEF a, b
<1>5. /\ a \o b \in Seq(S) /\ Len(a \o b) = Len(s) - 1
      /\ \A i \in 1 .. Len(a) + Len(b) :
            (a \o b)[i] = IF i <= Len(a) THEN a[i] ELSE b[i - Len(a)]
  <2>1. /\ a \o b \in Seq(S) /\ Len(a \o b) = Len(a) + Len(b)
        /\ \A i \in 1 .. Len(a) + Len(b) :
              (a \o b)[i] = IF i <= Len(a) THEN a[i] ELSE b[i - Len(a)]
    BY <1>2, <1>3, ConcatProperties, Zenon
  <2>2. QED BY <1>1, <1>2, <1>3, <2>1
<1>6. \A i \in 1 .. Len(s) - 1 : (a \o b)[i] = s[IF i < k THEN i ELSE i + 1]
  <2> SUFFICES ASSUME NEW i \in 1 .. Len(s) - 1
               PROVE  (a \o b)[i] = s[IF i < k THEN i ELSE i + 1]
    OBVIOUS
  <2>1. i \in 1 .. Len(a) + Len(b)
    BY <1>1, <1>2, <1>3
  <2>2. CASE i < k
    BY <1>1, <1>2, <1>5, <2>1, <2>2
  <2>3. CASE ~ (i < k)
    <3>1. i - Len(a) \in 1 .. Len(s) - k /\ ~ (i <= Len(a)) /\ k + (i - Len(a)) = i + 1
      BY <1>1, <1>2, <2>3
    <3>2. QED BY <1>3, <1>5, <2>1, <2>3, <3>1
  <2>4. QED BY <2>2, <2>3
<1>7. QED BY <1>4, <1>5, <1>6

(* ClearActive takes out the one entry of a request that is on the stack.  *)
LEMMA ClearActiveRemoves ==
  ASSUME Inv, NEW k \in DOMAIN entries, ClearActive(entries[k].context)
  PROVE  entries' = RemoveAt(entries, k)
<1> DEFINE matching == {i \in DOMAIN entries : entries[i].context = entries[k].context}
<1>1. matching = {k}
  BY EntriesUnique
<1>2. Max(matching) = k
  <2>1. k \in matching /\ matching \in SUBSET Nat /\ \A y \in matching : k >= y
    BY <1>1, EntryFacts
  <2> HIDE DEF matching
  <2>2. QED BY <2>1, MaxIs
<1>3. QED BY <1>1, <1>2 DEF ClearActive

(* OnSpanEnd takes the request's entry out, and the others close up.       *)
LEMMA EndInv ==
  ASSUME Inv, NEW r \in Requests, End(r)
  PROVE  Inv'
<1> DEFINE n == Len(entries)
<1>1. /\ now \in Nat /\ now' = now /\ phase[r] = "submitted"
      /\ entries \in Seq(Entry) /\ n \in Nat /\ DOMAIN entries = 1 .. n
      /\ phase' = [phase EXCEPT ![r] = "ended"]
      /\ UNCHANGED <<began, query, parent, submitted>>
  BY DEF End, queryVars, Inv, TypeOK, Entry
<1>2. PICK k \in 1 .. n : entries[k].context = r
  <2>1. r \in Stacked
    BY <1>1 DEF Inv, StackIsOpenRequests
  <2>2. QED BY <1>1, <2>1 DEF Stacked
<1>3. entries' = RemoveAt(entries, k)
  BY <1>1, <1>2, ClearActiveRemoves DEF End
<1> DEFINE old(i) == IF i < k THEN i ELSE i + 1
<1>4. /\ entries' \in Seq(Entry) /\ Len(entries') = n - 1 /\ DOMAIN entries' = 1 .. n - 1
      /\ \A i \in 1 .. n - 1 : entries'[i] = entries[old(i)]
  <2>1. /\ RemoveAt(entries, k) \in Seq(Entry) /\ Len(RemoveAt(entries, k)) = n - 1
        /\ \A i \in 1 .. n - 1 : RemoveAt(entries, k)[i] = entries[IF i < k THEN i ELSE i + 1]
    BY <1>1, RemoveProperties
  <2>2. QED BY <1>1, <1>3, <2>1
<1>5. \A i \in 1 .. n - 1 : /\ old(i) \in 1 .. n /\ old(i) # k
                            /\ entries[old(i)].context \in Requests \ {r}
  <2> SUFFICES ASSUME NEW i \in 1 .. n - 1
               PROVE  /\ old(i) \in 1 .. n /\ old(i) # k
                      /\ entries[old(i)].context \in Requests \ {r}
    OBVIOUS
  <2>1. old(i) \in 1 .. n /\ old(i) # k
    BY <1>1
  <2> HIDE DEF old
  <2>2. QED BY <1>1, <1>2, <2>1, EntryFacts, EntriesUnique
<1>6. /\ \A s \in Requests \ {r} : phase'[s] = phase[s]
      /\ phase'[r] = "ended" /\ phase' \in [Requests -> Phases]
  BY <1>1 DEF Inv, TypeOK, Phases
<1>7. TypeOK'
  BY <1>1, <1>4, <1>6 DEF Inv, TypeOK, Entry
<1>8. Begun' = Begun
  BY <1>1, <1>6 DEF Begun
<1>9. PlacesBounded'
  BY <1>1, <1>8 DEF Inv, PlacesBounded
<1>10. SeenWhenBegun'
  <2> SUFFICES ASSUME NEW i \in 1 .. n - 1 PROVE entries'[i].seen = began[entries'[i].context].time
    BY <1>1, <1>4 DEF SeenWhenBegun
  <2>1. old(i) \in 1 .. n /\ entries'[i] = entries[old(i)]
    BY <1>4, <1>5
  <2> HIDE DEF old
  <2>2. entries[old(i)].seen = began[entries[old(i)].context].time
    BY <1>1, <2>1 DEF Inv, SeenWhenBegun
  <2>3. QED BY <2>1, <2>2
<1>11. StackIsOpenRequests'
  <2>1. Stacked' = Stacked \ {r}
    <3>1. \A i \in 1 .. n - 1 : entries'[i].context \in Stacked \ {r}
      BY <1>1, <1>4, <1>5 DEF Stacked
    <3>2. \A j \in 1 .. n : j # k => \E i \in 1 .. n - 1 : entries'[i] = entries[j]
      <4> SUFFICES ASSUME NEW j \in 1 .. n, j # k
                   PROVE  \E i \in 1 .. n - 1 : entries'[i] = entries[j]
        OBVIOUS
      <4>1. CASE j < k
        <5>1. j \in 1 .. n - 1 /\ old(j) = j
          BY <1>1, <4>1
        <5>2. QED BY <1>4, <5>1
      <4>2. CASE j > k
        <5>1. j - 1 \in 1 .. n - 1 /\ old(j - 1) = j
          BY <1>1, <4>2
        <5>2. QED BY <1>4, <5>1
      <4>3. QED BY <1>1, <4>1, <4>2
    <3>3. \A c \in Stacked \ {r} : c \in Stacked'
      <4> SUFFICES ASSUME NEW c \in Stacked, c # r PROVE c \in Stacked'
        OBVIOUS
      <4>1. PICK j \in 1 .. n : entries[j].context = c
        BY <1>1 DEF Stacked
      <4>2. PICK i \in 1 .. n - 1 : entries'[i] = entries[j]
        BY <1>2, <3>2, <4>1
      <4>3. i \in DOMAIN entries' /\ entries'[i].context = c
        BY <1>4, <4>1, <4>2
      <4>4. QED BY <4>3 DEF Stacked
    <3>4. \A c \in Stacked' : c \in Stacked \ {r}
      <4> SUFFICES ASSUME NEW c \in Stacked' PROVE c \in Stacked \ {r}
        OBVIOUS
      <4>1. PICK i \in DOMAIN entries' : c = entries'[i].context
        BY DEF Stacked
      <4>2. QED BY <1>4, <3>1, <4>1
    <3>5. QED BY <3>3, <3>4
  <2>2. Stacked' = {s \in Requests : phase'[s] \notin {"idle", "ended"}}
    BY <1>6, <2>1 DEF Inv, StackIsOpenRequests
  <2>3. \A i, j \in DOMAIN entries' :
          i < j => /\ began'[entries'[i].context].place < began'[entries'[j].context].place
                   /\ entries'[i].seen <= entries'[j].seen
    <3> SUFFICES ASSUME NEW i \in 1 .. n - 1, NEW j \in 1 .. n - 1, i < j
                 PROVE  /\ began[entries[old(i)].context].place
                               < began[entries[old(j)].context].place
                        /\ entries[old(i)].seen <= entries[old(j)].seen
      BY <1>1, <1>4, SMTT(30)
    <3>1. old(i) < old(j) /\ old(i) \in DOMAIN entries /\ old(j) \in DOMAIN entries
      BY <1>1
    <3> HIDE DEF old
    <3>2. QED BY <3>1 DEF Inv, StackIsOpenRequests
  <2>4. QED BY <2>2, <2>3 DEF StackIsOpenRequests
<1>12. QED BY <1>7, <1>9, <1>10, <1>11 DEF Inv

(* The other steps of a handler change nothing the stack depends on.       *)
LEMMA HandlerInv ==
  ASSUME Inv, NEW r \in Requests, Relay(r) \/ SubmitSpan(r) \/ Abort(r)
  PROVE  Inv'
<1>1. PICK new \in {"relayed", "submitted", "aborted"} :
         /\ phase' = [phase EXCEPT ![r] = new]
         /\ phase[r] \in {"open", "relayed"}
         /\ UNCHANGED <<now, entries, began, query, parent>>
         /\ submitted' \in {submitted, submitted \cup {r}}
  <2>1. CASE Relay(r)
    BY <2>1 DEF Relay, queryVars
  <2>2. CASE SubmitSpan(r)
    BY <2>2 DEF SubmitSpan, queryVars
  <2>3. CASE Abort(r)
    BY <2>3 DEF Abort, queryVars
  <2>4. QED BY <2>1, <2>2, <2>3
<1>2. /\ \A s \in Requests \ {r} : phase'[s] = phase[s]
      /\ phase'[r] = new /\ phase' \in [Requests -> Phases]
  BY <1>1 DEF Inv, TypeOK, Phases
<1>3. TypeOK'
  BY <1>1, <1>2 DEF Inv, TypeOK
<1>4. Begun' = Begun /\ Stacked' = Stacked
  BY <1>1, <1>2 DEF Begun, Stacked
<1>5. StackIsOpenRequests'
  <2>1. Stacked' = {s \in Requests : phase'[s] \notin {"idle", "ended"}}
    BY <1>1, <1>2, <1>4 DEF Inv, StackIsOpenRequests
  <2>2. QED BY <1>1, <2>1 DEF Inv, StackIsOpenRequests
<1>6. PlacesBounded' /\ SeenWhenBegun'
  BY <1>1, <1>4 DEF Inv, PlacesBounded, SeenWhenBegun
<1>7. QED BY <1>3, <1>5, <1>6 DEF Inv

(* A query's steps touch neither the requests nor the stack.               *)
LEMMA QueryInv ==
  ASSUME Inv, NEW q \in SQLQueries, Issue(q) \/ Answer(q) \/ Report(q)
  PROVE  Inv'
<1>1. UNCHANGED <<now, entries, phase, began, submitted>>
  BY DEF Issue, Answer, Report, requestVars
<1>2. /\ query' \in [SQLQueries -> [status : Statuses, owner : Requests \cup {NoContext},
                                    comment : {"OK", "Invalid", "Absent"}]]
      /\ parent' \in [SQLQueries -> Requests \cup {NoContext}]
  <2>1. CASE Issue(q)
    <3>1. PICK r \in Requests, c \in Comments :
            /\ query' = [query EXCEPT ![q] = [status |-> "sent", owner |-> r, comment |-> c]]
            /\ parent' = parent
      BY <2>1 DEF Issue
    <3>2. QED BY <3>1, CommentsAssumption DEF Inv, TypeOK, Statuses
  <2>2. CASE Answer(q)
    BY <2>2 DEF Answer, Inv, TypeOK, Statuses
  <2>3. CASE Report(q)
    <3>1. Correlate \in Requests \cup {NoContext}
      BY CorrelateIsTop, EntryFacts
    <3>2. Context(q) \in Requests \cup {NoContext}
      BY <3>1 DEF Context, Inv, TypeOK
    <3>3. query' = [query EXCEPT ![q].status = "reported"] /\ parent' = [parent EXCEPT ![q] = Context(q)]
      BY <2>3 DEF Report
    <3>4. parent' \in [SQLQueries -> Requests \cup {NoContext}]
      BY <3>2, <3>3 DEF Inv, TypeOK
    <3>5. query' \in [SQLQueries -> [status : Statuses, owner : Requests \cup {NoContext},
                                     comment : {"OK", "Invalid", "Absent"}]]
      BY <3>3 DEF Inv, TypeOK, Statuses
    <3>6. QED BY <3>4, <3>5
  <2>4. QED BY <2>1, <2>2, <2>3
<1>3. TypeOK'
  BY <1>1, <1>2 DEF Inv, TypeOK
<1>4. QED BY <1>1, <1>3 DEF Inv, StackIsOpenRequests, Stacked, PlacesBounded, Begun,
                           SeenWhenBegun

(* Time passes: what lies in the past stays there.                         *)
LEMMA TickInv ==
  ASSUME Inv, Tick
  PROVE  Inv'
<1>1. /\ now \in Nat /\ now' = now + 1 /\ 0 .. now \subseteq 0 .. now'
      /\ UNCHANGED <<entries, phase, began, submitted, query, parent>>
  BY DEF Inv, TypeOK, Tick, requestVars, queryVars
<1>2. entries \in Seq([context : Requests, seen : 0 .. now'])
  <2>1. [context : Requests, seen : 0 .. now] \subseteq [context : Requests, seen : 0 .. now']
    BY <1>1
  <2>2. QED BY <2>1, SeqMonotonic DEF Inv, TypeOK
<1>3. began \in [Requests -> [place : Nat, time : 0 .. now']]
  BY <1>1 DEF Inv, TypeOK
<1>4. TypeOK'
  BY <1>1, <1>2, <1>3 DEF Inv, TypeOK
<1>5. QED BY <1>1, <1>4 DEF Inv, StackIsOpenRequests, Stacked, PlacesBounded, Begun,
                           SeenWhenBegun

(* Every step preserves the invariant.                                     *)
LEMMA InvInductive == Inv /\ [Next]_vars => Inv'
<1> SUFFICES ASSUME Inv, [Next]_vars PROVE Inv'
  OBVIOUS
<1>1. ASSUME NEW r \in Requests,
             Begin(r) \/ Relay(r) \/ SubmitSpan(r) \/ End(r) \/ Abort(r)
      PROVE  Inv'
  BY <1>1, BeginInv, EndInv, HandlerInv
<1>2. ASSUME NEW q \in SQLQueries, Issue(q) \/ Answer(q) \/ Report(q)
      PROVE  Inv'
  BY <1>2, QueryInv
<1>3. CASE Tick
  BY <1>3, TickInv
<1>4. CASE UNCHANGED vars
  BY <1>4 DEF vars, requestVars, queryVars, Inv, TypeOK, StackIsOpenRequests, Stacked,
              PlacesBounded, Begun, SeenWhenBegun
<1>5. QED BY <1>1, <1>2, <1>3, <1>4 DEF Next

-----------------------------------------------------------------------------
(* The inductive invariant holds in every reachable state.                 *)
THEOREM InvHolds == Spec => []Inv
<1>1. QED BY InitInv, InvInductive, PTL DEF Spec

(* Every variable keeps its type, and no entry comes from the future.      *)
THEOREM TypeCorrect == Spec => []TypeOK
<1>1. Inv => TypeOK
  BY DEF Inv
<1>2. QED BY <1>1, InvHolds, PTL

(* However SetActive and ClearActive of concurrent requests interleave,    *)
(* the stack holds the requests under way, each once, in the order in      *)
(* which they began.                                                       *)
THEOREM StackAlwaysOpenRequests == Spec => []StackIsOpenRequests
<1>1. Inv => StackIsOpenRequests
  BY DEF Inv
<1>2. QED BY <1>1, InvHolds, PTL

(* The context a step reports a span under.                                *)
LEMMA ReportStep ==
  ASSUME Inv, [Next]_vars, NEW q \in SQLQueries, ReportNow(q)
  PROVE  parent'[q] = Context(q)
<1>1. query'[q].status # query[q].status /\ query[q].status = "answered"
      /\ query'[q].status = "reported"
  BY DEF ReportNow
<1>2. Next
  BY <1>1 DEF vars, queryVars
<1>3. ASSUME NEW r \in Requests,
             Begin(r) \/ Relay(r) \/ SubmitSpan(r) \/ End(r) \/ Abort(r)
      PROVE  query' = query
  BY <1>3 DEF Begin, Relay, SubmitSpan, End, Abort, queryVars
<1>4. Tick => query' = query
  BY DEF Tick, queryVars
<1>5. PICK p \in SQLQueries : Issue(p) \/ Answer(p) \/ Report(p)
  BY <1>1, <1>2, <1>3, <1>4 DEF Next
<1>6. ~ Issue(p) /\ ~ Answer(p)
  <2>1. SUFFICES ASSUME Issue(p) \/ Answer(p) PROVE FALSE
    OBVIOUS
  <2>2. query'[q] = query[q] \/ query'[q].status \in {"sent", "answered"}
    BY <2>1 DEF Issue, Answer, Inv, TypeOK
  <2>3. QED BY <1>1, <2>2
<1>7. Report(p) /\ p = q
  <2>1. Report(p)
    BY <1>5, <1>6
  <2>2. QED BY <1>1, <2>1 DEF Report, Inv, TypeOK
<1>8. QED BY <1>7 DEF Report, Inv, TypeOK

(* Correlate never hands out a request that has ended or that began TTL or *)
(* longer ago, for any number of requests at a time.                       *)
THEOREM AlwaysReportedUnderLive == Spec => ReportedUnderLiveRequest
<1>1. ASSUME Inv, [Next]_vars, NEW q \in SQLQueries, ReportNow(q),
             query[q].comment # "OK", parent'[q] # NoContext
      PROVE  /\ phase[parent'[q]] \notin {"idle", "ended"}
             /\ now - began[parent'[q]].time < TTL
  <2>1. parent'[q] = Correlate
    BY <1>1, ReportStep DEF Context
  <2>2. /\ Len(entries) \in DOMAIN entries
        /\ parent'[q] = entries[Len(entries)].context
        /\ now - entries[Len(entries)].seen < TTL
    BY <1>1, <2>1, CorrelateIsTop
  <2>3. entries[Len(entries)].seen = began[parent'[q]].time
    BY <1>1, <2>2 DEF Inv, SeenWhenBegun
  <2>4. parent'[q] \in Stacked
    BY <2>2 DEF Stacked
  <2>5. QED BY <1>1, <2>2, <2>3, <2>4 DEF Inv, StackIsOpenRequests
<1>2. Inv /\ [Next]_vars =>
        [\A q \in SQLQueries :
           ReportNow(q) /\ query[q].comment # "OK" /\ parent'[q] # NoContext
             => /\ phase[parent'[q]] \notin {"idle", "ended"}
                /\ now - began[parent'[q]].time < TTL]_vars
  BY <1>1
<1>3. QED BY <1>2, InvHolds, PTL DEF Spec, ReportedUnderLiveRequest

(* A query whose comment is valid, and one that is reported while its      *)
(* request is under way, young, and the latest on the stack, is filed      *)
(* under its request, whatever other requests came and went.               *)
THEOREM AlwaysFiledWhenLatest == Spec => FiledWhenLatest
<1>1. ASSUME Inv, [Next]_vars, NEW q \in SQLQueries, ReportNow(q),
             \/ query[q].comment = "OK"
             \/ /\ Latest(query[q].owner)
                /\ now - began[query[q].owner].time < TTL
      PROVE  parent'[q] = query[q].owner
  <2>1. parent'[q] = Context(q)
    BY <1>1, ReportStep
  <2>2. CASE query[q].comment = "OK"
    BY <2>1, <2>2 DEF Context
  <2>3. CASE /\ query[q].comment # "OK"
             /\ Latest(query[q].owner)
             /\ now - began[query[q].owner].time < TTL
    <3> DEFINE r == query[q].owner
               top == Len(entries)
    <3>1. r \in Stacked
      BY <1>1, <2>3 DEF Latest, Handling, Inv, StackIsOpenRequests
    <3>2. PICK k \in DOMAIN entries : entries[k].context = r
      BY <3>1 DEF Stacked
    <3>3. now - entries[k].seen < TTL
      BY <1>1, <2>3, <3>2 DEF Inv, SeenWhenBegun
    <3>4. top \in DOMAIN entries /\ Correlate = entries[top].context
      BY <1>1, <3>3, CorrelateIsTop
    <3>5. entries[top].context \in Stacked
      BY <3>4 DEF Stacked
    <3>6. began[entries[top].context].place <= began[r].place
      BY <2>3, <3>5 DEF Latest
    <3>7. k = top
      <4>1. ~ (k < top)
        <5>1. k < top => began[r].place < began[entries[top].context].place
          BY <1>1, <3>2, <3>4 DEF Inv, StackIsOpenRequests
        <5>2. began[r].place \in Nat /\ began[entries[top].context].place \in Nat
          BY <1>1, <3>2, <3>4, EntryFacts
        <5>3. QED BY <3>6, <5>1, <5>2
      <4>2. k \in 1 .. top
        BY <1>1, <3>2, EntryFacts
      <4>3. QED BY <1>1, <4>1, <4>2 DEF Inv, TypeOK
    <3>8. Correlate = r
      BY <3>2, <3>4, <3>7
    <3>9. QED BY <2>1, <2>3, <3>8 DEF Context
  <2>4. QED BY <1>1, <2>2, <2>3
<1>2. Inv /\ [Next]_vars =>
        [\A q \in SQLQueries :
           LET r == query[q].owner
           IN  ReportNow(q) /\ \/ query[q].comment = "OK"
                               \/ Latest(r) /\ now - began[r].time < TTL
                 => parent'[q] = r]_vars
  BY <1>1
<1>3. QED BY <1>2, InvHolds, PTL DEF Spec, FiledWhenLatest

-----------------------------------------------------------------------------
(* The comments of queries, for statements and comments of every length.   *)

Words  == Symbols \cup {"comma", "=", "'", "key", "valid", "short", "escape"}
InBody == Words \ {"/", "*"}

(* A pair as it stands in the comment. *)
Piece(p) == blank \o WritePair(p)

(* f says after which place of the comment each pair begins: the start or  *)
(* a comma, of which there are no others.                                  *)
LaidOut(f) ==
  LET n == Len(pairs) IN
  /\ f \in [1 .. n -> Nat]
  /\ n > 0 => f[1] = 0
  /\ \A i \in 1 .. n - 1 : f[i + 1] = f[i] + Len(Piece(pairs[i])) + 1
  /\ \A i \in 1 .. n, k \in 1 .. n : i < k => f[i] + Len(Piece(pairs[i])) < f[k]
  /\ \A i \in 2 .. n : f[i] \in 1 .. Len(written) /\ written[f[i]] = "comma"
  /\ \A i \in 1 .. n : \A j \in 1 .. Len(Piece(pairs[i])) : written[f[i] + j] = Piece(pairs[i])[j]
  /\ \A x \in 1 .. Len(written) : written[x] = "comma" => \E i \in 2 .. n : x = f[i]
  /\ Len(written) = IF n = 0 THEN 0 ELSE f[n] + Len(Piece(pairs[n]))

CommentInv ==
  /\ blank \in {<<>>, <<"space">>}
  /\ statement \in Seq(Words)
  /\ pairs \in Seq(Pairs)
  /\ written \in Seq(InBody)
  /\ \E f : LaidOut(f)

-----------------------------------------------------------------------------
(* Sequences. *)

(* An element below all others is what Min picks. *)
LEMMA MinIs ==
  ASSUME NEW S \in SUBSET Nat, NEW m \in S, \A y \in S : m <= y
  PROVE  Min(S) = m
<1>1. \E x \in S : \A y \in S : x <= y
  OBVIOUS
<1>2. Min(S) \in S /\ \A y \in S : Min(S) <= y
  BY <1>1, Zenon DEF Min
<1>3. Min(S) <= m /\ m <= Min(S)
  BY <1>2
<1>4. Min(S) \in Nat /\ m \in Nat
  BY <1>2
<1>5. QED BY <1>3, <1>4

(* A subsequence of one element. *)
LEMMA SubSeqOne ==
  ASSUME NEW S, NEW s \in Seq(S), NEW k \in 1 .. Len(s)
  PROVE  SubSeq(s, k, k) = <<s[k]>>
<1>1. \A i \in k .. k : s[i] \in S
  OBVIOUS
<1>2. PICK t : t = SubSeq(s, k, k)
  OBVIOUS
<1>3. t \in Seq(S) /\ Len(t) = 1 /\ t[1] = s[k]
  <2>1. k \in Int /\ 1 \in 1 .. k - k + 1 /\ k + 1 - 1 = k
    OBVIOUS
  <2>2. /\ t \in Seq(S) /\ Len(t) = IF k <= k THEN k - k + 1 ELSE 0
        /\ \A i \in 1 .. k - k + 1 : t[i] = s[k + i - 1]
    BY <1>1, <1>2, <2>1, SubSeqProperties
  <2>3. k <= k /\ k - k + 1 = 1
    BY <2>1
  <2>4. t[1] = s[k]
    BY <2>1, <2>2, <2>3, Zenon
  <2>5. QED BY <2>2, <2>3, <2>4, Zenon
<1>4. t = <<s[k]>>
  BY <1>3
<1>5. QED BY <1>2, <1>4

(* What is trimmed at the end.                                             *)
LEMMA TrimRightIs ==
  ASSUME NEW S, NEW s \in Seq(S), NEW k \in Nat, k <= Len(s), k = 0 \/ s[k] # "space",
         \A i \in k + 1 .. Len(s) : s[i] = "space"
  PROVE  TrimRight(s) = SubSeq(s, 1, k)
<1>1. PICK I : I = {i \in 1 .. Len(s) : s[i] # "space"}
  OBVIOUS
<1>2. SelectLastInSeq(s, LAMBDA x : x # "space") = IF I # {} THEN Max(I) ELSE 0
  BY <1>1, Zenon DEF SelectLastInSeq
<1>3. CASE k = 0
  <2>1. I = {}
    BY <1>1, <1>3
  <2>2. QED BY <1>2, <1>3, <2>1 DEF TrimRight
<1>4. CASE k > 0
  <2>1. k \in I /\ I \in SUBSET Nat
    BY <1>1, <1>4
  <2>2. \A y \in I : k >= y
    BY <1>1, <1>4
  <2>3. Max(I) = k
    BY <2>1, <2>2, MaxIs
  <2>4. QED BY <1>2, <2>1, <2>3 DEF TrimRight
<1>5. QED BY <1>3, <1>4

(* What is trimmed at both ends.                                           *)
Kept(s, x, a, b) ==
  /\ a \in 1 .. Len(s) /\ b \in a .. Len(s) /\ s[a] # x /\ s[b] # x
  /\ \A i \in 1 .. a - 1 : s[i] = x
  /\ \A i \in b + 1 .. Len(s) : s[i] = x

(* What is trimmed at both ends. *)
LEMMA TrimBothIs ==
  ASSUME NEW S, NEW s \in Seq(S), NEW x, NEW a, NEW b, Kept(s, x, a, b)
  PROVE  TrimBoth(s, x) = SubSeq(s, a, b)
<1> USE DEF Kept
<1>1. PICK I : I = {i \in DOMAIN s : s[i] # x}
  OBVIOUS
<1>2. I \in SUBSET Nat /\ a \in I /\ b \in I /\ (\A i \in I : i \in 1 .. Len(s) /\ s[i] # x)
  BY <1>1
<1>3. (\A y \in I : a <= y) /\ (\A y \in I : b >= y)
  BY <1>2
<1>4. Min(I) = a /\ Max(I) = b
  BY <1>2, <1>3, MinIs, MaxIs
<1>5. I # {}
  BY <1>2
<1>6. QED BY <1>1, <1>4, <1>5, Zenon DEF TrimBoth

(* The first "=" is where a text is cut. *)
LEMMA CutIs ==
  ASSUME NEW S, NEW s \in Seq(S), NEW c \in 1 .. Len(s), s[c] = "=",
         \A i \in 1 .. c - 1 : s[i] # "="
  PROVE  Cut(s) = c
<1>1. PICK I : I = {i \in 1 .. Len(s) : s[i] = "="}
  OBVIOUS
<1>2. I \in SUBSET Nat /\ c \in I /\ \A y \in I : c <= y
  BY <1>1
<1>3. Min(I) = c
  BY <1>2, MinIs
<1>4. QED BY <1>1, <1>2, <1>3, Zenon DEF Cut, SelectInSeq

(* A text without "=" is not cut. *)
LEMMA NoCut ==
  ASSUME NEW S, NEW s \in Seq(S), \A i \in 1 .. Len(s) : s[i] # "="
  PROVE  Cut(s) = 0
<1>1. {i \in 1 .. Len(s) : s[i] = "="} = {}
  OBVIOUS
<1>2. QED BY <1>1, Zenon DEF Cut, SelectInSeq

(* Two symbols in a row. *)
LEMMA AtIs ==
  ASSUME NEW S, NEW s \in Seq(S), NEW i \in 1 .. Len(s) - 1, NEW x, NEW y
  PROVE  At(s, i, <<x, y>>) <=> s[i] = x /\ s[i + 1] = y
<1>1. PICK t : t = SubSeq(s, i, i + 1)
  OBVIOUS
<1>2. t \in Seq(S) /\ Len(t) = 2 /\ t[1] = s[i] /\ t[2] = s[i + 1]
  <2>1. \A k \in i .. i + 1 : s[k] \in S
    OBVIOUS
  <2>2. /\ t \in Seq(S) /\ Len(t) = IF i <= i + 1 THEN (i + 1) - i + 1 ELSE 0
        /\ \A k \in 1 .. (i + 1) - i + 1 : t[k] = s[i + k - 1]
    BY <1>1, <2>1, SubSeqProperties
  <2>3. /\ (i + 1) - i + 1 = 2 /\ i <= i + 1 /\ 1 \in 1 .. 2 /\ 2 \in 1 .. 2
        /\ i + 1 - 1 = i /\ i + 2 - 1 = i + 1
    OBVIOUS
  <2>4. /\ t \in Seq(S) /\ Len(t) = 2
        /\ \A k \in 1 .. 2 : t[k] = s[i + k - 1]
    BY <2>2, <2>3, Zenon
  <2>5. QED BY <2>3, <2>4, Zenon
<1>3. t = <<x, y>> <=> t[1] = x /\ t[2] = y
  BY <1>2
<1>4. i < Len(s)
  OBVIOUS
<1>5. QED BY <1>1, <1>2, <1>3, <1>4, Zenon DEF At

-----------------------------------------------------------------------------
(* The comment as the client writes it. *)

NoComma == InBody \ {"comma"}

(* A pair is written without a comma. *)
LEMMA PairWords ==
  ASSUME NEW p \in Pairs, blank \in {<<>>, <<"space">>}
  PROVE  WritePair(p) \in Seq(NoComma) /\ Piece(p) \in Seq(NoComma) /\ blank \in Seq(NoComma)
<1>1. p.value \in NoComma /\ "=" \in NoComma /\ "'" \in NoComma /\ "space" \in NoComma
  BY DEF Pairs, NoComma, InBody, Words, Symbols
<1>2. blank \in Seq(NoComma)
  <2>1. <<>> \in Seq(NoComma) /\ <<"space">> \in Seq(NoComma)
    BY <1>1
  <2>2. QED BY <2>1
<1>3. CASE p.key = ""
  <2>1. WritePair(p) = <<p.value>>
    BY <1>3 DEF WritePair
  <2>2. WritePair(p) \in Seq(NoComma)
    BY <1>1, <2>1
  <2>3. QED BY <1>2, <2>2, ConcatProperties DEF Piece
<1>4. CASE p.key # ""
  <2>1. p.key \in NoComma
    BY <1>4 DEF Pairs, NoComma, InBody, Words, Symbols
  <2>2. <<p.key>> \in Seq(NoComma) /\ <<"=">> \in Seq(NoComma) /\ <<"'", p.value, "'">> \in Seq(NoComma)
    BY <1>1, <2>1
  <2>3. WritePair(p) = (((<<p.key>> \o blank) \o <<"=">>) \o blank) \o <<"'", p.value, "'">>
    BY <1>4 DEF WritePair
  <2>4. WritePair(p) \in Seq(NoComma)
    BY <1>2, <2>2, <2>3, ConcatProperties
  <2>5. QED BY <1>2, <2>4, ConcatProperties DEF Piece
<1>5. QED BY <1>2, <1>3, <1>4

(* What is written before a pair that follows n others. *)
Before(n) == IF n = 0 THEN <<>> ELSE <<"comma">>

(* A pair more: it is written behind a comma, if it is not the first.      *)
Added(p, n, sep) ==
  /\ n \in Nat /\ blank' = blank /\ statement' = statement
  /\ pairs' \in Seq(Pairs) /\ Len(pairs') = n + 1 /\ pairs'[n + 1] = p
  /\ \A i \in 1 .. n : pairs'[i] = pairs[i]
  /\ written' \in Seq(InBody)
  /\ Len(written') = Len(written) + Len(sep) + Len(Piece(p))
  /\ \A x \in 1 .. Len(written) : written'[x] = written[x]
  /\ n > 0 => written'[Len(written) + 1] = "comma"
  /\ \A j \in 1 .. Len(Piece(p)) : written'[Len(written) + Len(sep) + j] = Piece(p)[j]
  /\ Len(sep) = IF n = 0 THEN 0 ELSE 1

(* AddPair puts a comma and the pair behind what is written. *)
LEMMA PairAdded ==
  ASSUME CommentInv, NEW p \in Pairs, AddPair(p),
         NEW n, n = Len(pairs), NEW sep, sep = Before(n)
  PROVE  Added(p, n, sep)
<1>1. pairs \in Seq(Pairs) /\ written \in Seq(InBody) /\ blank \in {<<>>, <<"space">>} /\ n \in Nat
  BY DEF CommentInv
<1>2. pairs' = Append(pairs, p) /\ blank' = blank /\ statement' = statement
  BY DEF AddPair
<1>3. /\ pairs' \in Seq(Pairs) /\ Len(pairs') = n + 1 /\ pairs'[n + 1] = p
      /\ \A i \in 1 .. n : pairs'[i] = pairs[i]
  BY <1>1, <1>2, AppendProperties
<1>4. /\ sep \in Seq(InBody) /\ Len(sep) = IF n = 0 THEN 0 ELSE 1
      /\ n > 0 => sep[1] = "comma"
  <2>1. "comma" \in InBody
    BY DEF InBody, Words, Symbols
  <2>2. QED BY <1>1, <2>1 DEF Before
<1>5. WritePair(p) \in Seq(InBody) /\ Piece(p) \in Seq(InBody) /\ blank \in Seq(InBody)
  <2>1. NoComma \subseteq InBody
    BY DEF NoComma
  <2>2. QED BY <1>1, <2>1, PairWords, SeqMonotonic
<1>6. written' = (written \o sep) \o Piece(p)
  <2>1. pairs = <<>> <=> n = 0
    BY <1>1, EmptySeq
  <2>2. written' = ((written \o sep) \o blank) \o WritePair(p)
    BY <2>1 DEF AddPair, Before
  <2>3. written \o sep \in Seq(InBody)
    BY <1>1, <1>4, ConcatProperties
  <2>4. PICK a : a = written \o sep
    OBVIOUS
  <2>5. PICK b, c : b = blank /\ c = WritePair(p)
    OBVIOUS
  <2>6. a \in Seq(InBody) /\ b \in Seq(InBody) /\ c \in Seq(InBody)
    BY <1>5, <2>3, <2>4, <2>5, Zenon
  <2>7. (a \o b) \o c = a \o (b \o c)
    BY <2>6, ConcatAssociative
  <2>8. QED BY <2>2, <2>4, <2>5, <2>7, Zenon DEF Piece
<1>7. PICK u : u = written \o sep
  OBVIOUS
<1>8. /\ u \in Seq(InBody) /\ Len(u) = Len(written) + Len(sep)
      /\ \A x \in 1 .. Len(written) + Len(sep) :
           u[x] = IF x <= Len(written) THEN written[x] ELSE sep[x - Len(written)]
  BY <1>1, <1>4, <1>7, ConcatProperties, SMTT(30)
<1>9. PICK v : v = Piece(p)
  OBVIOUS
<1>10. v \in Seq(InBody)
  BY <1>5, <1>9
<1>11. PICK w : w = u \o v
  OBVIOUS
<1>12. /\ w \in Seq(InBody) /\ Len(w) = Len(u) + Len(v)
       /\ \A x \in 1 .. Len(u) + Len(v) : w[x] = IF x <= Len(u) THEN u[x] ELSE v[x - Len(u)]
  <2>1. u \in Seq(InBody)
    BY <1>8
  <2>2. QED BY <1>10, <1>11, <2>1, ConcatProperties
<1>13. Len(written) \in Nat /\ Len(sep) \in Nat /\ Len(u) \in Nat /\ Len(v) \in Nat
  BY <1>1, <1>4, <1>8, <1>10, LenProperties
<1>14. \A x \in 1 .. Len(written) : w[x] = written[x]
  <2> TAKE x \in 1 .. Len(written)
  <2>1. x \in 1 .. Len(written) + Len(sep) /\ x \in 1 .. Len(u) + Len(v) /\ x <= Len(u)
    BY <1>8, <1>13
  <2>2. QED BY <1>8, <1>12, <2>1
<1>15. n > 0 => w[Len(written) + 1] = "comma"
  <2> SUFFICES ASSUME n > 0 PROVE w[Len(written) + 1] = "comma"
    OBVIOUS
  <2>1. Len(sep) = 1 /\ sep[1] = "comma"
    BY <1>4
  <2>2. PICK x : x = Len(written) + 1
    OBVIOUS
  <2>3. /\ x \in 1 .. Len(written) + Len(sep) /\ x \in 1 .. Len(u) + Len(v) /\ x <= Len(u)
        /\ ~ (x <= Len(written)) /\ x - Len(written) = 1
    BY <1>8, <1>13, <2>1, <2>2
  <2>4. QED BY <1>8, <1>12, <2>1, <2>2, <2>3, Zenon
<1>16. \A j \in 1 .. Len(v) : w[Len(written) + Len(sep) + j] = v[j]
  <2> TAKE j \in 1 .. Len(v)
  <2>1. PICK x : x = Len(written) + Len(sep) + j
    OBVIOUS
  <2>2. x \in 1 .. Len(u) + Len(v) /\ ~ (x <= Len(u)) /\ x - Len(u) = j
    BY <1>8, <1>13, <2>1
  <2>3. QED BY <1>12, <2>1, <2>2, Zenon
<1>17. written' = w
  BY <1>6, <1>7, <1>9, <1>11
<1>18. Len(w) = Len(written) + Len(sep) + Len(v)
  BY <1>8, <1>12
<1>19. QED BY <1>1, <1>2, <1>3, <1>4, <1>9, <1>12, <1>14, <1>15, <1>16, <1>17, <1>18, Zenon DEF Added

(* Before the first pair there is nothing to lay out. *)
LEMMA CommentInitInv == CommentInit => CommentInv
<1> SUFFICES ASSUME CommentInit PROVE CommentInv
  OBVIOUS
<1>1. /\ statement = <<>> /\ pairs = <<>> /\ written = <<>> /\ blank \in {<<>>, <<"space">>}
  BY DEF CommentInit
<1>2. Len(pairs) = 0 /\ Len(written) = 0
  BY <1>1
<1>3. PICK f : f = [i \in 1 .. 0 |-> 0]
  OBVIOUS
<1>4. LaidOut(f)
  BY <1>2, <1>3 DEF LaidOut
<1>5. statement \in Seq(Words) /\ pairs \in Seq(Pairs) /\ written \in Seq(InBody)
  BY <1>1
<1>6. QED BY <1>1, <1>4, <1>5 DEF CommentInv

(* The layout depends on the pairs and on how they are written only. *)
LEMMA LaidOutStays ==
  ASSUME UNCHANGED <<pairs, written, blank>>, NEW f, LaidOut(f)
  PROVE  LaidOut(f)'
<1>1. pairs' = pairs /\ written' = written /\ blank' = blank
  OBVIOUS
<1>2. \A p : Piece(p)' = Piece(p)
  BY <1>1, Zenon DEF Piece, WritePair
<1>3. QED BY <1>1, <1>2 DEF LaidOut

(* The statement is no part of the comment. *)
LEMMA WriteInv ==
  ASSUME CommentInv, NEW symbol \in Symbols, Write(symbol)
  PROVE  CommentInv'
<1>1. UNCHANGED <<pairs, written, blank>> /\ statement' = Append(statement, symbol)
  BY DEF Write
<1>2. statement' \in Seq(Words)
  <2>1. statement \in Seq(Words) /\ symbol \in Words
    BY DEF CommentInv, Words
  <2>2. QED BY <1>1, <2>1, AppendProperties
<1>3. \A f : LaidOut(f) => LaidOut(f)'
  BY <1>1, LaidOutStays
<1>4. QED BY <1>1, <1>2, <1>3 DEF CommentInv

(* A new pair stands after the end of those before it. *)
LEMMA AddPairInv ==
  ASSUME CommentInv, NEW p \in Pairs, AddPair(p)
  PROVE  CommentInv'
<1>1. PICK n, sep : n = Len(pairs) /\ sep = Before(n)
  OBVIOUS
<1>2. /\ n \in Nat /\ blank' = blank /\ statement' = statement
      /\ pairs' \in Seq(Pairs) /\ Len(pairs') = n + 1 /\ pairs'[n + 1] = p
      /\ \A i \in 1 .. n : pairs'[i] = pairs[i]
      /\ written' \in Seq(InBody)
      /\ Len(written') = Len(written) + Len(sep) + Len(Piece(p))
      /\ \A x \in 1 .. Len(written) : written'[x] = written[x]
      /\ n > 0 => written'[Len(written) + 1] = "comma"
      /\ \A j \in 1 .. Len(Piece(p)) : written'[Len(written) + Len(sep) + j] = Piece(p)[j]
      /\ Len(sep) = IF n = 0 THEN 0 ELSE 1
  <2>1. Added(p, n, sep)
    BY <1>1, PairAdded, Zenon
  <2>2. QED BY <2>1, Zenon DEF Added
<1>3. PICK f : LaidOut(f)
  BY DEF CommentInv
<1>4. PICK L, s, K : L = Len(written) /\ s = Len(sep) /\ K = Len(Piece(p))
  OBVIOUS
<1>5. L \in Nat /\ K \in Nat /\ s = IF n = 0 THEN 0 ELSE 1
  <2>1. written \in Seq(InBody) /\ Piece(p) \in Seq(NoComma)
    BY PairWords DEF CommentInv
  <2>2. QED BY <1>2, <1>4, <2>1, LenProperties
<1>6. PICK lens : lens = [i \in 1 .. n |-> Len(Piece(pairs[i]))]
  OBVIOUS
<1>7. \A i \in 1 .. n : lens[i] \in Nat /\ lens[i] = Len(Piece(pairs[i]))
  <2> TAKE i \in 1 .. n
  <2>1. pairs[i] \in Pairs /\ blank \in {<<>>, <<"space">>}
    BY <1>1 DEF CommentInv
  <2>2. Piece(pairs[i]) \in Seq(NoComma)
    BY <2>1, PairWords
  <2>3. QED BY <1>6, <2>2, LenProperties
<1>8. /\ f \in [1 .. n -> Nat]
      /\ n > 0 => f[1] = 0
      /\ \A i \in 1 .. n - 1 : f[i + 1] = f[i] + lens[i] + 1
      /\ \A i \in 1 .. n, k \in 1 .. n : i < k => f[i] + lens[i] < f[k]
      /\ \A i \in 2 .. n : f[i] \in 1 .. L /\ written[f[i]] = "comma"
      /\ \A x \in 1 .. L : written[x] = "comma" => \E i \in 2 .. n : x = f[i]
      /\ L = IF n = 0 THEN 0 ELSE f[n] + lens[n]
  <2>1. \A i \in 1 .. n - 1 : i \in 1 .. n
    BY <1>2
  <2>2. n # 0 => n \in 1 .. n
    BY <1>2
  <2>3. QED BY <1>1, <1>3, <1>4, <1>7, <2>1, <2>2, Zenon DEF LaidOut
<1>9. \A i \in 1 .. n : \A j \in 1 .. lens[i] : written[f[i] + j] = Piece(pairs[i])[j]
  BY <1>1, <1>3, <1>7, Zenon DEF LaidOut
<1>10. PICK g : g = [i \in 1 .. n + 1 |-> IF i = n + 1 THEN L + s ELSE f[i]]
  OBVIOUS
<1>11. /\ g \in [1 .. n + 1 -> Nat] /\ g[n + 1] = L + s
       /\ \A i \in 1 .. n : g[i] = f[i]
  BY <1>2, <1>5, <1>8, <1>10
<1>12. PICK lens2 : lens2 = [i \in 1 .. n + 1 |-> IF i = n + 1 THEN K ELSE lens[i]]
  OBVIOUS
<1>13. /\ lens2[n + 1] = K
       /\ \A i \in 1 .. n : lens2[i] = lens[i]
  BY <1>2, <1>12
<1>14. \A i \in 1 .. n + 1 :
         /\ Len(Piece(pairs[i]))' = lens2[i]
         /\ Piece(pairs[i])' = IF i = n + 1 THEN Piece(p) ELSE Piece(pairs[i])
  <2> TAKE i \in 1 .. n + 1
  <2>1. CASE i = n + 1
    <3>1. Piece(pairs[i])' = Piece(p)
      BY <1>2, <2>1 DEF Piece, WritePair
    <3>2. QED BY <1>4, <1>13, <2>1, <3>1, Zenon
  <2>2. CASE i # n + 1
    <3>1. i \in 1 .. n
      BY <1>2, <2>2
    <3>2. Piece(pairs[i])' = Piece(pairs[i])
      BY <1>2, <3>1 DEF Piece, WritePair
    <3>3. QED BY <1>7, <1>13, <2>2, <3>1, <3>2, Zenon
  <2>3. QED BY <2>1, <2>2
<1>15. Len(written') = L + s + K
  BY <1>2, <1>4
<1>16. n > 0 => g[1] = 0
  BY <1>2, <1>8, <1>11
<1>17. g[1] = 0
  <2>1. n = 0 => L + s = 0
    BY <1>5, <1>8
  <2>2. QED BY <1>2, <1>11, <1>16, <2>1
<1>18. \A i \in 1 .. n : g[i + 1] = g[i] + lens2[i] + 1
  <2> TAKE i \in 1 .. n
  <2>1. CASE i = n
    BY <1>2, <1>5, <1>7, <1>8, <1>11, <1>13, <2>1
  <2>2. CASE i # n
    <3>1. i \in 1 .. n - 1 /\ i + 1 \in 1 .. n
      BY <1>2, <2>2
    <3>2. QED BY <1>8, <1>11, <1>13, <3>1
  <2>3. QED BY <2>1, <2>2
<1>19. \A i \in 1 .. n : f[i] + lens[i] <= L
  <2> TAKE i \in 1 .. n
  <2>1. n \in 1 .. n /\ n # 0
    BY <1>2
  <2>2. L = f[n] + lens[n] /\ f[n] \in Nat /\ lens[n] \in Nat /\ f[i] \in Nat /\ lens[i] \in Nat
    BY <1>7, <1>8, <2>1
  <2>3. i = n \/ f[i] + lens[i] < f[n]
    BY <1>8, <2>1
  <2>4. QED BY <2>2, <2>3
<1>20. \A i \in 1 .. n + 1, k \in 1 .. n + 1 : i < k => g[i] + lens2[i] < g[k]
  <2> SUFFICES ASSUME NEW i \in 1 .. n + 1, NEW k \in 1 .. n + 1, i < k
               PROVE  g[i] + lens2[i] < g[k]
    OBVIOUS
  <2>1. i \in 1 .. n /\ g[i] = f[i] /\ lens2[i] = lens[i] /\ f[i] \in Nat /\ lens[i] \in Nat
    BY <1>2, <1>7, <1>8, <1>11, <1>13
  <2>2. CASE k = n + 1
    BY <1>2, <1>5, <1>11, <1>19, <2>1, <2>2
  <2>3. CASE k # n + 1
    <3>1. k \in 1 .. n
      BY <1>2, <2>3
    <3>2. QED BY <1>8, <1>11, <2>1, <3>1
  <2>4. QED BY <2>2, <2>3
<1>21. \A i \in 2 .. n + 1 : g[i] \in 1 .. L + s + K /\ written'[g[i]] = "comma"
  <2> TAKE i \in 2 .. n + 1
  <2>1. CASE i = n + 1
    <3>1. n > 0 /\ s = 1 /\ g[i] = L + 1
      BY <1>2, <1>5, <1>11, <2>1
    <3>2. QED BY <1>2, <1>4, <1>5, <3>1
  <2>2. CASE i # n + 1
    <3>1. i \in 2 .. n /\ i \in 1 .. n
      BY <1>2, <2>2
    <3>2. g[i] = f[i] /\ f[i] \in 1 .. L /\ written[f[i]] = "comma"
      BY <1>8, <1>11, <3>1
    <3>3. written'[f[i]] = written[f[i]]
      BY <1>2, <1>4, <3>2
    <3>4. f[i] \in 1 .. L + s + K
      BY <1>5, <3>2
    <3>5. QED BY <3>2, <3>3, <3>4
  <2>3. QED BY <2>1, <2>2
<1>22. \A i \in 1 .. n + 1 : \A j \in 1 .. lens2[i] : written'[g[i] + j] = Piece(pairs[i])'[j]
  <2> SUFFICES ASSUME NEW i \in 1 .. n + 1, NEW j \in 1 .. lens2[i]
               PROVE  written'[g[i] + j] = Piece(pairs[i])'[j]
    OBVIOUS
  <2>1. CASE i = n + 1
    <3>1. j \in 1 .. K /\ g[i] = L + s /\ Piece(pairs[i])' = Piece(p)
      BY <1>11, <1>13, <1>14, <2>1, Zenon
    <3>2. QED BY <1>2, <1>4, <3>1, Zenon
  <2>2. CASE i # n + 1
    <3>1. i \in 1 .. n
      BY <1>2, <2>2
    <3>2. g[i] = f[i] /\ j \in 1 .. lens[i] /\ Piece(pairs[i])' = Piece(pairs[i])
      BY <1>11, <1>13, <1>14, <2>2, <3>1, Zenon
    <3>3. f[i] + j \in 1 .. L
      <4>1. f[i] \in Nat /\ lens[i] \in Nat /\ f[i] + lens[i] <= L
        BY <1>7, <1>8, <1>19, <3>1
      <4>2. QED BY <1>5, <3>2, <4>1
    <3>4. written'[f[i] + j] = written[f[i] + j]
      BY <1>2, <1>4, <3>3, Zenon
    <3>5. QED BY <1>9, <3>1, <3>2, <3>4, Zenon
  <2>3. QED BY <2>1, <2>2
<1>23. \A x \in 1 .. L + s + K : written'[x] = "comma" => \E i \in 2 .. n + 1 : x = g[i]
  <2> SUFFICES ASSUME NEW x \in 1 .. L + s + K, written'[x] = "comma"
               PROVE  \E i \in 2 .. n + 1 : x = g[i]
    OBVIOUS
  <2>1. CASE x \in 1 .. L
    <3>1. written[x] = "comma"
      BY <1>2, <1>4, <2>1, Zenon
    <3>2. PICK i \in 2 .. n : x = f[i]
      BY <1>8, <2>1, <3>1
    <3>3. i \in 1 .. n /\ i \in 2 .. n + 1
      BY <1>2
    <3>4. QED BY <1>11, <3>2, <3>3
  <2>2. CASE x > L /\ x <= L + s
    <3>1. n > 0 /\ x = L + s /\ n + 1 \in 2 .. n + 1
      BY <1>2, <1>5, <2>2
    <3>2. QED BY <1>11, <3>1
  <2>3. CASE x > L + s
    <3>1. PICK j : j = x - (L + s)
      OBVIOUS
    <3>2. j \in 1 .. K /\ x = L + s + j
      BY <1>5, <2>3, <3>1
    <3>3. written'[x] = Piece(p)[j]
      BY <1>2, <1>4, <3>2, Zenon
    <3>4. Piece(p) \in Seq(NoComma)
      BY PairWords DEF CommentInv
    <3>5. Piece(p)[j] \in NoComma
      BY <1>4, <3>2, <3>4, ElementOfSeq
    <3>6. QED BY <3>3, <3>5 DEF NoComma
  <2>4. QED BY <1>5, <2>1, <2>2, <2>3
<1>24. L + s + K = g[n + 1] + lens2[n + 1] /\ n + 1 # 0 /\ n + 1 > 0 /\ (n + 1) - 1 = n
  BY <1>2, <1>5, <1>11, <1>13
<1>25. LaidOut(g)'
  <2>1. \A i \in 1 .. n : i \in 1 .. n + 1
    BY <1>2
  <2>2. n + 1 \in 1 .. n + 1
    BY <1>2
  <2>3. /\ \A i \in 1 .. n : g[i + 1] = g[i] + Len(Piece(pairs[i]))' + 1
        /\ \A i \in 1 .. n + 1, k \in 1 .. n + 1 : i < k => g[i] + Len(Piece(pairs[i]))' < g[k]
        /\ \A i \in 1 .. n + 1 :
             \A j \in 1 .. Len(Piece(pairs[i]))' : written'[g[i] + j] = Piece(pairs[i])'[j]
        /\ Len(written') = g[n + 1] + Len(Piece(pairs[n + 1]))'
    BY <1>14, <1>15, <1>18, <1>20, <1>22, <1>24, <2>1, <2>2, Zenon
  <2>4. \A i \in 2 .. n + 1 : g[i] \in 1 .. Len(written') /\ written'[g[i]] = "comma"
    BY <1>15, <1>21, Zenon
  <2>5. \A x \in 1 .. Len(written') : written'[x] = "comma" => \E i \in 2 .. n + 1 : x = g[i]
    BY <1>15, <1>23, Zenon
  <2>6. PICK n2 : n2 = Len(pairs')
    OBVIOUS
  <2>7. n2 = n + 1 /\ n2 - 1 = n /\ n2 # 0
    BY <1>2, <1>24, <2>6
  <2>8. QED BY <1>11, <1>17, <2>3, <2>4, <2>5, <2>6, <2>7 DEF LaidOut
<1>26. QED BY <1>2, <1>25 DEF CommentInv

(* Every step of the client keeps the layout. *)
LEMMA CommentInvNext ==
  CommentInv /\ [CommentNext]_<<statement, pairs, written, blank>> => CommentInv'
<1> SUFFICES ASSUME CommentInv, [CommentNext]_<<statement, pairs, written, blank>>
             PROVE  CommentInv'
  OBVIOUS
<1>1. ASSUME NEW x \in Symbols, Write(x) PROVE CommentInv'
  BY <1>1, WriteInv
<1>2. ASSUME NEW p \in Pairs, AddPair(p) PROVE CommentInv'
  BY <1>2, AddPairInv
<1>3. CASE UNCHANGED <<statement, pairs, written, blank>>
  <2>1. \A f : LaidOut(f) => LaidOut(f)'
    BY <1>3, LaidOutStays
  <2>2. QED BY <1>3, <2>1 DEF CommentInv
<1>4. QED BY <1>1, <1>2, <1>3 DEF CommentNext

(* The layout is known at any time. *)
LEMMA CommentInvHolds == CommentSpec => []CommentInv
<1>1. QED BY CommentInitInv, CommentInvNext, PTL DEF CommentSpec

-----------------------------------------------------------------------------
(* The query as the client sends it. *)

(* Where the elements of two sequences are in their concatenation. *)
LEMMA Joined ==
  ASSUME NEW S, NEW a \in Seq(S), NEW b \in Seq(S), NEW c, c = a \o b
  PROVE  /\ c \in Seq(S) /\ Len(c) = Len(a) + Len(b)
         /\ \A i \in 1 .. Len(a) : c[i] = a[i]
         /\ \A j \in 1 .. Len(b) : c[Len(a) + j] = b[j]
<1>1. /\ c \in Seq(S) /\ Len(c) = Len(a) + Len(b)
      /\ \A i \in 1 .. Len(a) + Len(b) : c[i] = IF i <= Len(a) THEN a[i] ELSE b[i - Len(a)]
  BY ConcatProperties
<1>2. Len(a) \in Nat /\ Len(b) \in Nat
  BY LenProperties
<1>3. \A i \in 1 .. Len(a) : i \in 1 .. Len(a) + Len(b) /\ i <= Len(a)
  BY <1>2
<1>4. \A j \in 1 .. Len(b) : Len(a) + j \in 1 .. Len(a) + Len(b) /\ ~ (Len(a) + j <= Len(a))
                              /\ (Len(a) + j) - Len(a) = j
  BY <1>2
<1>5. \A i \in 1 .. Len(a) : c[i] = a[i]
  BY <1>1, <1>3
<1>6. \A j \in 1 .. Len(b) : c[Len(a) + j] = b[j]
  <2> TAKE j \in 1 .. Len(b)
  <2>1. PICK x : x = Len(a) + j
    OBVIOUS
  <2>2. x \in 1 .. Len(a) + Len(b) /\ ~ (x <= Len(a)) /\ x - Len(a) = j
    BY <1>4, <2>1, Zenon
  <2>3. QED BY <1>1, <2>1, <2>2, Zenon
<1>7. QED BY <1>1, <1>5, <1>6

(* What is in the comment, and the query up to its end. *)
Body == written \o blank
Sent == statement \o blank \o Comment

(* q is what precedes a comment, of length L, and the comment.             *)
Sealed(q, L, body) ==
  /\ q \in Seq(Words) /\ L \in Nat /\ body \in Seq(InBody)
  /\ Len(q) = L + Len(body) + 4
  /\ q[L + 1] = "/" /\ q[L + 2] = "*"
  /\ \A j \in 1 .. Len(body) : q[L + 2 + j] = body[j]
  /\ q[L + Len(body) + 3] = "*" /\ q[L + Len(body) + 4] = "/"

(* What the query, the comment and their parts consist of. *)
LEMMA WordsOfQuery ==
  ASSUME CommentInv
  PROVE  /\ statement \in Seq(Words) /\ written \in Seq(Words) /\ blank \in Seq(Words)
         /\ written \in Seq(InBody) /\ blank \in Seq(InBody) /\ blank \in Seq(NoComma)
         /\ <<"/", "*">> \in Seq(Words) /\ <<"*", "/">> \in Seq(Words)
         /\ statement \o blank \in Seq(Words) /\ Body \in Seq(InBody) /\ Body \in Seq(Words)
         /\ Comment \in Seq(Words) /\ Sent \in Seq(Words)
<1>1. /\ InBody \subseteq Words /\ "space" \in NoComma /\ NoComma \subseteq InBody
      /\ "/" \in Words /\ "*" \in Words
  BY DEF InBody, Words, Symbols, NoComma
<1>2. statement \in Seq(Words) /\ written \in Seq(InBody) /\ blank \in {<<>>, <<"space">>}
  BY DEF CommentInv
<1>3. written \in Seq(Words)
  BY <1>1, <1>2, SeqMonotonic
<1>4. blank \in Seq(NoComma)
  <2>1. <<>> \in Seq(NoComma) /\ <<"space">> \in Seq(NoComma)
    BY <1>1
  <2>2. QED BY <1>2, <2>1
<1>5. blank \in Seq(InBody)
  BY <1>1, <1>4, SeqMonotonic
<1>6. blank \in Seq(Words)
  BY <1>1, <1>5, SeqMonotonic
<1>7. <<"/", "*">> \in Seq(Words) /\ <<"*", "/">> \in Seq(Words)
  BY <1>1
<1>8. statement \o blank \in Seq(Words)
  BY <1>2, <1>6, ConcatProperties
<1>9. Body \in Seq(InBody)
  BY <1>2, <1>5, ConcatProperties DEF Body
<1>10. Body \in Seq(Words)
  BY <1>1, <1>9, SeqMonotonic
<1>11. Comment \in Seq(Words)
  <2>1. <<"/", "*">> \o written \in Seq(Words)
    BY <1>3, <1>7, ConcatProperties
  <2>2. (<<"/", "*">> \o written) \o blank \in Seq(Words)
    BY <1>6, <2>1, ConcatProperties
  <2>3. QED BY <1>7, <2>2, ConcatProperties DEF Comment
<1>12. Sent \in Seq(Words)
  BY <1>8, <1>11, ConcatProperties DEF Sent
<1>13. QED BY <1>2, <1>3, <1>4, <1>5, <1>6, <1>7, <1>8, <1>9, <1>10, <1>11, <1>12

(* The query that is sent ends with the comment that was written. *)
LEMMA SentSealed ==
  ASSUME CommentInv
  PROVE  Sealed(Sent, Len(statement \o blank), Body)
<1>1. PICK open, close, w, b, s : /\ open = <<"/", "*">> /\ close = <<"*", "/">> /\ w = written
                                  /\ b = blank /\ s = statement \o blank
  OBVIOUS
<1>2. /\ open \in Seq(Words) /\ close \in Seq(Words) /\ w \in Seq(Words) /\ b \in Seq(Words)
      /\ s \in Seq(Words) /\ Body \in Seq(InBody) /\ Body \in Seq(Words)
  BY <1>1, WordsOfQuery, Zenon
<1>3. /\ Len(open) = 2 /\ open[1] = "/" /\ open[2] = "*"
      /\ Len(close) = 2 /\ close[1] = "*" /\ close[2] = "/"
  BY <1>1
<1>4. PICK body, c1, c2 : body = Body /\ c1 = open \o body /\ c2 = c1 \o close
  OBVIOUS
<1>5. c2 = Comment
  <2>1. (open \o w) \o b = open \o (w \o b)
    <3> DEFINE S == Words
    <3>1. open \in Seq(S) /\ w \in Seq(S) /\ b \in Seq(S)
      BY <1>2
    <3> HIDE DEF S
    <3>2. QED BY <3>1, ConcatAssociative
  <2>2. body = w \o b
    BY <1>1, <1>4, Zenon DEF Body
  <2>3. Comment = ((open \o w) \o b) \o close
    BY <1>1, Zenon DEF Comment
  <2>4. QED BY <1>4, <2>1, <2>2, <2>3, Zenon
<1>6. body \in Seq(Words) /\ body \in Seq(InBody)
  BY <1>2, <1>4, Zenon
<1>7. /\ c1 \in Seq(Words) /\ Len(c1) = Len(open) + Len(body)
      /\ \A i \in 1 .. Len(open) : c1[i] = open[i]
      /\ \A j \in 1 .. Len(body) : c1[Len(open) + j] = body[j]
  <2>1. open \in Seq(Words)
    BY <1>2
  <2>2. QED BY <1>4, <1>6, <2>1, Joined
<1>8. /\ c2 \in Seq(Words) /\ Len(c2) = Len(c1) + Len(close)
      /\ \A i \in 1 .. Len(c1) : c2[i] = c1[i]
      /\ \A j \in 1 .. Len(close) : c2[Len(c1) + j] = close[j]
  <2>1. close \in Seq(Words) /\ c1 \in Seq(Words)
    BY <1>2, <1>7
  <2>2. QED BY <1>4, <2>1, Joined
<1>9. PICK q : q = s \o c2
  OBVIOUS
<1>10. /\ q \in Seq(Words) /\ Len(q) = Len(s) + Len(c2)
       /\ \A j \in 1 .. Len(c2) : q[Len(s) + j] = c2[j]
  <2>1. s \in Seq(Words) /\ c2 \in Seq(Words)
    BY <1>2, <1>8
  <2>2. QED BY <1>9, <2>1, Joined
<1>11. PICK L, N : L = Len(s) /\ N = Len(body)
  OBVIOUS
<1>12. L \in Nat /\ N \in Nat
  BY <1>2, <1>6, <1>11, LenProperties
<1>13. Len(c1) = 2 + N /\ Len(c2) = N + 4 /\ Len(q) = L + N + 4
  BY <1>3, <1>7, <1>8, <1>10, <1>11, <1>12
<1>14. c2[1] = "/" /\ c2[2] = "*"
  <2>1. /\ 1 \in 1 .. Len(c1) /\ 2 \in 1 .. Len(c1) /\ 1 \in 1 .. Len(open) /\ 2 \in 1 .. Len(open)
    BY <1>3, <1>12, <1>13
  <2>2. QED BY <1>3, <1>7, <1>8, <2>1, Zenon
<1>15. c2[N + 3] = "*" /\ c2[N + 4] = "/"
  <2>1. /\ 1 \in 1 .. Len(close) /\ 2 \in 1 .. Len(close) /\ Len(c1) + 1 = N + 3 /\ Len(c1) + 2 = N + 4
    BY <1>3, <1>12, <1>13
  <2>2. QED BY <1>3, <1>8, <2>1, Zenon
<1>16. \A j \in 1 .. N : c2[2 + j] = body[j]
  <2> TAKE j \in 1 .. N
  <2>1. 2 + j \in 1 .. Len(c1) /\ Len(open) + j = 2 + j
    BY <1>3, <1>12, <1>13
  <2>2. QED BY <1>7, <1>8, <1>11, <2>1, Zenon
<1>17. q[L + 1] = "/" /\ q[L + 2] = "*" /\ q[L + (N + 3)] = "*" /\ q[L + (N + 4)] = "/"
  <2>1. /\ 1 \in 1 .. Len(c2) /\ 2 \in 1 .. Len(c2) /\ N + 3 \in 1 .. Len(c2) /\ N + 4 \in 1 .. Len(c2)
    BY <1>12, <1>13
  <2>2. QED BY <1>10, <1>11, <1>14, <1>15, <2>1, Zenon
<1>18. L + (N + 3) = L + N + 3 /\ L + (N + 4) = L + N + 4
  BY <1>12
<1>19. \A j \in 1 .. N : q[L + 2 + j] = body[j]
  <2> TAKE j \in 1 .. N
  <2>1. 2 + j \in 1 .. Len(c2) /\ L + (2 + j) = L + 2 + j
    BY <1>12, <1>13
  <2>2. q[L + (2 + j)] = c2[2 + j]
    BY <1>10, <1>11, <2>1, Zenon
  <2>3. QED BY <1>16, <2>1, <2>2, Zenon
<1>20. Sealed(q, L, body)
  BY <1>6, <1>10, <1>11, <1>12, <1>13, <1>17, <1>18, <1>19, Zenon DEF Sealed
<1>21. q = Sent
  BY <1>1, <1>5, <1>9, Zenon DEF Sent
<1>22. QED BY <1>1, <1>4, <1>11, <1>20, <1>21, Zenon

(* What the code finds in it. *)
LEMMA CommentFound ==
  ASSUME NEW q, NEW L, NEW body, Sealed(q, L, body)
  PROVE  /\ EndsInComment(q) /\ CommentStart(q) = L + 1 /\ CommentStart(q) + 2 <= Len(q) - 1
         /\ SubSeq(q, CommentStart(q) + 2, Len(q) - 2) = body
<1>1. PICK N : N = Len(body)
  OBVIOUS
<1>2. /\ q \in Seq(Words) /\ L \in Nat /\ body \in Seq(InBody) /\ N \in Nat /\ Len(q) = L + N + 4
      /\ q[L + 1] = "/" /\ q[L + 2] = "*"
      /\ \A j \in 1 .. N : q[L + 2 + j] = body[j]
      /\ q[L + N + 3] = "*" /\ q[L + N + 4] = "/"
  BY <1>1, LenProperties DEF Sealed
<1>3. PICK F : F = {i \in DOMAIN q : At(q, i, <<"/", "*">>)}
  OBVIOUS
<1>4. L + 1 \in F
  <2>1. L + 1 \in 1 .. Len(q) - 1 /\ L + 1 \in DOMAIN q /\ L + 1 + 1 = L + 2
    BY <1>2
  <2>2. q \in Seq(Words)
    BY <1>2
  <2>3. At(q, L + 1, <<"/", "*">>)
    <3>1. PICK i : i = L + 1
      OBVIOUS
    <3>2. i \in 1 .. Len(q) - 1 /\ q[i] = "/" /\ q[i + 1] = "*"
      BY <1>2, <2>1, <3>1, Zenon
    <3>3. At(q, i, <<"/", "*">>)
      BY <2>2, <3>2, AtIs
    <3>4. QED BY <3>1, <3>3
  <2>4. QED BY <1>3, <2>1, <2>3
<1>5. \A i \in F : i \in Nat /\ i <= L + 1
  <2> SUFFICES ASSUME NEW i \in F PROVE i \in Nat /\ i <= L + 1
    OBVIOUS
  <2>1. q \in Seq(Words) /\ i \in DOMAIN q /\ At(q, i, <<"/", "*">>)
    BY <1>2, <1>3
  <2>2. DOMAIN q = 1 .. Len(q) /\ i < Len(q)
    BY <2>1, LenProperties DEF At
  <2>3. i \in 1 .. Len(q) - 1
    BY <1>2, <2>1, <2>2
  <2>4. q[i] = "/"
    BY <2>1, <2>3, AtIs
  <2>5. CASE i <= L + 1
    BY <2>3, <2>5
  <2>6. CASE i = L + 2
    BY <1>2, <2>4, <2>6
  <2>7. CASE i > L + 2 /\ i <= L + 2 + N
    <3>1. PICK j : j = i - (L + 2)
      OBVIOUS
    <3>2. j \in 1 .. N /\ L + 2 + j = i
      BY <1>2, <2>3, <2>7, <3>1
    <3>3. body[j] \in InBody /\ q[i] = body[j]
      BY <1>1, <1>2, <3>2, ElementOfSeq
    <3>4. QED BY <2>4, <3>3 DEF InBody
  <2>8. CASE i = L + N + 3
    BY <1>2, <2>4, <2>8
  <2>9. QED BY <1>2, <2>3, <2>5, <2>6, <2>7, <2>8
<1>6. Max(F) = L + 1
  <2>1. F \in SUBSET Nat /\ (\A y \in F : L + 1 >= y)
    BY <1>2, <1>5
  <2>2. QED BY <1>4, <2>1, MaxIs
<1>7. CommentStart(q) = L + 1
  <2>1. F # {}
    BY <1>4
  <2>2. CommentStart(q) = IF F = {} THEN 0 ELSE Max(F)
    BY <1>3, Zenon DEF CommentStart
  <2>3. QED BY <1>6, <2>1, <2>2, Zenon
<1>8. IsSuffix(<<"*", "/">>, q)
  <2>1. PICK r : r = Reverse(q)
    OBVIOUS
  <2>2. r = [i \in 1 .. Len(q) |-> q[(Len(q) - i) + 1]]
    BY <2>1, Zenon DEF Reverse
  <2>3. \A i \in 1 .. Len(q) : q[(Len(q) - i) + 1] \in Words
    <3> TAKE i \in 1 .. Len(q)
    <3>1. (Len(q) - i) + 1 \in 1 .. Len(q)
      BY <1>2
    <3>2. QED BY <1>2, <3>1, ElementOfSeq
  <2>4. r \in Seq(Words) /\ Len(r) = Len(q)
    BY <1>2, <2>2, <2>3
  <2>5. r[1] = "/" /\ r[2] = "*"
    <3>1. /\ 1 \in 1 .. Len(q) /\ 2 \in 1 .. Len(q)
          /\ (Len(q) - 1) + 1 = L + N + 4 /\ (Len(q) - 2) + 1 = L + N + 3
      BY <1>2
    <3>2. r[1] = q[(Len(q) - 1) + 1] /\ r[2] = q[(Len(q) - 2) + 1]
      BY <2>2, <3>1
    <3>3. QED BY <1>2, <3>1, <3>2, Zenon
  <2>6. PICK c : c = <<"*", "/">>
    OBVIOUS
  <2>7. PICK d : d = Reverse(c)
    OBVIOUS
  <2>8. d = <<"/", "*">>
    <3>1. Len(c) = 2
      BY <2>6
    <3>2. d = [i \in 1 .. 2 |-> c[(2 - i) + 1]]
      BY <2>7, <3>1, Zenon DEF Reverse
    <3>3. d \in Seq(Words) /\ Len(d) = 2 /\ d[1] = "/" /\ d[2] = "*"
      BY <2>6, <3>2 DEF Words, Symbols
    <3>4. QED BY <3>3
  <2>9. SubSeq(r, 1, 2) = <<"/", "*">>
    <3>1. 1 \in 1 .. Len(r) - 1 /\ 1 + 1 = 2
      BY <1>2, <2>4
    <3>2. At(r, 1, <<"/", "*">>)
      BY <2>4, <2>5, <3>1, AtIs
    <3>3. QED BY <3>1, <3>2, Zenon DEF At
  <2>10. Len(d) = 2 /\ SubSeq(d, 1, 2) = d
    <3>1. d \in Seq(Words) /\ Len(d) = 2
      BY <2>8 DEF Words, Symbols
    <3>2. QED BY <3>1, SubSeqFull
  <2>11. Len(d) <= Len(r)
    BY <1>2, <2>4, <2>10
  <2>12. IsPrefix(d, r)
    BY <2>8, <2>9, <2>10, <2>11, Zenon DEF IsPrefix
  <2>13. QED BY <2>1, <2>6, <2>7, <2>12, Zenon DEF IsSuffix
<1>9. EndsInComment(q) /\ CommentStart(q) + 2 <= Len(q) - 1
  <2>1. CommentStart(q) # 0 /\ CommentStart(q) + 2 <= Len(q) - 1
    BY <1>2, <1>7
  <2>2. QED BY <1>8, <2>1, Zenon DEF EndsInComment
<1>10. SubSeq(q, CommentStart(q) + 2, Len(q) - 2) = body
  <2>1. PICK m, k, t : m = CommentStart(q) + 2 /\ k = Len(q) - 2 /\ t = SubSeq(q, m, k)
    OBVIOUS
  <2>2. m = L + 3 /\ k = L + N + 2 /\ m \in Int /\ k \in Int
    BY <1>2, <1>7, <2>1
  <2>3. \A i \in m .. k : q[i] \in InBody
    <3> TAKE i \in m .. k
    <3>1. PICK j : j = i - (L + 2)
      OBVIOUS
    <3>2. j \in 1 .. N /\ L + 2 + j = i
      BY <1>2, <2>2, <3>1
    <3>3. body[j] \in InBody /\ q[i] = body[j]
      BY <1>1, <1>2, <3>2, ElementOfSeq
    <3>4. QED BY <3>3
  <2>4. /\ t \in Seq(InBody) /\ Len(t) = IF m <= k THEN k - m + 1 ELSE 0
        /\ \A i \in 1 .. k - m + 1 : t[i] = q[m + i - 1]
    BY <2>1, <2>2, <2>3, SubSeqProperties
  <2>5. Len(t) = N /\ k - m + 1 = N
    BY <1>2, <2>2, <2>4
  <2>6. \A i \in 1 .. N : t[i] = body[i]
    <3> TAKE i \in 1 .. N
    <3>1. m + i - 1 = L + 2 + i
      BY <1>2, <2>2
    <3>2. QED BY <1>2, <2>4, <2>5, <3>1, Zenon
  <2>7. t = body
    <3>1. /\ t \in Seq(InBody) /\ body \in Seq(InBody) /\ Len(t) = Len(body)
          /\ \A i \in 1 .. Len(t) : t[i] = body[i]
      BY <1>1, <1>2, <2>4, <2>5, <2>6
    <3>2. QED BY <3>1, SeqEqual
  <2>8. QED BY <2>1, <2>7
<1>11. QED BY <1>7, <1>9, <1>10

(* A set of numbers has a least, and one that is bounded a greatest.       *)
LEMMA LeastExists ==
  ASSUME NEW I \in SUBSET Nat, I # {}
  PROVE  \E m \in I : \A y \in I : m <= y
<1> DEFINE R == {p \in Nat \X Nat : p[1] < p[2]}
<1>1. IsWellFoundedOn(R, Nat)
  BY NatLessThanWellFounded DEF OpToRel
<1> HIDE DEF R
<1>2. PICK m \in I : \A y \in I : <<y, m>> \notin R
  BY <1>1, WFMin
<1>3. \A y \in I : ~ (y < m)
  BY <1>2 DEF R
<1>4. QED BY <1>3

(* Every non-empty set of places has a greatest. *)
LEMMA GreatestExists ==
  ASSUME NEW n \in Nat, NEW I \in SUBSET (1 .. n), I # {}
  PROVE  \E m \in I : \A y \in I : m >= y
<1> DEFINE D == {n - i : i \in I}
<1>1. D \in SUBSET Nat /\ D # {}
  <2>1. \A i \in I : n - i \in Nat
    OBVIOUS
  <2>2. QED BY <2>1
<1>2. PICK d \in D : \A y \in D : d <= y
  BY <1>1, LeastExists
<1>3. PICK m \in I : d = n - m
  <2>1. d \in {n - i : i \in I}
    BY <1>2
  <2>2. QED BY <2>1, Zenon
<1>4. \A y \in I : m >= y
  <2> TAKE y \in I
  <2>1. n - y \in D /\ y \in 1 .. n /\ m \in 1 .. n
    OBVIOUS
  <2>2. n - m <= n - y
    BY <1>2, <1>3, <2>1
  <2>3. QED BY <2>1, <2>2
<1>5. QED BY <1>4

(* Where a statement ends when its blanks are gone. *)
LEMMA TrimRightFrom ==
  ASSUME NEW S, NEW s \in Seq(S)
  PROVE  \E k \in 0 .. Len(s) : /\ k = 0 \/ s[k] # "space"
                                /\ \A i \in k + 1 .. Len(s) : s[i] = "space"
<1>1. PICK n, I : n = Len(s) /\ I = {i \in 1 .. n : s[i] # "space"}
  OBVIOUS
<1>2. n \in Nat
  BY <1>1, LenProperties
<1>3. CASE I = {}
  <2>1. 0 \in 0 .. n /\ \A i \in 0 + 1 .. n : s[i] = "space"
    BY <1>1, <1>2, <1>3
  <2>2. QED BY <1>1, <2>1
<1>4. CASE I # {}
  <2>1. I \in SUBSET (1 .. n)
    BY <1>1
  <2>2. PICK k \in I : \A y \in I : k >= y
    BY <1>2, <1>4, <2>1, GreatestExists
  <2>3. k \in 1 .. n /\ s[k] # "space"
    BY <1>1
  <2>4. \A i \in k + 1 .. n : s[i] = "space"
    <3> SUFFICES ASSUME NEW i \in k + 1 .. n, s[i] # "space" PROVE FALSE
      OBVIOUS
    <3>1. i \in I
      BY <1>1, <1>2, <2>3
    <3>2. QED BY <2>2, <2>3, <3>1
  <2>5. k \in 0 .. n
    BY <1>2, <2>3
  <2>6. QED BY <1>1, <2>3, <2>4, <2>5
<1>5. QED BY <1>3, <1>4

(* Trimming does not see blanks added at the end. *)
LEMMA BlankTrimmed ==
  ASSUME NEW s \in Seq(Words), NEW b \in Seq(Words), \A i \in 1 .. Len(b) : b[i] = "space"
  PROVE  TrimRight(s \o b) = TrimRight(s)
<1>1. PICK k \in 0 .. Len(s) : /\ k = 0 \/ s[k] # "space"
                               /\ \A i \in k + 1 .. Len(s) : s[i] = "space"
  BY TrimRightFrom
<1>2. Len(s) \in Nat /\ Len(b) \in Nat /\ k \in Nat /\ k <= Len(s)
  BY LenProperties
<1>3. TrimRight(s) = SubSeq(s, 1, k)
  BY <1>1, <1>2, TrimRightIs
<1>4. PICK c : c = s \o b
  OBVIOUS
<1>5. /\ c \in Seq(Words) /\ Len(c) = Len(s) + Len(b)
      /\ \A i \in 1 .. Len(s) : c[i] = s[i]
      /\ \A j \in 1 .. Len(b) : c[Len(s) + j] = b[j]
  BY <1>4, Joined
<1>6. k = 0 \/ c[k] # "space"
  <2>1. k = 0 \/ k \in 1 .. Len(s)
    BY <1>2
  <2>2. QED BY <1>1, <1>5, <2>1
<1>7. \A i \in k + 1 .. Len(c) : c[i] = "space"
  <2> TAKE i \in k + 1 .. Len(c)
  <2>1. CASE i <= Len(s)
    <3>1. i \in k + 1 .. Len(s) /\ i \in 1 .. Len(s)
      BY <1>2, <2>1
    <3>2. QED BY <1>1, <1>5, <3>1
  <2>2. CASE i > Len(s)
    <3>1. PICK j : j = i - Len(s)
      OBVIOUS
    <3>2. j \in 1 .. Len(b) /\ Len(s) + j = i
      BY <1>2, <1>5, <2>2, <3>1
    <3>3. c[Len(s) + j] = b[j] /\ b[j] = "space"
      BY <1>5, <3>2
    <3>4. QED BY <3>2, <3>3
  <2>3. QED BY <1>2, <2>1, <2>2
<1>8. k <= Len(c) /\ c \in Seq(Words)
  BY <1>2, <1>5
<1>9. TrimRight(c) = SubSeq(c, 1, k)
  BY <1>2, <1>6, <1>7, <1>8, TrimRightIs
<1>10. SubSeq(c, 1, k) = SubSeq(s, 1, k)
  <2>1. CASE k = 0
    <3>1. SubSeq(c, 1, 0) = <<>> /\ SubSeq(s, 1, 0) = <<>>
      BY SubSeqEmpty
    <3>2. QED BY <2>1, <3>1
  <2>2. CASE k # 0
    <3>1. 1 \in 1 .. Len(s) /\ k \in 1 .. Len(s)
      BY <1>2, <2>2
    <3>2. QED BY <1>4, <3>1, SubSeqOfConcat1
  <2>3. QED BY <2>1, <2>2
<1>11. QED BY <1>3, <1>4, <1>9, <1>10

(* The code sees the query up to the end of the comment. *)
LEMMA QueryTrimmed ==
  ASSUME CommentInv
  PROVE  /\ TrimRight(Query) = Sent
         /\ TrimRight(SubSeq(Sent, 1, Len(statement \o blank))) = TrimRight(statement)
<1>1. PICK b, st, s, c, q : b = blank /\ st = statement /\ s = statement \o blank /\ c = Comment /\ q = Sent
  OBVIOUS
<1>2. b \in Seq(Words) /\ st \in Seq(Words) /\ s \in Seq(Words) /\ c \in Seq(Words) /\ q \in Seq(Words)
  BY <1>1, WordsOfQuery, Zenon
<1>3. \A i \in 1 .. Len(b) : b[i] = "space"
  BY <1>1 DEF CommentInv
<1>4. Query = q \o b
  BY <1>1, Zenon DEF Query, Sent
<1>5. TrimRight(q \o b) = TrimRight(q)
  BY <1>2, <1>3, BlankTrimmed
<1>6. TrimRight(q) = q
  <2>1. PICK k : k = Len(q)
    OBVIOUS
  <2>2. k \in Nat /\ k <= Len(q) /\ (\A i \in k + 1 .. Len(q) : q[i] = "space")
    BY <1>2, <2>1, LenProperties
  <2>3. q[k] # "space"
    <3>1. Sealed(q, Len(statement \o blank), Body)
      BY <1>1, SentSealed
    <3>2. q[k] = "/"
      BY <2>1, <3>1 DEF Sealed
    <3>3. QED BY <3>2
  <2>4. TrimRight(q) = SubSeq(q, 1, k)
    BY <1>2, <2>2, <2>3, TrimRightIs
  <2>5. QED BY <1>2, <2>1, <2>4, SubSeqFull
<1>7. SubSeq(q, 1, Len(s)) = s
  <2>1. q = s \o c
    BY <1>1, Zenon DEF Sent
  <2>2. Len(s) \in Nat
    BY <1>2, LenProperties
  <2>3. CASE Len(s) = 0
    <3>1. s = <<>>
      BY <1>2, <2>3, EmptySeq
    <3>2. SubSeq(q, 1, 0) = <<>>
      BY SubSeqEmpty
    <3>3. QED BY <2>3, <3>1, <3>2
  <2>4. CASE Len(s) # 0
    <3>1. 1 \in 1 .. Len(s) /\ Len(s) \in 1 .. Len(s)
      BY <2>2, <2>4
    <3>2. SubSeq(s \o c, 1, Len(s)) = SubSeq(s, 1, Len(s))
      BY <1>2, <3>1, SubSeqOfConcat1
    <3>3. QED BY <1>2, <2>1, <3>2, SubSeqFull
  <2>5. QED BY <2>3, <2>4
<1>8. TrimRight(st \o b) = TrimRight(st)
  BY <1>2, <1>3, BlankTrimmed
<1>9. QED BY <1>1, <1>4, <1>5, <1>6, <1>7, <1>8, Zenon

-----------------------------------------------------------------------------
(* What is read of the text of a pair. *)

Spells(T, k, c, v, key, value) ==
  /\ k \in 1 .. Len(T) /\ c \in k + 1 .. Len(T) /\ v \in c + 2 .. Len(T) - 1
  /\ T[k] = key /\ key # "space" /\ key # "=" /\ T[c] = "="
  /\ \A i \in 1 .. c - 1 : i # k => T[i] = "space"
  /\ T[v - 1] = "'" /\ T[v] = value /\ T[v + 1] = "'" /\ value # "'"
  /\ \A i \in c + 1 .. v - 2 : T[i] = "space"
  /\ \A i \in v + 2 .. Len(T) : T[i] = "space"

(* Of a text that is spelled as a pair: the place of "=", key and value. *)
LEMMA TextIs ==
  ASSUME NEW T \in Seq(InBody), NEW k, NEW c, NEW v, NEW key, NEW value,
         Spells(T, k, c, v, key, value)
  PROVE  /\ Cut(T) = c /\ c \in Nat /\ c # 0
         /\ TrimBoth(SubSeq(T, 1, Cut(T) - 1), "space") = <<key>>
         /\ Value(T) = <<value>>
<1>1. PICK n : n = Len(T)
  OBVIOUS
<1>2. /\ n \in Nat /\ k \in 1 .. n /\ c \in k + 1 .. n /\ v \in c + 2 .. n - 1
      /\ T[k] = key /\ key # "space" /\ key # "=" /\ T[c] = "="
      /\ \A i \in 1 .. c - 1 : i # k => T[i] = "space"
      /\ T[v - 1] = "'" /\ T[v] = value /\ T[v + 1] = "'" /\ value # "'"
      /\ \A i \in c + 1 .. v - 2 : T[i] = "space"
      /\ \A i \in v + 2 .. n : T[i] = "space"
  BY <1>1, LenProperties DEF Spells
<1>3. Cut(T) = c
  <2>1. c \in 1 .. Len(T) /\ T[c] = "=" /\ \A i \in 1 .. c - 1 : T[i] # "="
    BY <1>1, <1>2
  <2>2. QED BY <2>1, CutIs
<1>4. PICK U : U = SubSeq(T, 1, c - 1)
  OBVIOUS
<1>5. U \in Seq(InBody) /\ Len(U) = c - 1 /\ \A i \in 1 .. c - 1 : U[i] = T[i]
  <2>1. PICK e : e = c - 1
    OBVIOUS
  <2>2. 1 \in Int /\ e \in Int /\ 1 <= e /\ e - 1 + 1 = e /\ \A i \in 1 .. e : 1 + i - 1 = i
    BY <1>2, <2>1
  <2>3. \A i \in 1 .. e : T[i] \in InBody
    <3> TAKE i \in 1 .. e
    <3>1. i \in 1 .. Len(T)
      BY <1>1, <1>2, <2>1
    <3>2. QED BY <3>1, ElementOfSeq
  <2>4. /\ U \in Seq(InBody) /\ Len(U) = IF 1 <= e THEN e - 1 + 1 ELSE 0
        /\ \A i \in 1 .. e - 1 + 1 : U[i] = T[1 + i - 1]
    BY <1>4, <2>1, <2>2, <2>3, SubSeqProperties
  <2>5. QED BY <2>1, <2>2, <2>4
<1>6. TrimBoth(U, "space") = <<key>>
  <2>1. /\ k \in 1 .. Len(U) /\ k \in k .. Len(U) /\ U[k] # "space" /\ U[k] = key
        /\ (\A i \in 1 .. k - 1 : U[i] = "space") /\ (\A i \in k + 1 .. Len(U) : U[i] = "space")
    BY <1>2, <1>5, SMTT(30)
  <2>2. TrimBoth(U, "space") = SubSeq(U, k, k)
    <3>1. Kept(U, "space", k, k) /\ U \in Seq(InBody)
      BY <1>5, <2>1 DEF Kept
    <3>2. QED BY <3>1, TrimBothIs, Zenon
  <2>3. SubSeq(U, k, k) = <<U[k]>>
    BY <1>5, <2>1, SubSeqOne
  <2>4. QED BY <2>1, <2>2, <2>3
<1>7. PICK V : V = SubSeq(T, c + 1, n)
  OBVIOUS
<1>8. V \in Seq(InBody) /\ Len(V) = n - c /\ \A i \in 1 .. n - c : V[i] = T[c + i]
  <2>1. PICK a : a = c + 1
    OBVIOUS
  <2>2. a \in Int /\ n \in Int /\ a <= n /\ n - a + 1 = n - c /\ \A i \in 1 .. n - c : a + i - 1 = c + i
    BY <1>2, <2>1
  <2>3. \A i \in a .. n : T[i] \in InBody
    <3> TAKE i \in a .. n
    <3>1. i \in 1 .. Len(T)
      BY <1>1, <1>2, <2>1
    <3>2. QED BY <3>1, ElementOfSeq
  <2>4. /\ V \in Seq(InBody) /\ Len(V) = IF a <= n THEN n - a + 1 ELSE 0
        /\ \A i \in 1 .. n - a + 1 : V[i] = T[a + i - 1]
    BY <1>7, <2>1, <2>2, <2>3, SubSeqProperties
  <2>5. QED BY <2>2, <2>4
<1>9. PICK a, b : a = v - 1 - c /\ b = v + 1 - c
  OBVIOUS
<1>10. /\ a \in 1 .. Len(V) /\ b \in a .. Len(V) /\ b = a + 2
       /\ c + a = v - 1 /\ c + (a + 1) = v /\ c + b = v + 1
  BY <1>2, <1>8, <1>9
<1>11. V[a] = "'" /\ V[a + 1] = value /\ V[b] = "'"
  <2>1. a \in 1 .. n - c /\ a + 1 \in 1 .. n - c /\ b \in 1 .. n - c
    BY <1>2, <1>8, <1>10
  <2>2. QED BY <1>2, <1>8, <1>10, <2>1
<1>12. PICK X : X = SubSeq(V, a, b)
  OBVIOUS
<1>13. TrimBoth(V, "space") = X
  <2>1. \A i \in 1 .. a - 1 : V[i] = "space"
    <3> TAKE i \in 1 .. a - 1
    <3>1. i \in 1 .. n - c /\ c + i \in c + 1 .. v - 2
      BY <1>2, <1>9
    <3>2. QED BY <1>2, <1>8, <3>1
  <2>2. \A i \in b + 1 .. Len(V) : V[i] = "space"
    <3> TAKE i \in b + 1 .. Len(V)
    <3>1. i \in 1 .. n - c /\ c + i \in v + 2 .. n
      BY <1>1, <1>2, <1>8, <1>9
    <3>2. QED BY <1>2, <1>8, <3>1
  <2>3. V[a] # "space" /\ V[b] # "space"
    BY <1>11
  <2>4. Kept(V, "space", a, b) /\ V \in Seq(InBody)
    BY <1>8, <1>10, <2>1, <2>2, <2>3 DEF Kept
  <2>5. QED BY <1>12, <2>4, TrimBothIs
<1>14. X \in Seq(InBody) /\ Len(X) = 3 /\ X[1] = "'" /\ X[2] = value /\ X[3] = "'"
  <2>1. a \in Int /\ b \in Int /\ a <= b /\ b - a + 1 = 3
    BY <1>10
  <2>2. \A i \in a .. b : V[i] \in InBody
    <3> TAKE i \in a .. b
    <3>1. i \in 1 .. Len(V)
      BY <1>10
    <3>2. QED BY <1>8, <3>1, ElementOfSeq
  <2>3. /\ X \in Seq(InBody) /\ Len(X) = IF a <= b THEN b - a + 1 ELSE 0
        /\ \A i \in 1 .. b - a + 1 : X[i] = V[a + i - 1]
    BY <1>12, <2>1, <2>2, SubSeqProperties
  <2>4. a + 1 - 1 = a /\ a + 2 - 1 = a + 1 /\ a + 3 - 1 = b
    BY <1>10
  <2>5. 1 \in 1 .. b - a + 1 /\ 2 \in 1 .. b - a + 1 /\ 3 \in 1 .. b - a + 1
    BY <2>1
  <2>6. X[1] = V[a] /\ X[2] = V[a + 1] /\ X[3] = V[b]
    BY <2>3, <2>4, <2>5
  <2>7. QED BY <1>11, <2>1, <2>3, <2>6
<1>15. TrimBoth(X, "'") = <<value>>
  <2>1. /\ 2 \in 1 .. Len(X) /\ 2 \in 2 .. Len(X) /\ X[2] # "'"
        /\ (\A i \in 1 .. 2 - 1 : X[i] = "'") /\ (\A i \in 2 + 1 .. Len(X) : X[i] = "'")
    BY <1>2, <1>14
  <2>2. TrimBoth(X, "'") = SubSeq(X, 2, 2)
    <3>1. Kept(X, "'", 2, 2) /\ X \in Seq(InBody)
      BY <1>14, <2>1 DEF Kept
    <3>2. QED BY <3>1, TrimBothIs
  <2>3. SubSeq(X, 2, 2) = <<X[2]>>
    BY <1>14, <2>1, SubSeqOne
  <2>4. QED BY <1>14, <2>2, <2>3
<1>16. Value(T) = <<value>>
  BY <1>1, <1>3, <1>7, <1>13, <1>15, Zenon DEF Value
<1>17. QED BY <1>2, <1>3, <1>4, <1>6, <1>16

(* Of a pair, as it stands in the comment, the code reads key and value. *)
ReadAs(T, p) ==
  /\ p.key = "" => Cut(T) = 0
  /\ p.key # "" => /\ Cut(T) # 0
                   /\ TrimBoth(SubSeq(T, 1, Cut(T) - 1), "space") = <<p.key>>
                   /\ Value(T) = <<p.value>>

(* Joined, for places counted in the concatenation. *)
LEMMA JoinedAt ==
  ASSUME NEW S, NEW a \in Seq(S), NEW b \in Seq(S), NEW c, c = a \o b
  PROVE  /\ c \in Seq(S) /\ Len(c) = Len(a) + Len(b) /\ Len(a) \in Nat /\ Len(b) \in Nat
         /\ \A i \in 1 .. Len(a) : c[i] = a[i]
         /\ \A i \in Len(a) + 1 .. Len(a) + Len(b) : c[i] = b[i - Len(a)]
<1>1. Len(a) \in Nat /\ Len(b) \in Nat
  BY LenProperties
<1>2. /\ c \in Seq(S) /\ Len(c) = Len(a) + Len(b)
      /\ \A i \in 1 .. Len(a) : c[i] = a[i]
      /\ \A j \in 1 .. Len(b) : c[Len(a) + j] = b[j]
  BY Joined
<1>3. \A i \in Len(a) + 1 .. Len(a) + Len(b) : c[i] = b[i - Len(a)]
  <2> TAKE i \in Len(a) + 1 .. Len(a) + Len(b)
  <2>1. i - Len(a) \in 1 .. Len(b) /\ Len(a) + (i - Len(a)) = i
    BY <1>1
  <2>2. c[Len(a) + (i - Len(a))] = b[i - Len(a)]
    BY <1>2, <2>1, Zenon
  <2>3. QED BY <2>1, <2>2, Zenon
<1>4. QED BY <1>1, <1>2, <1>3

(* What a client writes for a pair is read as that pair. *)
LEMMA TextRead ==
  ASSUME NEW p \in Pairs, blank \in {<<>>, <<"space">>},
         NEW tail \in {<<>>, blank}, NEW T, T = Piece(p) \o tail
  PROVE  ReadAs(T, p)
<1>1. PICK key, value, b, x, eq, quoted :
        /\ key = p.key /\ value = p.value /\ b = blank
        /\ x = <<key>> /\ eq = <<"=">> /\ quoted = <<"'", value, "'">>
  OBVIOUS
<1>2. /\ value \in InBody /\ value # "'" /\ value # "=" /\ key # "space" /\ key # "="
      /\ "=" \in InBody /\ "'" \in InBody /\ "space" \in InBody
      /\ key # "" => key \in InBody
  BY <1>1 DEF Pairs, InBody, Words, Symbols
<1>20. /\ value \in InBody /\ "=" \in InBody /\ "'" \in InBody /\ "space" \in InBody
  BY <1>2
<1>3. b \in Seq(InBody) /\ \A i \in 1 .. Len(b) : b[i] = "space"
  <2>1. b = <<>> \/ b = <<"space">>
    BY <1>1
  <2>2. CASE b = <<>>
    BY <2>2
  <2>3. CASE b = <<"space">>
    BY <1>20, <2>3
  <2>4. QED BY <2>1, <2>2, <2>3
<1>4. tail \in Seq(InBody) /\ \A i \in 1 .. Len(tail) : tail[i] = "space"
  <2>1. CASE tail = <<>>
    BY <2>1
  <2>2. CASE tail = b
    BY <1>3, <2>2
  <2>3. QED BY <1>1, <2>1, <2>2
<1>5. PICK n, m : n = Len(b) /\ m = Len(tail)
  OBVIOUS
<1>6. n \in Nat /\ m \in Nat
  BY <1>3, <1>4, <1>5, LenProperties
<1>7. CASE key = ""
  <2>1. PICK v, c1 : v = <<value>> /\ c1 = b \o v
    OBVIOUS
  <2>2. v \in Seq(InBody) /\ Len(v) = 1 /\ v[1] = value
    BY <1>20, <2>1
  <2>3. T = c1 \o tail
    BY <1>1, <1>7, <2>1, Zenon DEF Piece, WritePair
  <2>4. /\ c1 \in Seq(InBody) /\ Len(c1) = Len(b) + Len(v)
        /\ \A i \in 1 .. Len(b) : c1[i] = b[i]
        /\ \A i \in Len(b) + 1 .. Len(b) + Len(v) : c1[i] = v[i - Len(b)]
    <3>1. b \in Seq(InBody) /\ v \in Seq(InBody)
      BY <1>3, <2>2
    <3>2. QED BY <2>1, <3>1, JoinedAt
  <2>5. Len(c1) = n + 1 /\ \A i \in 1 .. n + 1 : c1[i] # "="
    <3>1. Len(c1) = n + 1 /\ (\A i \in 1 .. n : c1[i] = b[i] /\ b[i] = "space") /\ c1[n + 1] = v[n + 1 - n]
      BY <1>3, <1>5, <1>6, <2>2, <2>4
    <3>2. n + 1 - n = 1 /\ \A i \in 1 .. n + 1 : i \in 1 .. n \/ i = n + 1
      BY <1>6
    <3>3. c1[n + 1] = value /\ value # "="
      BY <1>2, <2>2, <3>1, <3>2, Zenon
    <3>4. \A i \in 1 .. n : c1[i] # "="
      BY <3>1
    <3>5. QED BY <3>1, <3>2, <3>3, <3>4
  <2>6. /\ T \in Seq(InBody) /\ Len(T) = Len(c1) + Len(tail)
        /\ \A i \in 1 .. Len(c1) : T[i] = c1[i]
        /\ \A i \in Len(c1) + 1 .. Len(c1) + Len(tail) : T[i] = tail[i - Len(c1)]
    <3>1. c1 \in Seq(InBody) /\ tail \in Seq(InBody)
      BY <1>4, <2>4
    <3>2. QED BY <2>3, <3>1, JoinedAt
  <2>7. \A i \in 1 .. Len(T) : T[i] # "="
    <3> TAKE i \in 1 .. Len(T)
    <3>1. CASE i \in 1 .. n + 1
      BY <2>5, <2>6, <3>1
    <3>2. CASE i \notin 1 .. n + 1
      <4>1. i \in Len(c1) + 1 .. Len(c1) + Len(tail) /\ i - Len(c1) \in 1 .. Len(tail)
        BY <1>5, <1>6, <2>5, <2>6, <3>2
      <4>2. T[i] = tail[i - Len(c1)] /\ tail[i - Len(c1)] = "space"
        BY <1>4, <2>6, <4>1, Zenon
      <4>3. QED BY <4>2
    <3>3. QED BY <3>1, <3>2
  <2>8. Cut(T) = 0
    BY <2>6, <2>7, NoCut
  <2>9. QED BY <1>1, <1>7, <2>8 DEF ReadAs
<1>8. CASE key # ""
  <2>1. PICK c2, c3, c4, c5, c6 :
          c2 = x \o b /\ c3 = c2 \o eq /\ c4 = c3 \o b /\ c5 = c4 \o quoted /\ c6 = b \o c5
    OBVIOUS
  <2>2. T = c6 \o tail
    BY <1>1, <1>8, <2>1, Zenon DEF Piece, WritePair
  <2>3. x \in Seq(InBody) /\ Len(x) = 1 /\ x[1] = key
    <3>1. key \in InBody /\ x = <<key>>
      BY <1>1, <1>2, <1>8, Zenon
    <3>2. QED BY <3>1
  <2>4. eq \in Seq(InBody) /\ Len(eq) = 1 /\ eq[1] = "="
    <3>1. eq = <<"=">>
      BY <1>1
    <3>2. QED BY <1>20, <3>1
  <2>5. quoted \in Seq(InBody) /\ Len(quoted) = 3 /\ quoted[1] = "'" /\ quoted[2] = value /\ quoted[3] = "'"
    <3>1. quoted = <<"'", value, "'">>
      BY <1>1
    <3>2. QED BY <1>20, <3>1
  <2>6. /\ c2 \in Seq(InBody) /\ Len(c2) = 1 + n /\ c2[1] = key
        /\ \A i \in 2 .. 1 + n : c2[i] = "space"
    <3>1. x \in Seq(InBody) /\ b \in Seq(InBody)
      BY <1>3, <2>3
    <3>2. /\ c2 \in Seq(InBody) /\ Len(c2) = Len(x) + Len(b)
          /\ \A i \in 1 .. Len(x) : c2[i] = x[i]
          /\ \A i \in Len(x) + 1 .. Len(x) + Len(b) : c2[i] = b[i - Len(x)]
      BY <2>1, <3>1, JoinedAt
    <3>3. QED BY <1>3, <1>5, <1>6, <2>3, <3>2
  <2>7. /\ c3 \in Seq(InBody) /\ Len(c3) = 2 + n /\ c3[1] = key
        /\ \A i \in 2 .. 1 + n : c3[i] = "space"
        /\ c3[2 + n] = "="
    <3>1. c2 \in Seq(InBody) /\ eq \in Seq(InBody)
      BY <2>4, <2>6
    <3>2. /\ c3 \in Seq(InBody) /\ Len(c3) = Len(c2) + Len(eq)
          /\ \A i \in 1 .. Len(c2) : c3[i] = c2[i]
          /\ \A i \in Len(c2) + 1 .. Len(c2) + Len(eq) : c3[i] = eq[i - Len(c2)]
      BY <2>1, <3>1, JoinedAt
    <3>3. QED BY <1>6, <2>4, <2>6, <3>2
  <2>8. /\ c4 \in Seq(InBody) /\ Len(c4) = 2 + n + n /\ c4[1] = key
        /\ \A i \in 2 .. 1 + n : c4[i] = "space"
        /\ c4[2 + n] = "="
        /\ \A i \in 3 + n .. 2 + n + n : c4[i] = "space"
    <3>1. c3 \in Seq(InBody) /\ b \in Seq(InBody)
      BY <1>3, <2>7
    <3>2. /\ c4 \in Seq(InBody) /\ Len(c4) = Len(c3) + Len(b)
          /\ \A i \in 1 .. Len(c3) : c4[i] = c3[i]
          /\ \A i \in Len(c3) + 1 .. Len(c3) + Len(b) : c4[i] = b[i - Len(c3)]
      <4>1. c4 = c3 \o b
        BY <2>1
      <4>2. QED BY <3>1, <4>1, JoinedAt
    <3>3. Len(c4) = 2 + n + n /\ \A i \in 1 .. 2 + n : c4[i] = c3[i]
      BY <1>5, <1>6, <2>7, <3>2
    <3>4. ASSUME NEW i \in 3 + n .. 2 + n + n PROVE c4[i] = "space"
      <4>1. i \in Len(c3) + 1 .. Len(c3) + Len(b) /\ i - Len(c3) \in 1 .. Len(b)
        BY <1>5, <1>6, <2>7
      <4>2. c4[i] = b[i - Len(c3)] /\ b[i - Len(c3)] = "space"
        BY <1>3, <3>2, <4>1, Zenon
      <4>3. QED BY <4>2
    <3>5. 1 \in 1 .. 2 + n /\ 2 + n \in 1 .. 2 + n /\ \A i \in 2 .. 1 + n : i \in 1 .. 2 + n
      BY <1>6
    <3>6. QED BY <2>7, <3>2, <3>3, <3>4, <3>5, Zenon
  <2>9. /\ c5 \in Seq(InBody) /\ Len(c5) = 5 + n + n /\ c5[1] = key
        /\ \A i \in 2 .. 1 + n : c5[i] = "space"
        /\ c5[2 + n] = "="
        /\ \A i \in 3 + n .. 2 + n + n : c5[i] = "space"
        /\ c5[3 + n + n] = "'" /\ c5[4 + n + n] = value /\ c5[5 + n + n] = "'"
    <3>1. c4 \in Seq(InBody) /\ quoted \in Seq(InBody)
      BY <2>5, <2>8
    <3>2. /\ c5 \in Seq(InBody) /\ Len(c5) = Len(c4) + Len(quoted)
          /\ \A i \in 1 .. Len(c4) : c5[i] = c4[i]
          /\ \A i \in Len(c4) + 1 .. Len(c4) + Len(quoted) : c5[i] = quoted[i - Len(c4)]
      BY <2>1, <3>1, JoinedAt
    <3>3. QED BY <1>6, <2>5, <2>8, <3>2
  <2>10. /\ c6 \in Seq(InBody) /\ Len(c6) = 5 + n + n + n
         /\ \A i \in 1 .. n : c6[i] = "space"
         /\ c6[1 + n] = key
         /\ \A i \in 2 + n .. 1 + n + n : c6[i] = "space"
         /\ c6[2 + n + n] = "="
         /\ \A i \in 3 + n + n .. 2 + n + n + n : c6[i] = "space"
         /\ c6[3 + n + n + n] = "'" /\ c6[4 + n + n + n] = value /\ c6[5 + n + n + n] = "'"
    <3>1. c5 \in Seq(InBody) /\ b \in Seq(InBody)
      BY <1>3, <2>9
    <3>2. /\ c6 \in Seq(InBody) /\ Len(c6) = Len(b) + Len(c5)
          /\ \A i \in 1 .. Len(b) : c6[i] = b[i]
          /\ \A i \in Len(b) + 1 .. Len(b) + Len(c5) : c6[i] = c5[i - Len(b)]
      BY <2>1, <3>1, JoinedAt
    <3>3. Len(c6) = 5 + n + n + n /\ \A i \in 1 .. n : c6[i] = "space"
      BY <1>3, <1>5, <1>6, <2>9, <3>2
    <3>4. ASSUME NEW i \in 1 + n .. 5 + n + n + n, NEW j, j = i - n PROVE c6[i] = c5[j]
      <4>1. i \in Len(b) + 1 .. Len(b) + Len(c5) /\ i - Len(b) = j
        BY <1>5, <1>6, <2>9, <3>4
      <4>2. QED BY <3>2, <4>1, Zenon
    <3>5. c6[1 + n] = c5[1] /\ c6[2 + n + n] = c5[2 + n]
      BY <1>6, <3>4
    <3>6. /\ c6[3 + n + n + n] = c5[3 + n + n] /\ c6[4 + n + n + n] = c5[4 + n + n]
          /\ c6[5 + n + n + n] = c5[5 + n + n]
      BY <1>6, <3>4
    <3>7. \A i \in 2 + n .. 1 + n + n : c6[i] = "space"
      <4> TAKE i \in 2 + n .. 1 + n + n
      <4>1. PICK j : j = i - n
        OBVIOUS
      <4>2. j \in 2 .. 1 + n /\ i \in 1 + n .. 5 + n + n + n
        BY <1>6, <4>1
      <4>3. c6[i] = c5[j]
        BY <3>4, <4>1, <4>2, Zenon
      <4>4. c5[j] = "space"
        BY <2>9, <4>2, Zenon
      <4>5. QED BY <4>3, <4>4
    <3>8. \A i \in 3 + n + n .. 2 + n + n + n : c6[i] = "space"
      <4> TAKE i \in 3 + n + n .. 2 + n + n + n
      <4>1. PICK j : j = i - n
        OBVIOUS
      <4>2. j \in 3 + n .. 2 + n + n /\ i \in 1 + n .. 5 + n + n + n
        BY <1>6, <4>1
      <4>3. c6[i] = c5[j]
        BY <3>4, <4>1, <4>2, Zenon
      <4>4. c5[j] = "space"
        BY <2>9, <4>2, Zenon
      <4>5. QED BY <4>3, <4>4
    <3>9. QED BY <2>9, <3>2, <3>3, <3>5, <3>6, <3>7, <3>8, Zenon
  <2>11. /\ T \in Seq(InBody) /\ Len(T) = 5 + n + n + n + m
         /\ \A i \in 1 .. 5 + n + n + n : T[i] = c6[i]
         /\ \A i \in 6 + n + n + n .. Len(T) : T[i] = "space"
    <3>1. c6 \in Seq(InBody) /\ tail \in Seq(InBody)
      BY <1>4, <2>10
    <3>2. /\ T \in Seq(InBody) /\ Len(T) = Len(c6) + Len(tail)
          /\ \A i \in 1 .. Len(c6) : T[i] = c6[i]
          /\ \A i \in Len(c6) + 1 .. Len(c6) + Len(tail) : T[i] = tail[i - Len(c6)]
      BY <2>2, <3>1, JoinedAt
    <3>3. Len(T) = 5 + n + n + n + m /\ \A i \in 1 .. 5 + n + n + n : T[i] = c6[i]
      BY <1>5, <1>6, <2>10, <3>2
    <3>4. ASSUME NEW i \in 6 + n + n + n .. Len(T) PROVE T[i] = "space"
      <4>1. i \in Len(c6) + 1 .. Len(c6) + Len(tail) /\ i - Len(c6) \in 1 .. Len(tail)
        BY <1>5, <1>6, <2>10, <3>3
      <4>2. T[i] = tail[i - Len(c6)] /\ tail[i - Len(c6)] = "space"
        BY <1>4, <3>2, <4>1, Zenon
      <4>3. QED BY <4>2
    <3>5. QED BY <3>2, <3>3, <3>4, Zenon
  <2>12. PICK k, c, v : k = 1 + n /\ c = 2 + n + n /\ v = 4 + n + n + n
    OBVIOUS
  <2>13. Spells(T, k, c, v, key, value)
    <3>1. k \in 1 .. Len(T) /\ c \in k + 1 .. Len(T) /\ v \in c + 2 .. Len(T) - 1
      BY <1>6, <2>11, <2>12
    <3>2. T[k] = key /\ T[c] = "=" /\ T[v - 1] = "'" /\ T[v] = value /\ T[v + 1] = "'"
      <4>1. v - 1 = 3 + n + n + n /\ v + 1 = 5 + n + n + n
        BY <1>6, <2>12
      <4>2. \A i \in {k, c, v - 1, v, v + 1} : i \in 1 .. 5 + n + n + n
        BY <1>6, <2>12, <4>1
      <4>3. \A i \in {k, c, v - 1, v, v + 1} : T[i] = c6[i]
        BY <2>11, <4>2, Zenon
      <4>4. T[k] = c6[k] /\ T[c] = c6[c] /\ T[v - 1] = c6[v - 1] /\ T[v] = c6[v] /\ T[v + 1] = c6[v + 1]
        BY <4>3
      <4>5. k = 1 + n
        BY <2>12
      <4>6. c6[k] = key
        BY <1>6, <2>10, <2>12, <4>5
      <4>7. c6[c] = "=" /\ c6[v] = value
        BY <2>10, <2>12, Zenon
      <4>8. c6[v - 1] = "'" /\ c6[v + 1] = "'"
        BY <2>10, <4>1, Zenon
      <4>9. QED BY <4>4, <4>6, <4>7, <4>8
    <3>3. \A i \in 1 .. c - 1 : i # k => T[i] = "space"
      BY <1>6, <2>10, <2>11, <2>12, SMTT(30)
    <3>4. \A i \in c + 1 .. v - 2 : T[i] = "space"
      BY <1>6, <2>10, <2>11, <2>12, SMTT(30)
    <3>5. \A i \in v + 2 .. Len(T) : T[i] = "space"
      BY <1>6, <2>11, <2>12
    <3>6. QED BY <1>2, <3>1, <3>2, <3>3, <3>4, <3>5, Zenon DEF Spells
  <2>14. /\ Cut(T) = c /\ c \in Nat /\ c # 0
         /\ TrimBoth(SubSeq(T, 1, Cut(T) - 1), "space") = <<key>>
         /\ Value(T) = <<value>>
    <3>1. T \in Seq(InBody)
      BY <2>11
    <3>2. QED BY <2>13, <3>1, TextIs, Zenon
  <2>15. QED BY <1>1, <1>8, <2>14, Zenon DEF ReadAs
<1>9. QED BY <1>7, <1>8

-----------------------------------------------------------------------------
(* The parts of the comment are the pairs: the last one with the blank     *)
(* before the end of the comment.                                          *)
Text(i) == Piece(pairs[i]) \o (IF i = Len(pairs) THEN blank ELSE <<>>)

(* g[i] is where the text of pair i ends. *)
BodyIs(body, f, g, n, N) ==
  /\ body = Body /\ body \in Seq(InBody) /\ N = Len(body) /\ N \in Nat
  /\ n = Len(pairs) /\ n \in Nat \ {0} /\ f \in [1 .. n -> Nat] /\ g \in [1 .. n -> Nat]
  /\ f[1] = 0 /\ g[n] = N + 1
  /\ \A i \in 1 .. n - 1 : g[i] = f[i + 1]
  /\ \A i \in 1 .. n, k \in 1 .. n : i < k => f[i] < f[k]
  /\ \A i \in 1 .. n : f[i] < g[i] /\ g[i] <= N + 1 /\ f[i] <= N
  /\ \A i \in 2 .. n : body[f[i]] = "comma"
  /\ \A x \in 1 .. N : body[x] = "comma" => \E i \in 2 .. n : x = f[i]
  /\ \A i \in 1 .. n : Text(i) \in Seq(InBody) /\ Len(Text(i)) = g[i] - f[i] - 1
  /\ \A i \in 1 .. n : \A j \in 1 .. g[i] - f[i] - 1 : body[f[i] + j] = Text(i)[j]

(* The commas of the body are those between pairs, and between two of them *)
(* stands what was written for one pair.                                   *)
LEMMA BodyFound ==
  ASSUME CommentInv, NEW f, LaidOut(f), NEW n, n = Len(pairs), n # 0
  PROVE  \E g : BodyIs(Body, f, g, n, Len(Body))
<1>1. PICK w, b, body : w = written /\ b = blank /\ body = Body
  OBVIOUS
<1>2. /\ w \in Seq(InBody) /\ b \in Seq(InBody) /\ body \in Seq(InBody) /\ b \in Seq(NoComma)
      /\ pairs \in Seq(Pairs) /\ n \in Nat \ {0}
  <2>1. w \in Seq(InBody) /\ b \in Seq(InBody) /\ body \in Seq(InBody) /\ b \in Seq(NoComma)
    BY <1>1, WordsOfQuery, Zenon
  <2>2. pairs \in Seq(Pairs) /\ n \in Nat \ {0}
    BY LenProperties DEF CommentInv
  <2>3. QED BY <2>1, <2>2
<1>3. /\ Len(body) = Len(w) + Len(b)
      /\ \A i \in 1 .. Len(w) : body[i] = w[i]
      /\ \A j \in 1 .. Len(b) : body[Len(w) + j] = b[j]
  <2>1. body = w \o b
    BY <1>1, Zenon DEF Body
  <2>2. QED BY <1>2, <2>1, Joined
<1>4. PICK W, B, N : W = Len(w) /\ B = Len(b) /\ N = W + B
  OBVIOUS
<1>5. W \in Nat /\ B \in Nat /\ N \in Nat /\ Len(body) = N
  BY <1>2, <1>3, <1>4, LenProperties
<1>6. PICK lens : lens = [i \in 1 .. n |-> Len(Piece(pairs[i]))]
  OBVIOUS
<1>7. \A i \in 1 .. n : lens[i] \in Nat /\ lens[i] = Len(Piece(pairs[i])) /\ Piece(pairs[i]) \in Seq(InBody)
  <2> TAKE i \in 1 .. n
  <2>1. pairs[i] \in Pairs
    BY <1>2
  <2>2. blank \in {<<>>, <<"space">>}
    BY DEF CommentInv
  <2>3. Piece(pairs[i]) \in Seq(NoComma) /\ NoComma \subseteq InBody
    BY <2>1, <2>2, PairWords DEF NoComma
  <2>4. Piece(pairs[i]) \in Seq(InBody)
    BY <2>3, SeqMonotonic
  <2>5. QED BY <1>6, <2>4, LenProperties
<1>8. /\ f \in [1 .. n -> Nat] /\ f[1] = 0
      /\ \A i \in 1 .. n - 1 : f[i + 1] = f[i] + lens[i] + 1
      /\ \A i \in 1 .. n, k \in 1 .. n : i < k => f[i] + lens[i] < f[k]
      /\ \A i \in 2 .. n : f[i] \in 1 .. W /\ w[f[i]] = "comma"
      /\ \A x \in 1 .. W : w[x] = "comma" => \E i \in 2 .. n : x = f[i]
      /\ W = f[n] + lens[n]
  <2>1. \A i \in 1 .. n - 1 : i \in 1 .. n
    BY <1>2
  <2>2. n \in 1 .. n /\ n > 0
    BY <1>2
  <2>3. QED BY <1>1, <1>4, <1>7, <2>1, <2>2, Zenon DEF LaidOut
<1>9. \A i \in 1 .. n : \A j \in 1 .. lens[i] : w[f[i] + j] = Piece(pairs[i])[j]
  BY <1>1, <1>7, Zenon DEF LaidOut
<1>10. PICK g : g = [i \in 1 .. n |-> IF i = n THEN N + 1 ELSE f[i + 1]]
  OBVIOUS
<1>11. \A i \in 1 .. n : f[i] \in Nat /\ f[i] + lens[i] <= W /\ f[i] <= N
  <2> TAKE i \in 1 .. n
  <2>1. n \in 1 .. n
    BY <1>2
  <2>2. f[i] \in Nat /\ f[n] \in Nat /\ lens[i] \in Nat /\ lens[n] \in Nat
    BY <1>7, <1>8, <2>1
  <2>3. i = n \/ f[i] + lens[i] < f[n]
    BY <1>2, <1>8, <2>1
  <2>4. CASE i = n
    <3>1. f[i] + lens[i] = W /\ f[i] <= W
      BY <1>8, <2>2, <2>4
    <3>2. QED BY <1>4, <1>5, <2>2, <3>1
  <2>5. CASE f[i] + lens[i] < f[n]
    <3>1. W = f[n] + lens[n]
      BY <1>8
    <3>2. QED BY <1>4, <1>5, <2>2, <2>5, <3>1, SMTT(30)
  <2>6. QED BY <2>3, <2>4, <2>5
<1>12. \A i \in 1 .. n - 1 : /\ i \in 1 .. n /\ i + 1 \in 1 .. n
                             /\ g[i] = f[i + 1] /\ g[i] = f[i] + lens[i] + 1
  BY <1>2, <1>8, <1>10
<1>13. g[n] = N + 1 /\ g[n] = f[n] + lens[n] + B + 1
  <2>1. n \in 1 .. n
    BY <1>2
  <2>2. g[n] = N + 1
    BY <1>10, <2>1
  <2>3. QED BY <1>4, <1>7, <1>8, <1>11, <2>1, <2>2
<1>14. \A i \in 1 .. n : g[i] \in Nat /\ f[i] < g[i] /\ g[i] <= N + 1
  <2> TAKE i \in 1 .. n
  <2>1. i = n \/ i \in 1 .. n - 1
    BY <1>2
  <2>2. CASE i = n
    BY <1>5, <1>11, <1>13, <2>2
  <2>3. CASE i \in 1 .. n - 1
    <3>1. g[i] = f[i + 1] /\ g[i] = f[i] + lens[i] + 1 /\ i + 1 \in 1 .. n
      BY <1>12, <2>3
    <3>2. f[i + 1] \in Nat /\ f[i + 1] <= N /\ f[i] \in Nat /\ lens[i] \in Nat
      BY <1>7, <1>11, <3>1
    <3>3. QED BY <1>5, <3>1, <3>2
  <2>4. QED BY <2>1, <2>2, <2>3
<1>15. g \in [1 .. n -> Nat]
  BY <1>10, <1>14
<1>16. \A i \in 1 .. n, k \in 1 .. n : i < k => f[i] < f[k]
  <2> SUFFICES ASSUME NEW i \in 1 .. n, NEW k \in 1 .. n, i < k PROVE f[i] < f[k]
    OBVIOUS
  <2>1. f[i] \in Nat /\ f[k] \in Nat /\ lens[i] \in Nat /\ f[i] + lens[i] < f[k]
    BY <1>7, <1>8, <1>11
  <2>2. QED BY <2>1
<1>17. \A i \in 2 .. n : body[f[i]] = "comma"
  BY <1>3, <1>4, <1>8
<1>18. \A x \in 1 .. N : body[x] = "comma" => \E i \in 2 .. n : x = f[i]
  <2> SUFFICES ASSUME NEW x \in 1 .. N, body[x] = "comma" PROVE \E i \in 2 .. n : x = f[i]
    OBVIOUS
  <2>1. CASE x <= W
    <3>1. x \in 1 .. W /\ w[x] = "comma"
      BY <1>3, <1>4, <1>5, <2>1
    <3>2. QED BY <1>8, <3>1
  <2>2. CASE x > W
    <3>1. PICK j : j = x - W
      OBVIOUS
    <3>2. j \in 1 .. B /\ W + j = x
      BY <1>4, <1>5, <2>2, <3>1
    <3>3. body[x] = b[j] /\ b[j] \in NoComma
      <4>1. j \in 1 .. Len(b) /\ b \in Seq(NoComma)
        BY <1>2, <1>4, <3>2
      <4>2. b[j] \in NoComma
        BY <4>1, ElementOfSeq
      <4>3. QED BY <1>3, <1>4, <3>2, <4>1, <4>2, Zenon
    <3>4. QED BY <3>3 DEF NoComma
  <2>3. QED BY <1>5, <2>1, <2>2
<1>19. \A i \in 1 .. n : /\ Text(i) \in Seq(InBody) /\ Len(Text(i)) = g[i] - f[i] - 1
                         /\ \A j \in 1 .. g[i] - f[i] - 1 : body[f[i] + j] = Text(i)[j]
  <2> TAKE i \in 1 .. n
  <2>1. PICK p, e : p = Piece(pairs[i]) /\ e = IF i = n THEN b ELSE <<>>
    OBVIOUS
  <2>2. p \in Seq(InBody) /\ e \in Seq(InBody) /\ Len(p) = lens[i] /\ Len(e) = IF i = n THEN B ELSE 0
    <3>1. p \in Seq(InBody) /\ Len(p) = lens[i]
      BY <1>7, <2>1, Zenon
    <3>2. e \in Seq(InBody) /\ Len(e) = IF i = n THEN B ELSE 0
      <4>1. <<>> \in Seq(InBody) /\ Len(<<>>) = 0
        BY EmptySeq
      <4>2. CASE i = n
        BY <1>2, <1>4, <2>1, <4>2, Zenon
      <4>3. CASE i # n
        <5>1. e = <<>>
          BY <2>1, <4>3
        <5>2. QED BY <4>1, <4>3, <5>1
      <4>4. QED BY <4>2, <4>3
    <3>3. QED BY <3>1, <3>2
  <2>3. PICK t : t = p \o e
    OBVIOUS
  <2>4. t = Text(i)
    BY <1>1, <2>1, <2>3, Zenon DEF Text
  <2>5. /\ t \in Seq(InBody) /\ Len(t) = Len(p) + Len(e)
        /\ \A j \in 1 .. Len(p) : t[j] = p[j]
        /\ \A j \in 1 .. Len(e) : t[Len(p) + j] = e[j]
    <3>1. p \in Seq(InBody) /\ e \in Seq(InBody)
      BY <2>2
    <3>2. QED BY <2>3, <3>1, Joined
  <2>6. f[i] \in Nat /\ lens[i] \in Nat /\ f[i] + lens[i] <= W
    BY <1>7, <1>11
  <2>7. Len(t) = g[i] - f[i] - 1 /\ Len(t) = lens[i] + (IF i = n THEN B ELSE 0)
    <3>1. i = n \/ i \in 1 .. n - 1
      BY <1>2
    <3>2. CASE i = n
      BY <1>5, <1>13, <2>2, <2>5, <2>6, <3>2, SMTT(30)
    <3>3. CASE i \in 1 .. n - 1
      <4>1. g[i] = f[i] + lens[i] + 1 /\ i # n
        BY <1>2, <1>12, <3>3
      <4>2. Len(t) = lens[i] + 0
        BY <2>2, <2>5, <4>1
      <4>3. QED BY <2>6, <4>1, <4>2
    <3>4. QED BY <3>1, <3>2, <3>3
  <2>8. ASSUME NEW j \in 1 .. g[i] - f[i] - 1 PROVE body[f[i] + j] = t[j]
    <3>1. j \in 1 .. Len(t)
      BY <2>7, <2>8, Zenon
    <3>2. CASE j <= lens[i]
      <4>1. j \in 1 .. lens[i] /\ f[i] + j \in 1 .. W
        BY <1>5, <2>6, <2>7, <3>1, <3>2
      <4>2. body[f[i] + j] = w[f[i] + j]
        BY <1>3, <1>4, <4>1, Zenon
      <4>3. w[f[i] + j] = p[j] /\ t[j] = p[j]
        BY <1>9, <2>1, <2>2, <2>5, <4>1, Zenon
      <4>4. QED BY <4>2, <4>3
    <3>3. CASE j > lens[i]
      <4>1. PICK k : k = j - lens[i]
        OBVIOUS
      <4>2. i = n /\ k \in 1 .. B /\ lens[i] + k = j
        <5>1. i # n => Len(t) = lens[i] + 0
          BY <2>7
        <5>2. i = n
          BY <2>6, <3>1, <3>3, <5>1
        <5>3. Len(t) = lens[i] + B
          BY <2>7, <5>2
        <5>4. QED BY <1>5, <2>6, <3>1, <3>3, <4>1, <5>2, <5>3
      <4>3. W + k = f[i] + j
        BY <1>8, <2>6, <4>2
      <4>4. body[W + k] = b[k]
        BY <1>3, <1>4, <4>2, Zenon
      <4>5. e = b /\ k \in 1 .. Len(e)
        BY <1>4, <2>1, <4>2, Zenon
      <4>6. t[lens[i] + k] = e[k]
        BY <2>2, <2>5, <4>5, Zenon
      <4>7. QED BY <4>2, <4>3, <4>4, <4>5, <4>6, Zenon
    <3>4. QED BY <2>6, <3>1, <3>2, <3>3
  <2>9. QED BY <2>4, <2>5, <2>7, <2>8, Zenon
<1>20. BodyIs(body, f, g, n, N)
  BY <1>1, <1>2, <1>5, <1>8, <1>11, <1>12, <1>13, <1>14, <1>15, <1>16, <1>17, <1>18, <1>19, Zenon DEF BodyIs
<1>21. QED BY <1>1, <1>5, <1>20, Zenon

(* So the parts are what was written for the pairs, at their places. *)
LEMMA PartsAre ==
  ASSUME NEW body, NEW f, NEW g, NEW n, NEW N, BodyIs(body, f, g, n, N)
  PROVE  Parts(body) = {[from |-> f[i], text |-> Text(i)] : i \in 1 .. n}
<1>1. /\ body \in Seq(InBody) /\ N = Len(body) /\ N \in Nat
      /\ n \in Nat \ {0} /\ f \in [1 .. n -> Nat] /\ g \in [1 .. n -> Nat]
      /\ f[1] = 0 /\ g[n] = N + 1
      /\ \A i \in 1 .. n - 1 : g[i] = f[i + 1]
      /\ \A i \in 1 .. n, k \in 1 .. n : i < k => f[i] < f[k]
      /\ \A i \in 1 .. n : f[i] < g[i] /\ g[i] <= N + 1 /\ f[i] <= N
      /\ \A i \in 2 .. n : body[f[i]] = "comma"
      /\ \A x \in 1 .. N : body[x] = "comma" => \E i \in 2 .. n : x = f[i]
      /\ \A i \in 1 .. n : Text(i) \in Seq(InBody) /\ Len(Text(i)) = g[i] - f[i] - 1
      /\ \A i \in 1 .. n : \A j \in 1 .. g[i] - f[i] - 1 : body[f[i] + j] = Text(i)[j]
  BY Zenon DEF BodyIs
<1>2. PICK bs : bs = {0, N + 1} \cup {i \in DOMAIN body : body[i] = "comma"}
  OBVIOUS
<1>3. PICK F : F = [x \in Nat |-> SubSeq(body, x + 1, Min({j \in bs : j > x}) - 1)]
  OBVIOUS
<1>4. DOMAIN body = 1 .. N
  BY <1>1, LenProperties
<1>5. \A x \in bs : x \in Nat /\ (x = N + 1 \/ \E i \in 1 .. n : x = f[i])
  <2> SUFFICES ASSUME NEW x \in bs PROVE x \in Nat /\ (x = N + 1 \/ \E i \in 1 .. n : x = f[i])
    OBVIOUS
  <2>1. x = 0 \/ x = N + 1 \/ (x \in 1 .. N /\ body[x] = "comma")
    BY <1>2, <1>4
  <2>2. CASE x = 0
    <3>1. 1 \in 1 .. n /\ x = f[1]
      BY <1>1, <2>2
    <3>2. QED BY <2>2, <3>1
  <2>3. CASE x = N + 1
    BY <1>1, <2>3
  <2>4. CASE x \in 1 .. N /\ body[x] = "comma"
    <3>1. PICK i \in 2 .. n : x = f[i]
      BY <1>1, <2>4
    <3>2. i \in 1 .. n
      BY <1>1
    <3>3. QED BY <2>4, <3>1, <3>2
  <2>5. QED BY <2>1, <2>2, <2>3, <2>4
<1>6. \A i \in 1 .. n : f[i] \in bs /\ f[i] # N + 1 /\ f[i] \in Nat /\ g[i] \in bs
  <2>1. \A i \in 1 .. n : f[i] \in bs /\ f[i] \in Nat /\ f[i] <= N
    <3> TAKE i \in 1 .. n
    <3>1. f[i] \in Nat /\ f[i] <= N
      BY <1>1
    <3>2. CASE i = 1
      <4>1. f[i] = 0
        BY <1>1, <3>2
      <4>2. QED BY <1>2, <3>1, <4>1
    <3>3. CASE i # 1
      <4>1. i \in 2 .. n
        BY <3>3
      <4>2. body[f[i]] = "comma" /\ f[1] < f[i] /\ 1 \in 1 .. n
        <5>1. body[f[i]] = "comma"
          BY <1>1, <4>1, Zenon
        <5>2. 1 \in 1 .. n /\ 1 < i
          BY <1>1, <4>1
        <5>3. f[1] < f[i]
          BY <1>1, <5>2, Zenon
        <5>4. QED BY <5>1, <5>2, <5>3
      <4>3. f[i] \in 1 .. N
        BY <1>1, <3>1, <4>2
      <4>4. QED BY <1>2, <1>4, <3>1, <4>2, <4>3
    <3>4. QED BY <3>2, <3>3
  <2>2. \A i \in 1 .. n : g[i] \in bs
    <3> TAKE i \in 1 .. n
    <3>1. i = n \/ (i \in 1 .. n - 1 /\ i + 1 \in 1 .. n)
      BY <1>1
    <3>2. CASE i = n
      BY <1>1, <1>2, <3>2
    <3>3. CASE i \in 1 .. n - 1 /\ i + 1 \in 1 .. n
      BY <1>1, <2>1, <3>3
    <3>4. QED BY <3>1, <3>2, <3>3
  <2>3. \A i \in 1 .. n : f[i] # N + 1
    BY <1>1, <2>1
  <2>4. QED BY <2>1, <2>2, <2>3
<1>7. \A i \in 1 .. n : Min({j \in bs : j > f[i]}) = g[i]
  <2> TAKE i \in 1 .. n
  <2>1. PICK R : R = {j \in bs : j > f[i]}
    OBVIOUS
  <2>2. R \in SUBSET Nat
    BY <1>5, <2>1
  <2>3. g[i] \in R
    BY <1>1, <1>6, <2>1
  <2>4. \A y \in R : g[i] <= y
    <3> TAKE y \in R
    <3>1. y \in bs /\ y > f[i] /\ y \in Nat
      BY <1>5, <2>1
    <3>2. CASE y = N + 1
      BY <1>1, <3>2
    <3>3. ASSUME NEW k \in 1 .. n, y = f[k] PROVE g[i] <= y
      <4>1. ~ (k <= i)
        <5>1. k = i => y = f[i]
          BY <3>3
        <5>2. k < i => f[k] < f[i]
          BY <1>1
        <5>3. f[i] \in Nat /\ f[k] \in Nat
          BY <1>6
        <5>4. QED BY <3>1, <3>3, <5>1, <5>2, <5>3
      <4>2. i \in 1 .. n - 1 /\ i + 1 \in 1 .. n /\ i + 1 <= k
        BY <1>1, <4>1
      <4>3. g[i] = f[i + 1]
        BY <1>1, <4>2
      <4>4. i + 1 = k \/ f[i + 1] < f[k]
        BY <1>1, <4>2
      <4>5. f[i + 1] \in Nat /\ f[k] \in Nat
        BY <1>6, <4>2
      <4>6. CASE i + 1 = k
        BY <3>3, <4>3, <4>5, <4>6
      <4>7. CASE f[i + 1] < f[k]
        BY <3>3, <4>3, <4>5, <4>7
      <4>8. QED BY <4>4, <4>6, <4>7
    <3>4. QED BY <1>5, <3>1, <3>2, <3>3
  <2>5. Min(R) = g[i]
    BY <2>2, <2>3, <2>4, MinIs
  <2>6. QED BY <2>1, <2>5
<1>8. \A i \in 1 .. n : SubSeq(body, f[i] + 1, g[i] - 1) = Text(i)
  <2> TAKE i \in 1 .. n
  <2>1. PICK x, y, u : x = f[i] /\ y = g[i] /\ u = Text(i)
    OBVIOUS
  <2>2. x \in Nat /\ y \in Nat /\ x < y /\ y <= N + 1
    BY <1>1, <2>1
  <2>3. u \in Seq(InBody) /\ Len(u) = y - x - 1 /\ \A k \in 1 .. y - x - 1 : body[x + k] = u[k]
    BY <1>1, <2>1, Zenon
  <2>4. PICK a, b, t : a = x + 1 /\ b = y - 1 /\ t = SubSeq(body, a, b)
    OBVIOUS
  <2>5. a \in Int /\ b \in Int /\ b - a + 1 = y - x - 1 /\ (a <= b \/ b - a + 1 = 0)
    BY <2>2, <2>4
  <2>6. \A j \in a .. b : body[j] \in InBody
    <3> TAKE j \in a .. b
    <3>1. j \in 1 .. Len(body)
      BY <1>1, <2>2, <2>4
    <3>2. body \in Seq(InBody)
      BY <1>1
    <3>3. QED BY <3>1, <3>2, ElementOfSeq
  <2>7. /\ t \in Seq(InBody) /\ Len(t) = IF a <= b THEN b - a + 1 ELSE 0
        /\ \A j \in 1 .. b - a + 1 : t[j] = body[a + j - 1]
    BY <2>4, <2>5, <2>6, SubSeqProperties
  <2>8. Len(t) = y - x - 1 /\ Len(t) = Len(u)
    BY <2>2, <2>3, <2>5, <2>7
  <2>9. t = u
    <3>1. \A j \in 1 .. Len(t) : t[j] = u[j]
      <4> TAKE j \in 1 .. Len(t)
      <4>1. j \in 1 .. b - a + 1 /\ j \in 1 .. y - x - 1
        BY <2>5, <2>8, Zenon
      <4>2. a + j - 1 = x + j
        BY <2>2, <2>4, <4>1
      <4>3. t[j] = body[a + j - 1] /\ body[x + j] = u[j]
        BY <2>3, <2>7, <4>1, Zenon
      <4>4. QED BY <4>2, <4>3, Zenon
    <3>2. t \in Seq(InBody) /\ u \in Seq(InBody)
      BY <2>3, <2>7
    <3>3. QED BY <2>8, <3>1, <3>2, SeqEqual
  <2>10. QED BY <2>1, <2>4, <2>9
<1>9. \A i \in 1 .. n : F[f[i]] = Text(i)
  BY <1>3, <1>6, <1>7, <1>8, Zenon
<1>10. Parts(body) = {[from |-> x, text |-> F[x]] : x \in bs \ {N + 1}}
  <2>1. \A x \in bs \ {N + 1} : F[x] = SubSeq(body, x + 1, Min({j \in bs : j > x}) - 1)
    BY <1>3, <1>5
  <2>2. Parts(body) = {[from |-> x, text |-> SubSeq(body, x + 1, Min({j \in bs : j > x}) - 1)] :
                         x \in bs \ {N + 1}}
    <3>1. Parts(body) = {[from |-> x, text |-> SubSeq(body, x + 1, Min({j \in bs : j > x}) - 1)] :
                           x \in bs \ {Len(body) + 1}}
      <4>1. bs = {0, Len(body) + 1} \cup {i \in DOMAIN body : body[i] = "comma"}
        BY <1>1, <1>2, Zenon
      <4>2. QED BY <4>1, Zenon DEF Parts
    <3>2. N + 1 = Len(body) + 1
      BY <1>1, Zenon
    <3>3. QED BY <3>1, <3>2, Zenon
  <2>3. QED BY <2>1, <2>2, Zenon
<1>11. \A x \in bs \ {N + 1} : \E i \in 1 .. n : x = f[i]
  BY <1>5
<1>12. \A i \in 1 .. n : f[i] \in bs \ {N + 1}
  BY <1>6
<1>13. QED
  <2>1. {[from |-> x, text |-> F[x]] : x \in bs \ {N + 1}}
          = {[from |-> f[i], text |-> Text(i)] : i \in 1 .. n}
    <3>1. ASSUME NEW x \in bs \ {N + 1}
          PROVE  [from |-> x, text |-> F[x]] \in {[from |-> f[i], text |-> Text(i)] : i \in 1 .. n}
      <4>1. PICK i \in 1 .. n : x = f[i]
        BY <1>11
      <4>2. [from |-> x, text |-> F[x]] = [from |-> f[i], text |-> Text(i)]
        BY <1>9, <4>1, Zenon
      <4>3. QED BY <4>2, Zenon
    <3>2. ASSUME NEW i \in 1 .. n
          PROVE  [from |-> f[i], text |-> Text(i)] \in {[from |-> x, text |-> F[x]] : x \in bs \ {N + 1}}
      <4>1. [from |-> f[i], text |-> Text(i)] = [from |-> f[i], text |-> F[f[i]]]
        BY <1>9, Zenon
      <4>2. QED BY <1>12, <4>1, Zenon
    <3>3. QED BY <3>1, <3>2, Zenon
  <2>2. QED BY <1>10, <2>1, Zenon

(* Without a pair there is nothing but a blank. *)
LEMMA NoPairs ==
  ASSUME CommentInv, Len(pairs) = 0
  PROVE  Traceparents(Body) = {}
<1>1. PICK body, N : body = Body /\ N = Len(body)
  OBVIOUS
<1>2. written = <<>>
  <2>1. PICK f : LaidOut(f)
    BY DEF CommentInv
  <2>2. Len(written) = 0
    BY <2>1 DEF LaidOut
  <2>3. written \in Seq(InBody)
    BY DEF CommentInv
  <2>4. QED BY <2>2, <2>3, EmptySeq
<1>3. body \in Seq(InBody) /\ N \in Nat /\ \A i \in 1 .. N : body[i] = "space"
  <2>1. blank \in Seq(InBody)
    BY WordsOfQuery
  <2>2. body = blank
    <3>1. <<>> \o blank = blank
      BY <2>1, ConcatEmptySeq
    <3>2. QED BY <1>1, <1>2, <3>1, Zenon DEF Body
  <2>3. \A i \in 1 .. Len(blank) : blank[i] = "space"
    BY DEF CommentInv
  <2>4. QED BY <1>1, <2>1, <2>2, <2>3, LenProperties
<1>4. PICK bs : bs = {0, N + 1} \cup {i \in DOMAIN body : body[i] = "comma"}
  OBVIOUS
<1>5. bs = {0, N + 1}
  <2>1. DOMAIN body = 1 .. N
    BY <1>1, <1>3, LenProperties
  <2>2. QED BY <1>3, <1>4, <2>1
<1>6. Min({j \in bs : j > 0}) = N + 1
  <2>1. PICK R : R = {j \in bs : j > 0}
    OBVIOUS
  <2>2. R \in SUBSET Nat /\ N + 1 \in R /\ \A y \in R : N + 1 <= y
    BY <1>3, <1>5, <2>1
  <2>3. Min(R) = N + 1
    BY <2>2, MinIs
  <2>4. QED BY <2>1, <2>3
<1>7. \A x \in bs \ {N + 1} : x = 0
  BY <1>5
<1>8. SubSeq(body, 0 + 1, (N + 1) - 1) = body
  <2>1. 0 + 1 = 1 /\ (N + 1) - 1 = N
    BY <1>3
  <2>2. SubSeq(body, 1, Len(body)) = body
    BY <1>3, SubSeqFull
  <2>3. QED BY <1>1, <2>1, <2>2, Zenon
<1>9. Parts(body) = {[from |-> x, text |-> SubSeq(body, x + 1, Min({j \in bs : j > x}) - 1)] :
                       x \in bs \ {N + 1}}
  BY <1>1, <1>4, Zenon DEF Parts
<1>10. \A p \in Parts(body) : p.text = body
  <2> TAKE p \in Parts(body)
  <2>1. PICK x \in bs \ {N + 1} :
          p = [from |-> x, text |-> SubSeq(body, x + 1, Min({j \in bs : j > x}) - 1)]
    BY <1>9, Zenon
  <2>2. x = 0
    BY <1>7
  <2>3. p.text = SubSeq(body, x + 1, Min({j \in bs : j > x}) - 1)
    BY <2>1, Zenon
  <2>4. QED BY <1>6, <1>8, <2>2, <2>3, Zenon
<1>11. Cut(body) = 0
  <2>1. \A i \in 1 .. Len(body) : body[i] # "="
    BY <1>1, <1>3
  <2>2. QED BY <1>3, <2>1, NoCut
<1>12. \A p \in Parts(body) : Cut(p.text) = 0
  BY <1>10, <1>11, Zenon
<1>13. QED BY <1>1, <1>12, Zenon DEF Traceparents

(* The pairs with a traceparent, by their places. *)
Keyed == {i \in 1 .. Len(pairs) : pairs[i].key = "key"}

(* The first of them is what the code takes for the context.               *)
First == CHOOSE p \in Traceparents(Body) : \A o \in Traceparents(Body) : p.from <= o.from

(* The first traceparent among the parts is that of the first pair with    *)
(* the key.                                                                *)
LEMMA FirstTraceparent ==
  ASSUME CommentInv
  PROVE  /\ Traceparents(Body) = {} <=> Keyed = {}
         /\ \A m \in Keyed : (\A y \in Keyed : m <= y) => Value(First.text) = <<pairs[m].value>>
<1>1. PICK n, K, tp : n = Len(pairs) /\ K = Keyed /\ tp = Traceparents(Body)
  OBVIOUS
<1>2. pairs \in Seq(Pairs) /\ n \in Nat /\ K = {i \in 1 .. n : pairs[i].key = "key"}
  BY <1>1, LenProperties DEF CommentInv, Keyed
<1>3. CASE n = 0
  <2>1. K = {} /\ tp = {}
    BY <1>1, <1>2, <1>3, NoPairs
  <2>2. QED BY <1>1, <2>1
<1>4. CASE n # 0
  <2>1. PICK f, g : BodyIs(Body, f, g, n, Len(Body))
    BY <1>1, <1>4, BodyFound DEF CommentInv
  <2>2. Parts(Body) = {[from |-> f[i], text |-> Text(i)] : i \in 1 .. n}
    BY <2>1, PartsAre
  <2>3. \A i \in 1 .. n : f[i] \in Nat
    BY <2>1 DEF BodyIs
  <2>4. \A i \in 1 .. n, k \in 1 .. n : i < k => f[i] < f[k]
    BY <2>1, Zenon DEF BodyIs
  <2>5. \A i \in 1 .. n : pairs[i] \in Pairs /\ ReadAs(Text(i), pairs[i])
    <3> TAKE i \in 1 .. n
    <3>1. pairs[i] \in Pairs
      BY <1>1, <1>2
    <3>2. blank \in {<<>>, <<"space">>}
      BY DEF CommentInv
    <3>3. PICK tail : tail = IF i = Len(pairs) THEN blank ELSE <<>>
      OBVIOUS
    <3>4. tail \in {<<>>, blank}
      BY <3>3
    <3>5. PICK T : T = Piece(pairs[i]) \o tail
      OBVIOUS
    <3>6. T = Text(i)
      BY <3>3, <3>5, Zenon DEF Text
    <3>7. ReadAs(T, pairs[i])
      BY <3>1, <3>2, <3>4, <3>5, TextRead
    <3>8. QED BY <3>1, <3>6, <3>7, Zenon
  <2>6. \A i \in 1 .. n :
          (/\ Cut(Text(i)) # 0
           /\ TrimBoth(SubSeq(Text(i), 1, Cut(Text(i)) - 1), "space") = <<"key">>) <=> i \in K
    <3> TAKE i \in 1 .. n
    <3>1. PICK p, c, t : /\ p = pairs[i] /\ c = Cut(Text(i))
                         /\ t = TrimBoth(SubSeq(Text(i), 1, Cut(Text(i)) - 1), "space")
      OBVIOUS
    <3>2. (p.key = "" => c = 0) /\ (p.key # "" => c # 0 /\ t = <<p.key>>)
      BY <2>5, <3>1, Zenon DEF ReadAs
    <3>3. (c # 0 /\ t = <<"key">>) <=> p.key = "key"
      <4>1. CASE p.key = ""
        BY <3>2, <4>1
      <4>2. CASE p.key # ""
        <5>1. c # 0 /\ t = <<p.key>>
          BY <3>2, <4>2
        <5>2. <<p.key>> = <<"key">> <=> p.key = "key"
          OBVIOUS
        <5>3. QED BY <5>1, <5>2
      <4>3. QED BY <4>1, <4>2
    <3>4. p.key = "key" <=> i \in K
      BY <1>2, <3>1
    <3>5. QED BY <3>1, <3>3, <3>4, Zenon
  <2>7. PICK part : part = [i \in 1 .. n |-> [from |-> f[i], text |-> Text(i)]]
    OBVIOUS
  <2>8. \A i \in 1 .. n : /\ part[i].from = f[i] /\ part[i].text = Text(i)
                          /\ part[i] = [from |-> f[i], text |-> Text(i)]
    BY <2>7
  <2>9. \A i \in K : i \in 1 .. n
    BY <1>2
  <2>10. \A i \in K : part[i] \in tp
    <3> TAKE i \in K
    <3>1. i \in 1 .. n
      BY <2>9
    <3>2. part[i] \in Parts(Body)
      BY <2>2, <2>8, <3>1, Zenon
    <3>3. /\ Cut(part[i].text) # 0
          /\ TrimBoth(SubSeq(part[i].text, 1, Cut(part[i].text) - 1), "space") = <<"key">>
      BY <2>6, <2>8, <3>1, Zenon
    <3>4. QED BY <1>1, <3>2, <3>3, Zenon DEF Traceparents
  <2>11. \A p \in tp : \E i \in K : p = part[i]
    <3> TAKE p \in tp
    <3>1. /\ p \in Parts(Body) /\ Cut(p.text) # 0
          /\ TrimBoth(SubSeq(p.text, 1, Cut(p.text) - 1), "space") = <<"key">>
      BY <1>1, Zenon DEF Traceparents
    <3>2. PICK i \in 1 .. n : p = [from |-> f[i], text |-> Text(i)]
      BY <2>2, <3>1, Zenon
    <3>3. p = part[i] /\ p.text = Text(i)
      BY <2>8, <3>2, Zenon
    <3>4. i \in K
      BY <2>6, <3>1, <3>3, Zenon
    <3>5. QED BY <3>3, <3>4, Zenon
  <2>12. tp = {} <=> K = {}
    BY <2>10, <2>11, Zenon
  <2>13. ASSUME NEW m \in K, \A y \in K : m <= y
         PROVE  Value(First.text) = <<pairs[m].value>>
    <3>0. PICK first : first = CHOOSE p \in tp : \A o \in tp : p.from <= o.from
      OBVIOUS
    <3>20. first = First
      BY <1>1, <3>0, Zenon DEF First
    <3>1. \A o \in tp : part[m].from <= o.from
      <4> TAKE o \in tp
      <4>1. PICK i \in K : o = part[i]
        BY <2>11
      <4>2. i \in 1 .. n /\ m \in 1 .. n /\ m <= i
        BY <2>9, <2>13
      <4>3. f[m] \in Nat /\ f[i] \in Nat /\ (m = i \/ f[m] < f[i])
        BY <2>3, <2>4, <4>2
      <4>4. f[m] <= f[i]
        <5>1. CASE m = i
          BY <4>3, <5>1
        <5>2. CASE f[m] < f[i]
          BY <4>3, <5>2
        <5>3. QED BY <4>3, <5>1, <5>2
      <4>5. part[m].from = f[m] /\ part[i].from = f[i]
        BY <2>8, <4>2
      <4>6. QED BY <4>1, <4>4, <4>5, Zenon
    <3>2. part[m] \in tp
      BY <2>10
    <3>3. first \in tp /\ \A o \in tp : first.from <= o.from
      BY <3>0, <3>1, <3>2, Zenon
    <3>4. PICK i \in K : first = part[i]
      BY <2>11, <3>3
    <3>5. i \in 1 .. n /\ m \in 1 .. n /\ m <= i
      BY <2>9, <2>13
    <3>6. part[i].from <= part[m].from
      BY <3>2, <3>3, <3>4, Zenon
    <3>7. part[m].from = f[m] /\ part[i].from = f[i]
      BY <2>8, <3>5
    <3>8. f[i] <= f[m] /\ f[i] \in Nat /\ f[m] \in Nat
      BY <2>3, <3>5, <3>6, <3>7
    <3>9. i = m
      <4>1. m < i => f[m] < f[i]
        BY <2>4, <3>5
      <4>2. ~ (m < i)
        BY <3>8, <4>1
      <4>3. QED BY <3>5, <4>2
    <3>10. first.text = Text(m)
      BY <2>8, <3>4, <3>5, <3>9, Zenon
    <3>11. ReadAs(Text(m), pairs[m]) /\ pairs[m].key = "key"
      BY <1>2, <2>5, <3>5
    <3>12. pairs[m].key # ""
      BY <3>11
    <3>13. QED BY <3>10, <3>11, <3>12, <3>20, Zenon DEF ReadAs
  <2>14. QED BY <1>1, <2>12, <2>13, Zenon
<1>5. QED BY <1>3, <1>4

(* Only a good value makes a header that parses. *)
LEMMA HeaderRead ==
  ASSUME NEW v
  PROVE  ParseTraceparent(Header(<<v>>)) <=> v = "valid"
<1>1. PICK h : h = Header(<<v>>)
  OBVIOUS
<1>2. CASE v = "valid"
  <2>1. h = <<Version, TraceID("app"), SpanID("app"), Flags>>
    BY <1>1, <1>2, Zenon DEF Header, FormatTraceparent
  <2>2. h[2] = TraceID("app") /\ h[3] = SpanID("app") /\ Len(h) = 4
    BY <2>1
  <2>3. /\ TraceID("app").len = 32 /\ TraceID("app").digits = "lower"
        /\ SpanID("app").len = 16 /\ SpanID("app").digits = "lower"
    BY DEF TraceID, SpanID
  <2>4. isLowerHex(TraceID("app")) /\ isLowerHex(SpanID("app"))
    <3>1. 32 % 2 = 0 /\ 16 % 2 = 0
      OBVIOUS
    <3>2. QED BY <2>3, <3>1 DEF isLowerHex
  <2>5. ParseTraceparent(h)
    <3>1. "lower" # "zeros"
      OBVIOUS
    <3>2. QED BY <2>2, <2>3, <2>4, <3>1, Zenon DEF ParseTraceparent
  <2>6. QED BY <1>1, <1>2, <2>5
<1>3. CASE v # "valid"
  <2>1. <<v>> # <<"valid">>
    BY <1>3
  <2>2. h = <<>>
    BY <1>1, <2>1 DEF Header
  <2>3. Len(h) # 4
    BY <2>2
  <2>4. ~ ParseTraceparent(h)
    BY <2>3, Zenon DEF ParseTraceparent
  <2>5. QED BY <1>1, <1>3, <2>4
<1>4. QED BY <1>2, <1>3

(* What the client means is the first of the traceparents.                 *)
LEMMA SaysFirst ==
  ASSUME pairs \in Seq(Pairs)
  PROVE  /\ Keyed = {} => Says = "Absent"
         /\ Keyed # {} => \E m \in Keyed : /\ \A y \in Keyed : m <= y
                                           /\ Says = IF pairs[m].value = "valid" THEN "OK" ELSE "Invalid"
<1>1. PICK i : i = SelectInSeq(pairs, LAMBDA p : p.key = "key")
  OBVIOUS
<1>2. i = IF Keyed # {} THEN Min(Keyed) ELSE 0
  BY <1>1, Zenon DEF SelectInSeq, Keyed
<1>3. Says = CASE i = 0                              -> "Absent"
               [] i # 0 /\ pairs[i].value = "valid" -> "OK"
               [] i # 0 /\ pairs[i].value # "valid" -> "Invalid"
  BY <1>1, Zenon DEF Says
<1>4. CASE Keyed = {}
  BY <1>2, <1>3, <1>4
<1>5. CASE Keyed # {}
  <2>1. Keyed \in SUBSET Nat /\ \A y \in Keyed : y # 0
    BY DEF Keyed
  <2>2. PICK m \in Keyed : \A y \in Keyed : m <= y
    BY <1>5, <2>1, LeastExists
  <2>3. Min(Keyed) = m
    BY <2>1, <2>2, MinIs
  <2>4. i = m /\ i # 0
    BY <1>2, <1>5, <2>1, <2>3
  <2>5. Says = IF pairs[m].value = "valid" THEN "OK" ELSE "Invalid"
    BY <1>3, <2>4
  <2>6. QED BY <1>5, <2>2, <2>5
<1>6. QED BY <1>4, <1>5

(* What the code makes of the traceparents. *)
LEMMA ReadingIs ==
  ASSUME CommentInv
  PROVE  ParseSQLComment(Query) =
           IF Traceparents(Body) = {} THEN Outcome("Absent")
           ELSE IF Contains(Value(First.text), "escape") \/ ~ ParseTraceparent(Header(Value(First.text)))
                THEN Outcome("Invalid")
                ELSE [status |-> "OK", context |-> Parsed(Header(Value(First.text)))]
<1>1. PICK q, L : q = Sent /\ L = Len(statement \o blank)
  OBVIOUS
<1>2. TrimRight(Query) = q
  BY <1>1, QueryTrimmed, Zenon
<1>3. Sealed(q, L, Body)
  BY <1>1, SentSealed
<1>4. /\ EndsInComment(q) /\ CommentStart(q) = L + 1 /\ CommentStart(q) + 2 <= Len(q) - 1
      /\ SubSeq(q, CommentStart(q) + 2, Len(q) - 2) = Body
  BY <1>3, CommentFound
<1>5. ~ (CommentStart(q) + 2 > Len(q) - 1)
  BY <1>3, <1>4 DEF Sealed
<1>6. PICK tp : tp = Traceparents(SubSeq(q, CommentStart(q) + 2, Len(q) - 2))
  OBVIOUS
<1>7. tp = Traceparents(Body)
  BY <1>4, <1>6, Zenon
<1>8. PICK value : value = Value((CHOOSE p \in tp : \A o \in tp : p.from <= o.from).text)
  OBVIOUS
<1>9. value = Value(First.text)
  BY <1>7, <1>8, Zenon DEF First
<1>10. ParseSQLComment(Query) =
         IF tp = {} THEN Outcome("Absent")
         ELSE IF Contains(value, "escape") \/ ~ ParseTraceparent(Header(value))
              THEN Outcome("Invalid")
              ELSE [status |-> "OK", context |-> Parsed(Header(value))]
  BY <1>2, <1>4, <1>5, <1>6, <1>8, Zenon DEF ParseSQLComment
<1>11. QED BY <1>7, <1>9, <1>10, Zenon

(* The property, in every state in which the layout is known. *)
LEMMA CommentRead == CommentInv => CommentIsRead
<1> SUFFICES ASSUME CommentInv PROVE CommentIsRead
  OBVIOUS
<1>1. PICK r, tp, value : /\ r = ParseSQLComment(Query) /\ tp = Traceparents(Body)
                          /\ value = Value(First.text)
  OBVIOUS
<1>2. r = IF tp = {} THEN Outcome("Absent")
          ELSE IF Contains(value, "escape") \/ ~ ParseTraceparent(Header(value))
               THEN Outcome("Invalid")
               ELSE [status |-> "OK", context |-> Parsed(Header(value))]
  BY <1>1, ReadingIs, Zenon
<1>3. \A s : Outcome(s).status = s
  BY DEF Outcome
<1>4. pairs \in Seq(Pairs)
  BY DEF CommentInv
<1>5. CASE Keyed = {}
  <2>1. tp = {} /\ Says = "Absent"
    BY <1>1, <1>4, <1>5, FirstTraceparent, SaysFirst, Zenon
  <2>2. r.status = "Absent"
    BY <1>2, <1>3, <2>1, Zenon
  <2>3. r.status = Says /\ r.status # "OK"
    BY <2>1, <2>2
  <2>4. QED BY <1>1, <2>3, Zenon DEF CommentIsRead
<1>6. CASE Keyed # {}
  <2>1. PICK m \in Keyed : /\ \A y \in Keyed : m <= y
                           /\ Says = IF pairs[m].value = "valid" THEN "OK" ELSE "Invalid"
    BY <1>4, <1>6, SaysFirst
  <2>2. PICK v : v = pairs[m].value
    OBVIOUS
  <2>3. tp # {} /\ value = <<v>>
    BY <1>1, <1>6, <2>1, <2>2, FirstTraceparent, Zenon
  <2>4. ParseTraceparent(Header(value)) <=> v = "valid"
    BY <2>3, HeaderRead, Zenon
  <2>5. Contains(value, "escape") <=> v = "escape"
    <3>1. Len(value) = 1 /\ value[1] = v
      BY <2>3
    <3>2. 1 .. 1 = {1}
      OBVIOUS
    <3>3. QED BY <3>1, <3>2 DEF Contains
  <2>6. CASE v = "valid"
    <3>1. ~ Contains(value, "escape") /\ ParseTraceparent(Header(value))
      BY <2>4, <2>5, <2>6
    <3>2. r = [status |-> "OK", context |-> Parsed(Header(value))]
      BY <1>2, <2>3, <3>1, Zenon
    <3>3. r.status = "OK" /\ r.context = Parsed(Header(value))
      BY <3>2, Zenon
    <3>4. Says = "OK"
      BY <2>1, <2>2, <2>6, Zenon
    <3>5. value = <<"valid">>
      BY <2>3, <2>6
    <3>6. QED BY <1>1, <3>3, <3>4, <3>5, Zenon DEF CommentIsRead
  <2>7. CASE v # "valid"
    <3>1. r = Outcome("Invalid")
      BY <1>2, <2>3, <2>4, <2>7, Zenon
    <3>2. r.status = "Invalid" /\ Says = "Invalid"
      BY <1>3, <2>1, <2>2, <2>7, <3>1, Zenon
    <3>3. r.status = Says /\ r.status # "OK"
      BY <3>2
    <3>4. QED BY <1>1, <3>3, Zenon DEF CommentIsRead
  <2>8. QED BY <2>6, <2>7
<1>7. QED BY <1>5, <1>6

(* The query without its comment is the statement. *)
LEMMA StatementShown == CommentInv => StatementIsShown
<1> SUFFICES ASSUME CommentInv PROVE StatementIsShown
  OBVIOUS
<1>1. PICK q, L : q = Sent /\ L = Len(statement \o blank)
  OBVIOUS
<1>2. TrimRight(Query) = q /\ TrimRight(SubSeq(q, 1, L)) = TrimRight(statement)
  BY <1>1, QueryTrimmed, Zenon
<1>3. Sealed(q, L, Body)
  BY <1>1, SentSealed
<1>4. EndsInComment(q) /\ CommentStart(q) = L + 1 /\ L \in Nat
  BY <1>3, CommentFound DEF Sealed
<1>5. CommentStart(q) - 1 = L
  BY <1>4
<1>6. StripSQLComment(Query) = TrimRight(statement)
  BY <1>2, <1>4, <1>5, Zenon DEF StripSQLComment
<1>7. ParseSQLComment(Query).status = Says
  BY CommentRead, Zenon DEF CommentIsRead
<1>8. QED BY <1>6, <1>7, Zenon DEF StatementIsShown, QueryText

(* In whatever place among its pairs, with or without blanks, and whatever *)
(* the statement before it holds, other comments included, the first       *)
(* traceparent of a comment is the one that ParseSQLComment returns, or    *)
(* rejects as malformed; without one the comment is no trace context.  The *)
(* code never reads beyond the comment (the outcome "panic").              *)
THEOREM CommentAlwaysRead == CommentSpec => []CommentIsRead
BY CommentInvHolds, CommentRead, PTL

(* The span shows the statement and nothing of the trace context; a query  *)
(* whose comment is no trace context is shown as it was sent.              *)
THEOREM StatementAlwaysShown == CommentSpec => []StatementIsShown
BY CommentInvHolds, StatementShown, PTL

=============================================================================
