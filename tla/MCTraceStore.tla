---------------------------- MODULE MCTraceStore ----------------------------
(***************************************************************************)
(* Small instances of TraceStore for TLC.                                  *)
(***************************************************************************)
EXTENDS TraceStore, TLC

(* Trace IDs are interchangeable, and so are subscribers. *)
Symmetry == Permutations(TraceIDs) \cup Permutations(Subscribers)

TwoTimes   == {1, 2}
Lengths    == {0, 2}

(* What a subscriber is sent does not depend on the intervals of spans nor *)
(* on what the ring evicts, so behaviours with a subscriber keep to spans  *)
(* of one interval, of two traces: four with one subscriber, three with    *)
(* two, which is one more than a channel holds; those without a subscriber *)
(* go on to MaxSpans.                                                      *)
Involved == {s \in Subscribers : s \in subscribers \/ until[s] > 0 \/ Stream(s) # <<>>}

PlainWhenSubscribed ==
  Involved # {} => /\ Len(added) <= 5 - Cardinality(Involved)
                   /\ Cardinality({added[i].trace : i \in DOMAIN added}) <= 2
                   /\ \A i \in DOMAIN added : added[i].start = 1 /\ added[i].dur = 0
=============================================================================
