----------------------------- MODULE Correlator -----------------------------
(***************************************************************************)
(* The SQL correlator of internal/proxy/sql/correlator.go: a stack of the  *)
(* contexts of the HTTP and gRPC requests under way, each with the time it *)
(* was pushed.  Every operation holds the correlator's mutex throughout.   *)
(* A context is a (trace ID, span ID) pair; the span ID is generated for   *)
(* each request, so contexts of different requests differ.                 *)
(***************************************************************************)
EXTENDS Integers, Sequences, FiniteSets, SequencesExt

CONSTANTS
  TTL,       \* how long an entry counts as active (5s in the code)
  NoContext  \* result of Correlate when it makes up a new trace

ASSUME TTLAssumption == TTL \in Nat \ {0}

VARIABLES
  now,      \* the clock
  entries   \* the stack, oldest entry first

(* The Mut_ operators of this module are deliberately wrong variants of the *)
(* definitions that follow them.  No definition uses them: each shows that *)
(* some property would notice the bug.                                     *)

(* The entry is pushed with the time at which it expires. *)
Mut_SetActive(context) ==
  entries' = Append(entries, [context |-> context, seen |-> now + TTL])

(* The entry is pushed with the current time and never refreshed. *)
SetActive(context) ==
  entries' = Append(entries, [context |-> context, seen |-> now])

(* The latest entry is taken out, whoever pushed it. *)
Mut_ClearActive(context) ==
  entries' = IF \E i \in DOMAIN entries : entries[i].context = context
             THEN SubSeq(entries, 1, Len(entries) - 1)
             ELSE entries

(* The latest entry with this context is taken out, wherever it is. *)
ClearActive(context) ==
  LET matching == {i \in DOMAIN entries : entries[i].context = context}
  IN  entries' = IF matching = {} THEN entries ELSE RemoveAt(entries, Max(matching))

(* Entries never expire. *)
Mut_Correlate ==
  IF entries = <<>> THEN NoContext ELSE entries[Len(entries)].context

(* The context of the latest entry that has not expired. *)
Correlate ==
  LET live == {i \in DOMAIN entries : now - entries[i].seen < TTL}
  IN  IF live = {} THEN NoContext ELSE entries[Max(live)].context
=============================================================================
