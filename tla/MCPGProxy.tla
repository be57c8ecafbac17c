----------------------------- MODULE MCPGProxy -----------------------------
(***************************************************************************)
(* Client programs for PGProxy.                                            *)
(***************************************************************************)
EXTENDS PGProxy, SequencesExt

CONSTANTS s1, q1, q2

Msg(type, stmt, query) == [type |-> type, stmt |-> stmt, query |-> query]
Q(query)       == Msg("Q", NoStmt, query)
P(stmt, query) == Msg("P", stmt, query)
B(stmt)        == Msg("B", stmt, NoQuery)
E              == Msg("E", NoStmt, NoQuery)
S              == Msg("S", NoStmt, NoQuery)
X              == Msg("X", NoStmt, NoQuery)

(* A sequence of cycles as one sequence of messages tagged with their cycle. *)
Tagged(c, msgs) == [i \in DOMAIN msgs |->
  [type |-> msgs[i].type, stmt |-> msgs[i].stmt, query |-> msgs[i].query, cycle |-> c]]
Program(cycles) == FlattenSeq([c \in DOMAIN cycles |-> Tagged(c, cycles[c])])

Prepare      == <<P(s1, q1), S>>
PrepareRun   == <<P(s1, q1), B(s1), E, S>>
RunPrepared  == <<B(s1), E, S>>
RunUnnamed   == <<P(NoStmt, q2), B(NoStmt), E, S>>
Batch        == <<B(s1), E, B(s1), E, S>>
Simple(q)    == <<Q(q)>>

(* Programs of the extended protocol with one statement per cycle. *)
OnePerCycle == {Program(p) : p \in
  {<<PrepareRun, RunPrepared, RunUnnamed>>,
   <<Prepare, RunPrepared, RunPrepared>>,
   <<RunUnnamed, PrepareRun>>}}

(* Batches, simple queries and Terminate. *)
Mixed == {Program(p) : p \in
  {<<Prepare, Batch, RunPrepared>>,
   <<Prepare, Batch, <<X>>>>,
   <<Simple(q1), RunUnnamed, <<X>>>>,
   <<Simple(q1), Simple(q2), Simple(q1)>>,
   <<RunUnnamed, <<B(NoStmt), E, S>>, Simple(q1)>>}}

AllPrograms == OnePerCycle \cup Mixed

(* A batch that overflows a pending channel of one, and a simple query. *)
Stopping == {Program(p) : p \in {<<Prepare, Batch, <<X>>>>, <<Simple(q1), <<X>>>>}}

TwoSimple  == {Program(<<Simple(q1), Simple(q2)>>)}
=============================================================================
