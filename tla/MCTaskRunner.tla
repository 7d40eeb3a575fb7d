---------------------------- MODULE MCTaskRunner ----------------------------
(* Small instances of TaskRunner for TLC. *)
EXTENDS TaskRunner

\* A node has 1 server thread, 2 helpers and 3 worker ids; the code has up to 50,
\* 50 and 900.
Entries(max) == [node_id : Node, num_workers : 0 .. max]

AllocsUpTo(max) ==
  {<<e>> : e \in Entries(max)} \cup
  {<<e, f>> : e, f \in Entries(max)}

AnyAllocs == AllocsUpTo(4)

FittingAllocs == {a \in AllocsUpTo(2) : OneEntryPerNode(a)}
=============================================================================
