----------------------- MODULE MCExecutionIntelligence -----------------------
(***************************************************************************)
(* Small instances of ExecutionIntelligence.  The tasks are a, b and c;   *)
(* every subgraph of the edges is explored, since the client adds tasks    *)
(* and edges one by one and may start at any time.                         *)
(***************************************************************************)
EXTENDS ExecutionIntelligence

CONSTANTS a, b, c

\* b and c wait for a, c also for b.
ChainEdges == {<<b, a>>, <<c, b>>, <<c, a>>}

\* A cycle; its subgraphs also have edges to a task that is never added.
CyclicEdges == {<<b, a>>, <<c, b>>, <<a, c>>}

\* Either of two tasks may be made to wait for the other.
BothWays == {<<a, b>>, <<b, a>>}

\* a is the most urgent, the others are equal.
UrgentFirst == [t \in Task |-> IF t = a THEN 2 ELSE 1]
=============================================================================
