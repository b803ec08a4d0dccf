------------------------ MODULE MCWorkflowIntelligence ------------------------
(***************************************************************************)
(* Three nodes on the subgraphs of a cycle and an edge from a node that    *)
(* does not exist: one is an approval, one fails.                          *)
(***************************************************************************)
EXTENDS WorkflowIntelligence

CONSTANTS n1, n2, n3, ghost

SomeEdges == {<<n2, n1>>, <<n3, n2>>, <<n3, n1>>, <<n1, n3>>, <<n1, ghost>>}

SomeClients == {{"overlap"}, {"overlap", "patch"}, {"decide", "rewrite"},
                {"decide", "rewrite", "patch"}, {"force", "merge"}}

Def(N, E) == [nodes |-> N, edges |-> E]

\* A definition with several edges leads where definitions of the same nodes with
\* one edge each lead.
AnyDefinition == {Def(N, E) : N \in SUBSET Node, E \in {{}} \cup {{e} : e \in SomeEdges}}

\* A line of nodes, then an edge that makes it a cycle, and one from no node.
SomePatches == {Def(Node, {<<n2, n1>>, <<n3, n2>>}), Def({n1}, {<<n1, n3>>}),
                Def({n3}, {<<n1, ghost>>})}

SomeDefinitions == [k \in SomeClients |->
  IF "patch" \in k THEN SomePatches ELSE AnyDefinition]
=============================================================================
