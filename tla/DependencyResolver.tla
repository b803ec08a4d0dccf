-------------------------- MODULE DependencyResolver --------------------------
(***************************************************************************)
(* DependencyResolver.hasCycle, Kahn's algorithm as the code runs it: one  *)
(* step is one iteration of its while loop.  The graph is any graph; edges *)
(* may name tasks that are not in the list, as the dependency rows may.    *)
(* TaskGraph!HasCycle says what it must answer, and ExecutionIntelligence  *)
(* uses that operator in its place.                                        *)
(***************************************************************************)
EXTENDS TaskGraph

CONSTANT Node    \* every task id that a row may mention

ASSUME NodeAssumption == IsFiniteSet(Node)

VARIABLES
  tasks,         \* the task list
  edges,         \* the dependency rows
  inDegree,      \* per task, the edges not yet taken off
  queue,         \* the queued tasks; any order is explored, the code is FIFO
  visitedCount,  \* the code's counter
  visited        \* the tasks shifted from the queue (the code only counts them)

vars == <<tasks, edges, inDegree, queue, visitedCount, visited>>

TypeOK ==
  /\ tasks \subseteq Node
  /\ edges \subseteq Node \X Node
  /\ inDegree \in [tasks -> Int]
  /\ queue \subseteq tasks
  /\ visitedCount \in Nat
  /\ visited \subseteq tasks

Init ==
  /\ tasks \in SUBSET Node
  /\ edges \in SUBSET (Node \X Node)
  /\ inDegree = [t \in tasks |-> Cardinality(Prerequisites(edges, t))]
  /\ queue = {t \in tasks : inDegree[t] = 0}
  /\ visitedCount = 0
  /\ visited = {}

\* Faulty: "nothing left" is tested by falsity, which an unknown id passes too.
FreedOrUnknown(u) ==
  {v \in Children(edges, u) : v \in tasks => inDegree[v] - 1 = 0}

\* The children whose last edge goes when u is visited.
Freed(u) == {v \in Children(edges, u) \cap tasks : inDegree[v] - 1 = 0}

Visit(u) ==
  /\ u \in queue
  /\ visitedCount' = visitedCount + 1
  /\ visited' = visited \cup {u}
  /\ inDegree' = [v \in tasks |-> IF v \in Children(edges, u)
                                  THEN inDegree[v] - 1 ELSE inDegree[v]]
  /\ queue' = (queue \ {u}) \cup Freed(u)
  /\ UNCHANGED <<tasks, edges>>

Next == \E u \in Node : Visit(u)

Spec == Init /\ [][Next]_vars

\* Faulty: only a graph with nothing to begin with is reported.
AnswerIfNoneVisited == visitedCount = 0 /\ tasks # {}

\* What hasCycle returns when the loop is over.
Answer == visitedCount # Cardinality(tasks)

-----------------------------------------------------------------------------
(* hasCycle is exact, whatever the order of the rows: it answers yes for    *)
(* the graphs in which some tasks can never be freed, and for no others,    *)
(* and these are the graphs whose tasks cannot be put in an order to run.   *)
AnswerIsExact ==
  queue = {} =>
    /\ Answer <=> HasCycle(tasks, edges)
    /\ Answer <=> ~Schedulable(tasks, edges)

=============================================================================
