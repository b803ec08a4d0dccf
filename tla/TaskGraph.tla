------------------------------ MODULE TaskGraph ------------------------------
(***************************************************************************)
(* Dependency graphs of tasks, as the execution layer stores them: an edge *)
(* <<t, d>> says that task t depends on task d.  The modules that run a    *)
(* graph and the module that specifies Kahn's algorithm share these        *)
(* definitions.                                                            *)
(***************************************************************************)
EXTENDS FiniteSets, Integers

\* The tasks that t waits for, and the tasks that wait for t.
Prerequisites(D, t) == {e[2] : e \in {x \in D : x[1] = t}}

Children(D, t) == {e[1] : e \in {x \in D : x[2] = t}}

\* Faulty: edges to unknown tasks are dropped, as if they were satisfied.
HasCycleAmongKnown(T, D) ==
  \E S \in SUBSET T :
    /\ S # {}
    /\ \A t \in S : \E d \in Prerequisites(D, t) : d \in S

(***************************************************************************)
(* What DependencyResolver.hasCycle answers, without its queue: some       *)
(* nonempty set of tasks is such that each of them waits for another of    *)
(* the set, or for something that is not a task of the graph at all.  (An  *)
(* edge to an unknown task raises the in-degree of its source and nothing  *)
(* ever lowers it, so hasCycle reports it like a cycle.)                   *)
(***************************************************************************)
HasCycle(T, D) ==
  \E S \in SUBSET T :
    /\ S # {}
    /\ \A t \in S : \E d \in Prerequisites(D, t) : d \in S \/ d \notin T

(***************************************************************************)
(* What a caller wants to know: whether the tasks can be run one after the *)
(* other, each after everything it waits for.  order[t] is the turn of t.  *)
(***************************************************************************)
Schedulable(T, D) ==
  \E order \in [T -> 1..Cardinality(T)] :
    /\ \A t, u \in T : order[t] = order[u] => t = u
    /\ \A t \in T : \A d \in Prerequisites(D, t) : d \in T /\ order[d] < order[t]

=============================================================================
