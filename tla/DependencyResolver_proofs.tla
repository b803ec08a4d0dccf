----------------------- MODULE DependencyResolver_proofs -----------------------
(***************************************************************************)
(* hasCycle is exact for every graph.  The invariant: what the in-degrees  *)
(* count is what has not been visited, the queue and the visited tasks are *)
(* those that nothing unvisited holds back, and a set of tasks that wait   *)
(* for one another is never entered.                                       *)
(***************************************************************************)
EXTENDS DependencyResolver, FiniteSetTheorems, WellFoundedInduction, TLAPS

(***************************************************************************)
(* The two readings of "has a cycle" are the same for every finite graph:  *)
(* tasks that wait for one another are in the way of every order, and      *)
(* when there are none an order that goes as far as it can holds all.      *)
(***************************************************************************)
LEMMA SmallestSubset ==
  ASSUME NEW W, IsFiniteSet(W), NEW C \in SUBSET (SUBSET W), C # {}
  PROVE  \E V \in C : \A U \in C : ~(U \subseteq V /\ U # V)
<1>1. IsWellFoundedOn(StrictSubsetOrdering(W), SUBSET W)
  BY FS_StrictSubsetOrderingWellFounded, FS_FiniteSubsetsOfFinite
<1>2. PICK V \in C : \A U \in C : <<U, V>> \notin StrictSubsetOrdering(W)
  BY <1>1, WFMin
<1>3. ASSUME NEW U \in C, U \subseteq V, U # V PROVE FALSE
  BY <1>2, <1>3 DEF StrictSubsetOrdering
<1> QED
  BY <1>3, Zenon

(* Tasks each of which waits for another of them have no first one.         *)
LEMMA OrderedMeansAcyclic ==
  ASSUME NEW T, IsFiniteSet(T), NEW D, Schedulable(T, D)
  PROVE  ~HasCycle(T, D)
<1> SUFFICES ASSUME NEW S \in SUBSET T, S # {},
                    \A t \in S : \E d \in Prerequisites(D, t) : d \in S \/ d \notin T
             PROVE  FALSE
  BY DEF HasCycle
<1>1. PICK order \in [T -> 1..Cardinality(T)] :
        \A t \in T : \A d \in Prerequisites(D, t) : d \in T /\ order[d] < order[t]
  BY DEF Schedulable
<1>2. \A t \in S : order[t] \in Int
  BY <1>1, FS_CardinalityType
<1> DEFINE UpTo(t) == {u \in S : order[u] <= order[t]}
           C == {UpTo(t) : t \in S}
<1>3. PICK V \in C : \A U \in C : ~(U \subseteq V /\ U # V)
  <2>1. IsFiniteSet(S)
    BY FS_Subset
  <2>2. PICK t0 \in S : TRUE
    OBVIOUS
  <2>3. UpTo(t0) \in C
    OBVIOUS
  <2>4. C \in SUBSET (SUBSET S) /\ C # {}
    BY <2>3
  <2> HIDE DEF C
  <2> QED
    BY <2>1, <2>4, SmallestSubset
<1>4. PICK t \in S : V = UpTo(t)
  OBVIOUS
<1>5. PICK d \in S : order[d] < order[t]
  BY <1>1
<1>6. UpTo(d) \subseteq V /\ t \in V /\ t \notin UpTo(d)
  BY <1>2, <1>4, <1>5
<1> QED
  BY <1>3, <1>6

(* An order of some tasks goes on with any task that waits for these only.  *)
LEMMA OrderExtends ==
  ASSUME NEW P, IsFiniteSet(P), NEW D, Schedulable(P, D),
         NEW t, t \notin P, Prerequisites(D, t) \subseteq P
  PROVE  Schedulable(P \cup {t}, D)
<1> DEFINE n == Cardinality(P)
           Q == P \cup {t}
<1>1. PICK order \in [P -> 1..n] :
        /\ \A u, v \in P : order[u] = order[v] => u = v
        /\ \A u \in P : \A d \in Prerequisites(D, u) : d \in P /\ order[d] < order[u]
  BY DEF Schedulable
<1>2. n \in Nat /\ Cardinality(Q) = n + 1
  BY FS_CardinalityType, FS_AddElement
<1> HIDE DEF n
<1> DEFINE longer == [u \in Q |-> IF u = t THEN n + 1 ELSE order[u]]
<1>3. /\ longer[t] = n + 1
      /\ \A u \in P : longer[u] = order[u] /\ order[u] \in 1..n
  OBVIOUS
<1>4. longer \in [Q -> 1..(n + 1)]
  BY <1>2, <1>3
<1> HIDE DEF longer
<1>5. \A u, v \in Q : longer[u] = longer[v] => u = v
  BY <1>1, <1>2, <1>3
<1>6. \A u \in Q : \A d \in Prerequisites(D, u) : d \in Q /\ longer[d] < longer[u]
  BY <1>1, <1>2, <1>3
<1> QED
  BY <1>2, <1>4, <1>5, <1>6 DEF Schedulable

(* The tasks outside an order that cannot be continued wait for each other. *)
LEMMA AcyclicMeansOrdered ==
  ASSUME NEW T, IsFiniteSet(T), NEW D, ~HasCycle(T, D)
  PROVE  Schedulable(T, D)
<1> DEFINE C == {R \in SUBSET T : Schedulable(T \ R, D)}
<1>1. Schedulable({}, D)
  <2>1. [u \in {} |-> 1] \in [{} -> 1..Cardinality({})]
    OBVIOUS
  <2> QED
    BY <2>1 DEF Schedulable
<1>2. PICK R \in C : \A U \in C : ~(U \subseteq R /\ U # R)
  <2>1. T \ T = {}
    OBVIOUS
  <2>2. C \in SUBSET (SUBSET T) /\ C # {}
    BY <1>1, <2>1
  <2> HIDE DEF C
  <2> QED
    BY <2>2, SmallestSubset
<1>3. R \subseteq T /\ Schedulable(T \ R, D)
  OBVIOUS
<1>4. CASE R = {}
  <2>1. T \ R = T
    BY <1>4
  <2> QED
    BY <1>3, <2>1
<1>5. CASE R # {}
  <2>1. PICK t \in R : \A d \in Prerequisites(D, t) : d \notin R /\ d \in T
    BY <1>3, <1>5 DEF HasCycle
  <2>2. IsFiniteSet(T \ R) /\ t \notin T \ R /\ Prerequisites(D, t) \subseteq T \ R
    BY <2>1, FS_Subset
  <2>3. Schedulable((T \ R) \cup {t}, D)
    BY <1>3, <2>2, OrderExtends
  <2>4. (T \ R) \cup {t} = T \ (R \ {t})
    BY <1>3
  <2>5. R \ {t} \in C
    BY <1>3, <2>3, <2>4
  <2> QED
    BY <1>2, <2>5
<1> QED
  BY <1>4, <1>5


InDegreesCountUnvisited ==
  inDegree = [t \in tasks |-> Cardinality(Prerequisites(edges, t) \ visited)]

\* A task is queued when everything it depends on has been visited, and counted once.
VisitsInOrder ==
  /\ visitedCount = Cardinality(visited)
  /\ queue \cup visited = {t \in tasks : Prerequisites(edges, t) \subseteq visited}

\* A set of tasks each of which waits for another of them, or for no task.
Knot(S) ==
  /\ S \subseteq tasks
  /\ \A t \in S : \E d \in Prerequisites(edges, t) : d \in S \/ d \notin tasks

KnotsUntouched == \A S \in SUBSET tasks : Knot(S) => S \cap visited = {}

IInv ==
  /\ TypeOK
  /\ queue \cap visited = {}
  /\ InDegreesCountUnvisited
  /\ VisitsInOrder
  /\ KnotsUntouched

\* Only finitely many tasks precede a task.
LEMMA PrerequisitesFinite ==
  ASSUME NEW D \in SUBSET (Node \X Node), NEW t
  PROVE  /\ Prerequisites(D, t) \subseteq Node
         /\ IsFiniteSet(Prerequisites(D, t))
<1>1. Prerequisites(D, t) \subseteq Node
  BY DEF Prerequisites
<1> QED
  BY <1>1, NodeAssumption, FS_Subset

\* u is a prerequisite of its children, and of nothing else.
LEMMA ChildrenWait ==
  ASSUME NEW D \in SUBSET (Node \X Node), NEW u, NEW v
  PROVE  v \in Children(D, u) <=> u \in Prerequisites(D, v)
BY DEF Children, Prerequisites

LEMMA InitIInv == Init => IInv
<1> SUFFICES ASSUME Init PROVE IInv
  OBVIOUS
<1>1. tasks \subseteq Node /\ edges \in SUBSET (Node \X Node)
  BY DEF Init
<1>2. \A t \in tasks : /\ IsFiniteSet(Prerequisites(edges, t))
                       /\ Cardinality(Prerequisites(edges, t)) \in Nat
  BY <1>1, PrerequisitesFinite, FS_CardinalityType
<1>3. \A t \in tasks :
         Cardinality(Prerequisites(edges, t)) = 0 <=> Prerequisites(edges, t) = {}
  BY <1>2, FS_EmptySet
<1>4. TypeOK
  BY <1>1, <1>2 DEF Init, TypeOK
<1>5. InDegreesCountUnvisited
  <2>1. \A t : Prerequisites(edges, t) \ visited = Prerequisites(edges, t)
    BY DEF Init
  <2> QED
    BY <2>1 DEF Init, InDegreesCountUnvisited
<1>6. VisitsInOrder
  BY <1>3, FS_EmptySet DEF Init, VisitsInOrder
<1> QED
  BY <1>4, <1>5, <1>6 DEF Init, IInv, KnotsUntouched

LEMMA VisitIInv ==
  ASSUME IInv, NEW u \in Node, Visit(u)
  PROVE  IInv'
<1>1. /\ tasks \subseteq Node
      /\ edges \in SUBSET (Node \X Node)
      /\ inDegree \in [tasks -> Int]
      /\ queue \subseteq tasks /\ visited \subseteq tasks
      /\ visitedCount \in Nat
      /\ u \in tasks /\ u \in queue /\ u \notin visited
      /\ tasks' = tasks /\ edges' = edges /\ visited' = visited \cup {u}
  BY DEF IInv, TypeOK, Visit
<1>2. IsFiniteSet(tasks) /\ IsFiniteSet(visited)
  BY <1>1, NodeAssumption, FS_Subset
<1>3. Prerequisites(edges, u) \subseteq visited
  BY <1>1 DEF IInv, VisitsInOrder
<1>4. ASSUME NEW v \in tasks
      PROVE  /\ inDegree'[v] = Cardinality(Prerequisites(edges, v) \ visited')
             /\ inDegree'[v] \in Int
             /\ v \in Children(edges, u) =>
                  (inDegree[v] - 1 = 0 <=> Prerequisites(edges, v) \subseteq visited')
  <2> DEFINE Left == Prerequisites(edges, v) \ visited
  <2>1. IsFiniteSet(Left) /\ Cardinality(Left) \in Nat
    BY <1>1, PrerequisitesFinite, FS_Subset, FS_CardinalityType
  <2>2. inDegree[v] = Cardinality(Left)
    BY DEF IInv, InDegreesCountUnvisited
  <2>3. inDegree'[v] = IF v \in Children(edges, u) THEN inDegree[v] - 1 ELSE inDegree[v]
    BY DEF Visit
  <2>4. v \in Children(edges, u) <=> u \in Left
    BY <1>1, ChildrenWait
  <2>5. Prerequisites(edges, v) \ visited' = Left \ {u}
    BY <1>1
  <2>6. IsFiniteSet(Left \ {u}) /\ Cardinality(Left \ {u}) \in Nat
    BY <2>1, FS_Subset, FS_CardinalityType
  <2>7. Cardinality(Left \ {u}) = IF u \in Left THEN Cardinality(Left) - 1
                                  ELSE Cardinality(Left)
    BY <2>1, FS_RemoveElement
  <2>8. Cardinality(Left \ {u}) = 0 <=> Left \ {u} = {}
    BY <2>6, FS_EmptySet
  <2>9. Left \ {u} = {} <=> Prerequisites(edges, v) \subseteq visited'
    BY <2>5
  <2> HIDE DEF Left
  <2> QED
    BY <2>1, <2>2, <2>3, <2>4, <2>5, <2>6, <2>7, <2>8, <2>9
<1>5. InDegreesCountUnvisited'
  <2>1. inDegree' = [v \in tasks |-> inDegree'[v]]
    BY DEF Visit
  <2> QED
    BY <1>1, <1>4, <2>1 DEF InDegreesCountUnvisited
<1>6. queue' \cap visited' = {}
  <2>1. ASSUME NEW v \in Freed(u) PROVE v \notin visited'
    <3>1. u \in Prerequisites(edges, v) /\ v \in tasks
      BY <1>1, ChildrenWait DEF Freed
    <3>2. v \notin visited /\ v # u
      BY <1>1, <1>3, <3>1 DEF IInv, VisitsInOrder
    <3> QED
      BY <1>1, <3>2
  <2> QED
    BY <1>1, <2>1 DEF Visit, IInv
<1>7. queue' \cup visited' = {t \in tasks : Prerequisites(edges, t) \subseteq visited'}
  <2>1. ASSUME NEW t \in tasks
        PROVE  t \in queue' \cup visited' <=> Prerequisites(edges, t) \subseteq visited'
    <3>1. t \in queue \cup visited <=> Prerequisites(edges, t) \subseteq visited
      BY DEF IInv, VisitsInOrder
    <3>2. t \in queue' \cup visited' <=> t \in queue \cup visited \/ t \in Freed(u)
      BY <1>1 DEF Visit
    <3>3. t \in Freed(u) <=>
            t \in Children(edges, u) /\ Prerequisites(edges, t) \subseteq visited'
      BY <1>4 DEF Freed
    <3>4. t \in Children(edges, u) <=> u \in Prerequisites(edges, t)
      BY <1>1, ChildrenWait
    <3> QED
      BY <1>1, <3>1, <3>2, <3>3, <3>4
  <2>2. queue' \cup visited' \subseteq tasks
    BY <1>1 DEF Visit, Freed
  <2> QED
    BY <2>1, <2>2
<1>8. visitedCount' = Cardinality(visited') /\ visitedCount' \in Nat
  <2>1. Cardinality(visited \cup {u}) = Cardinality(visited) + 1
    BY <1>1, <1>2, FS_AddElement
  <2>2. visitedCount = Cardinality(visited) /\ visitedCount' = visitedCount + 1
    BY DEF Visit, IInv, VisitsInOrder
  <2> QED
    BY <1>1, <2>1, <2>2
<1>9. KnotsUntouched'
  <2>1. ASSUME NEW S \in SUBSET tasks, Knot(S) PROVE S \cap visited' = {}
    <3>1. S \cap visited = {}
      BY <2>1 DEF IInv, KnotsUntouched
    <3>2. ASSUME u \in S PROVE FALSE
      <4>1. PICK d \in Prerequisites(edges, u) : d \in S \/ d \notin tasks
        BY <2>1, <3>2 DEF Knot
      <4>2. d \in visited
        BY <1>3, <4>1
      <4> QED
        BY <1>1, <3>1, <4>1, <4>2
    <3> QED
      BY <1>1, <3>1, <3>2
  <2>2. \A S : Knot(S)' <=> Knot(S)
    BY <1>1 DEF Knot
  <2> QED
    BY <1>1, <2>1, <2>2 DEF KnotsUntouched
<1>10. TypeOK'
  BY <1>1, <1>4, <1>7, <1>8 DEF TypeOK, Visit
<1> QED
  BY <1>1, <1>5, <1>6, <1>7, <1>8, <1>9, <1>10 DEF IInv, VisitsInOrder

LEMMA SpecIInv == Spec => []IInv
<1>1. IInv /\ UNCHANGED vars => IInv'
  BY DEF IInv, TypeOK, InDegreesCountUnvisited, VisitsInOrder, KnotsUntouched,
         Knot, vars
<1>2. IInv /\ [Next]_vars => IInv'
  BY <1>1, VisitIInv DEF Next
<1> QED
  BY InitIInv, <1>2, PTL DEF Spec

LEMMA AnswerExact == IInv => AnswerIsExact
<1> SUFFICES ASSUME IInv, queue = {}
             PROVE  /\ Answer <=> HasCycle(tasks, edges)
                    /\ Answer <=> ~Schedulable(tasks, edges)
  BY DEF AnswerIsExact
<1>1. /\ tasks \subseteq Node /\ visited \subseteq tasks
      /\ visited = {t \in tasks : Prerequisites(edges, t) \subseteq visited}
      /\ visitedCount = Cardinality(visited)
  BY DEF IInv, TypeOK, VisitsInOrder
<1>2. IsFiniteSet(tasks)
  BY <1>1, NodeAssumption, FS_Subset
<1>3. Answer <=> visited # tasks
  BY <1>1, <1>2, FS_Subset DEF Answer
<1>4. HasCycle(tasks, edges) <=> \E S \in SUBSET tasks : S # {} /\ Knot(S)
  BY DEF HasCycle, Knot
<1>5. ASSUME visited # tasks PROVE Knot(tasks \ visited) /\ tasks \ visited # {}
  BY <1>1, <1>5 DEF Knot
<1>6. ASSUME NEW S \in SUBSET tasks, S # {}, Knot(S) PROVE visited # tasks
  BY <1>6 DEF IInv, KnotsUntouched
<1>7. Answer <=> HasCycle(tasks, edges)
  BY <1>3, <1>4, <1>5, <1>6
<1>8. HasCycle(tasks, edges) <=> ~Schedulable(tasks, edges)
  BY <1>2, OrderedMeansAcyclic, AcyclicMeansOrdered
<1> QED
  BY <1>7, <1>8

(* hasCycle's bookkeeping has the right shape for every set of task ids.    *)
THEOREM ResolverTypeCorrect == Spec => []TypeOK
BY SpecIInv, PTL DEF IInv

(* For every graph, hasCycle answers yes exactly if some tasks wait for one *)
(* another, or for an id that is no task, which is what                     *)
(* ExecutionIntelligence takes from it, and exactly if there is no order in *)
(* which to run the tasks one by one.                                       *)
THEOREM HasCycleIsExact == Spec => []AnswerIsExact
BY SpecIInv, AnswerExact, PTL

=============================================================================
