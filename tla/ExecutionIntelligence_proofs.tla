-------------------- MODULE ExecutionIntelligence_proofs --------------------
(***************************************************************************)
(* Theorems about ExecutionIntelligence, for every set of tasks, every     *)
(* graph, every limit and every client.  The first part shows that each    *)
(* pure step on a scheduler preserves SchedulerOK; the second lifts it to  *)
(* the specification.                                                      *)
(***************************************************************************)
EXTENDS ExecutionIntelligence, FiniteSetTheorems, SequenceTheorems, WellFoundedInduction,
        TLAPS

\* What a scheduler's bookkeeping means, as a function of its snapshot and
\* of the tasks in flight.
SchedulerOK(s) ==
  /\ s \in Scheduler
  /\ s.completed = {t \in Task : s.snap[t] = "completed"}
  /\ s.failed = {t \in Task : s.snap[t] = "failed"}
  /\ \A t \in Task : s.inDegree[t] = Cardinality(Prerequisites(s.edges, t) \ s.completed)
  /\ s.runnable = {t \in Task : s.snap[t] = "waiting" /\ s.inDegree[t] = 0}
  /\ \A t \in s.running : s.snap[t] = "running" /\ PrerequisitesMet(s, t)
  /\ Cardinality(s.running) <= ConcurrencyLimit
  /\ ~HasCycle(Loaded(s), s.edges)

-----------------------------------------------------------------------------
(* Prerequisites are tasks, so the sets that in-degrees count are finite.   *)
LEMMA PrerequisitesFinite ==
  ASSUME NEW D \in SUBSET Edge, NEW t \in Task, NEW C \in SUBSET Task
  PROVE  /\ Prerequisites(D, t) \subseteq Task
         /\ IsFiniteSet(Prerequisites(D, t) \ C)
         /\ Cardinality(Prerequisites(D, t) \ C) \in Nat
         /\ Cardinality(Prerequisites(D, t) \ C) = 0 <=> Prerequisites(D, t) \subseteq C
<1>1. Prerequisites(D, t) \subseteq Task
  BY EdgeAssumption DEF Prerequisites
<1>2. IsFiniteSet(Prerequisites(D, t) \ C)
  <2>1. Prerequisites(D, t) \ C \in SUBSET Task
    BY <1>1
  <2>2. QED
    BY <2>1, TaskAssumption, FS_Subset
<1>3. Cardinality(Prerequisites(D, t) \ C) \in Nat
  BY <1>2, FS_CardinalityType
<1>4. Cardinality(Prerequisites(D, t) \ C) = 0 <=> Prerequisites(D, t) \ C = {}
  BY <1>2, FS_EmptySet
<1>5. QED
  BY <1>1, <1>2, <1>3, <1>4

(* The queue of a scheduler that has none of its tasks in the queue wrongly *)
(* becomes exact when it is refreshed.                                      *)
LEMMA RefreshMakesExact ==
  ASSUME NEW s \in Scheduler,
         s.runnable \subseteq {t \in Task : s.snap[t] = "waiting" /\ s.inDegree[t] = 0},
         \A t \in s.running : s.snap[t] = "running"
  PROVE  UpdateRunnableQueue(s) =
           [s EXCEPT !.runnable = {t \in Task : s.snap[t] = "waiting" /\ s.inDegree[t] = 0}]
<1>1. {t \in Task : s.snap[t] = "waiting" /\ s.inDegree[t] = 0 /\ t \notin s.running}
        = {t \in Task : s.snap[t] = "waiting" /\ s.inDegree[t] = 0}
  OBVIOUS
<1>2. s.runnable \cup {t \in Task : s.snap[t] = "waiting" /\ s.inDegree[t] = 0 /\ t \notin s.running}
        = {t \in Task : s.snap[t] = "waiting" /\ s.inDegree[t] = 0}
  BY <1>1
<1>3. QED
  BY <1>2 DEF UpdateRunnableQueue

(* An idle slot is in order.                                               *)
LEMMA NoRunOK == SchedulerOK(NoRun)
<1>1. NoRun \in Scheduler
  BY DEF NoRun, Scheduler, RowStatus, TaskStatus
<1>2. Prerequisites({}, 0) = {} /\ \A t \in Task : Prerequisites({}, t) = {}
  BY DEF Prerequisites
<1>3. Loaded(NoRun) = {}
  BY DEF Loaded, NoRun
<1>4. ~HasCycle({}, {})
  BY DEF HasCycle
<1>5. QED
  BY <1>1, <1>2, <1>3, <1>4, FS_EmptySet, LimitAssumption
     DEF SchedulerOK, NoRun, PrerequisitesMet

(* The set-up of run() puts the scheduler in order.                        *)
LEMMA NewSchedulerOK ==
  ASSUME NEW rows \in [Task -> RowStatus], NEW D \in SUBSET Edge,
         ~HasCycle({t \in Task : rows[t] # "absent"}, D)
  PROVE  /\ SchedulerOK(NewScheduler(rows, D))
         /\ NewScheduler(rows, D).loop = "polling"
         /\ NewScheduler(rows, D).snap = rows
         /\ NewScheduler(rows, D).edges = D
         /\ NewScheduler(rows, D).running = {}
<1> DEFINE done == {t \in Task : rows[t] = "completed"}
           deg  == [t \in Task |-> Cardinality(Prerequisites(D, t) \ done)]
           raw  == [loop |-> "polling", snap |-> rows, edges |-> D, inDegree |-> deg,
                    runnable |-> {}, completed |-> done,
                    failed |-> {t \in Task : rows[t] = "failed"}, running |-> {}]
           new  == [raw EXCEPT !.runnable =
                      {t \in Task : raw.snap[t] = "waiting" /\ raw.inDegree[t] = 0}]
<1>1. deg \in [Task -> Int]
  <2>1. ASSUME NEW t \in Task
        PROVE  Cardinality(Prerequisites(D, t) \ done) \in Int
    <3>1. Cardinality(Prerequisites(D, t) \ done) \in Nat
      BY PrerequisitesFinite
    <3>2. QED
      BY <3>1
  <2>2. QED
    BY <2>1
<1>2. raw \in Scheduler
  BY <1>1 DEF Scheduler
<1>3. NewScheduler(rows, D) = new
  <2>1. NewScheduler(rows, D) = UpdateRunnableQueue(raw)
    BY DEF NewScheduler
  <2>2. QED
    BY <1>2, <2>1, RefreshMakesExact
<1>4. new \in Scheduler
  BY <1>2 DEF Scheduler
<1>5. Loaded(new) = {t \in Task : rows[t] # "absent"}
  BY DEF Loaded
<1>6. Cardinality({}) = 0
  BY FS_EmptySet
<1>7. SchedulerOK(new)
  <2>1. /\ new.snap = rows
        /\ new.edges = D
        /\ new.completed = done
        /\ new.failed = {t \in Task : rows[t] = "failed"}
        /\ new.inDegree = deg
        /\ new.running = {}
        /\ new.runnable = {t \in Task : rows[t] = "waiting" /\ deg[t] = 0}
    OBVIOUS
  <2>2. ~HasCycle(Loaded(new), new.edges)
    BY <1>5, <2>1
  <2>3. Cardinality(new.running) <= ConcurrencyLimit
    BY <1>6, <2>1, LimitAssumption
  <2> HIDE DEF new
  <2>4. QED
    BY <1>4, <2>1, <2>2, <2>3 DEF SchedulerOK
<1>8. QED
  BY <1>3, <1>7

(* Launching a launchable set keeps the scheduler in order.                *)
LEMMA LaunchOK ==
  ASSUME NEW s, SchedulerOK(s), NEW L \in Launchable(s)
  PROVE  /\ SchedulerOK(Launch(s, L))
         /\ Launch(s, L).loop = s.loop
         /\ Launch(s, L).edges = s.edges
         /\ Launch(s, L).completed = s.completed
         /\ Launch(s, L).running = s.running \cup (L \ FailFast)
         /\ Launch(s, L).snap = LaunchRows(s.snap, L)
<1> DEFINE thrown  == L \cap FailFast
           started == [s EXCEPT
             !.snap     = [t \in Task |-> IF t \in thrown THEN "failed"
                                          ELSE IF t \in L THEN "running" ELSE s.snap[t]],
             !.runnable = s.runnable \ L,
             !.failed   = s.failed \cup thrown,
             !.running  = s.running \cup (L \ thrown)]
<1>1. s \in Scheduler /\ L \subseteq s.runnable /\ L \subseteq Task
  BY DEF SchedulerOK, Launchable, Scheduler
<1>2. \A t \in L : s.snap[t] = "waiting" /\ s.inDegree[t] = 0 /\ PrerequisitesMet(s, t)
  <2>1. ASSUME NEW t \in L
        PROVE  s.snap[t] = "waiting" /\ s.inDegree[t] = 0 /\ PrerequisitesMet(s, t)
    <3>1. t \in Task /\ s.snap[t] = "waiting" /\ s.inDegree[t] = 0
      BY <1>1 DEF SchedulerOK
    <3>2. s.edges \in SUBSET Edge /\ s.completed \in SUBSET Task
      BY <1>1 DEF Scheduler
    <3>3. s.inDegree[t] = Cardinality(Prerequisites(s.edges, t) \ s.completed)
      BY <3>1 DEF SchedulerOK
    <3>4. QED
      BY <3>1, <3>2, <3>3, PrerequisitesFinite DEF PrerequisitesMet
  <2>2. QED
    BY <2>1
<1>3. started \in Scheduler
  BY <1>1 DEF Scheduler, RowStatus, TaskStatus
<1>4. /\ started.loop = s.loop
      /\ started.edges = s.edges
      /\ started.inDegree = s.inDegree
      /\ started.completed = s.completed
      /\ started.failed = s.failed \cup thrown
      /\ started.running = s.running \cup (L \ thrown)
      /\ started.runnable = s.runnable \ L
      /\ started.snap = [t \in Task |-> IF t \in thrown THEN "failed"
                                        ELSE IF t \in L THEN "running" ELSE s.snap[t]]
  BY <1>1 DEF Scheduler
<1> HIDE DEF started
<1>5. started.runnable = {t \in Task : started.snap[t] = "waiting" /\ started.inDegree[t] = 0}
  BY <1>1, <1>2, <1>4 DEF SchedulerOK
<1>6. \A t \in started.running : started.snap[t] = "running" /\ PrerequisitesMet(started, t)
  <2>1. ASSUME NEW t \in s.running
        PROVE  started.snap[t] = "running" /\ PrerequisitesMet(started, t)
    <3>1. t \in Task /\ s.snap[t] = "running" /\ PrerequisitesMet(s, t)
      BY <1>1 DEF SchedulerOK, Scheduler
    <3>2. t \notin L
      BY <1>2, <3>1
    <3>3. QED
      BY <1>4, <3>1, <3>2 DEF PrerequisitesMet
  <2>2. ASSUME NEW t \in L \ thrown
        PROVE  started.snap[t] = "running" /\ PrerequisitesMet(started, t)
    <3>1. t \in Task /\ PrerequisitesMet(s, t)
      BY <1>1, <1>2
    <3>2. QED
      BY <1>4, <3>1 DEF PrerequisitesMet
  <2>3. QED
    BY <1>4, <2>1, <2>2
<1>7. Launch(s, L) = started
  <2>1. CASE thrown = {}
    BY <2>1 DEF Launch, started
  <2>2. CASE thrown # {}
    <3>1. Launch(s, L) = UpdateRunnableQueue(started)
      BY <2>2 DEF Launch, started
    <3>2. UpdateRunnableQueue(started) =
            [started EXCEPT !.runnable =
               {t \in Task : started.snap[t] = "waiting" /\ started.inDegree[t] = 0}]
      BY <1>3, <1>5, <1>6, RefreshMakesExact
    <3>3. [started EXCEPT !.runnable = started.runnable] = started
      BY <1>3 DEF Scheduler
    <3>4. QED
      BY <3>1, <3>2, <3>3, <1>5
  <2>3. QED
    BY <2>1, <2>2
<1>8. Cardinality(started.running) <= ConcurrencyLimit
  <2>1. /\ IsFiniteSet(s.running) /\ Cardinality(s.running) \in Nat
        /\ IsFiniteSet(L) /\ Cardinality(L) \in Nat
    <3>1. s.running \in SUBSET Task /\ L \in SUBSET Task
      BY <1>1 DEF Scheduler
    <3>2. QED
      BY <3>1, TaskAssumption, FS_Subset, FS_CardinalityType
  <2>2. IsFiniteSet(L \ thrown) /\ Cardinality(L \ thrown) <= Cardinality(L)
    <3>1. L \ thrown \in SUBSET L
      OBVIOUS
    <3>2. QED
      BY <3>1, <2>1, FS_Subset
  <2>3. /\ Cardinality(s.running \cup (L \ thrown))
             = Cardinality(s.running) + Cardinality(L \ thrown)
                 - Cardinality(s.running \cap (L \ thrown))
        /\ Cardinality(s.running \cap (L \ thrown)) \in Nat
        /\ Cardinality(L \ thrown) \in Nat
    <3>1. s.running \cap (L \ thrown) \in SUBSET L
      OBVIOUS
    <3>2. Cardinality(s.running \cap (L \ thrown)) \in Nat
      BY <3>1, <2>1, FS_Subset, FS_CardinalityType
    <3>3. QED
      BY <3>2, <2>1, <2>2, FS_Union, FS_CardinalityType
  <2>4. Cardinality(s.running) + Cardinality(L) <= ConcurrencyLimit
    BY <2>1, LimitAssumption DEF Launchable
  <2>5. QED
    BY <1>4, <2>1, <2>2, <2>3, <2>4, LimitAssumption
<1>9. ~HasCycle(Loaded(started), started.edges)
  <2>1. Loaded(started) = Loaded(s)
    BY <1>1, <1>2, <1>4 DEF Loaded
  <2>2. QED
    BY <2>1, <1>4 DEF SchedulerOK
<1>10. started.completed = {t \in Task : started.snap[t] = "completed"}
  BY <1>1, <1>2, <1>4 DEF SchedulerOK
<1>11. started.failed = {t \in Task : started.snap[t] = "failed"}
  BY <1>1, <1>2, <1>4 DEF SchedulerOK
<1>12. \A t \in Task : started.inDegree[t]
          = Cardinality(Prerequisites(started.edges, t) \ started.completed)
  BY <1>4 DEF SchedulerOK
<1>13. SchedulerOK(started)
  BY <1>3, <1>5, <1>6, <1>8, <1>9, <1>10, <1>11, <1>12 DEF SchedulerOK
<1>14. started.snap = LaunchRows(s.snap, L)
  BY <1>4 DEF LaunchRows
<1>15. started.running = s.running \cup (L \ FailFast)
  BY <1>4
<1>16. QED
  BY <1>4, <1>7, <1>13, <1>14, <1>15

(* A completed closure keeps its scheduler in order: its children's in-    *)
(* degrees drop by one exactly when one of their prerequisites is done.    *)
LEMMA CompleteOK ==
  ASSUME NEW s, SchedulerOK(s), NEW t \in s.running
  PROVE  /\ SchedulerOK(Complete(s, t))
         /\ Complete(s, t).loop = s.loop
         /\ Complete(s, t).edges = s.edges
         /\ Complete(s, t).completed = s.completed \cup {t}
         /\ Complete(s, t).running = s.running \ {t}
         /\ Complete(s, t).snap = [s.snap EXCEPT ![t] = "completed"]
<1> DEFINE deg   == [c \in Task |-> IF c \in Children(s.edges, t)
                                    THEN s.inDegree[c] - 1 ELSE s.inDegree[c]]
           ended == [s EXCEPT !.snap[t]   = "completed",
                              !.completed = s.completed \cup {t},
                              !.inDegree  = deg,
                              !.running   = s.running \ {t}]
           new   == [ended EXCEPT !.runnable =
                       {c \in Task : ended.snap[c] = "waiting" /\ ended.inDegree[c] = 0}]
<1>1. s \in Scheduler /\ t \in Task /\ s.snap[t] = "running"
  BY DEF SchedulerOK, Scheduler
<1>2. ended \in Scheduler
  <2>1. deg \in [Task -> Int]
    BY <1>1 DEF Scheduler
  <2>2. [s.snap EXCEPT ![t] = "completed"] \in [Task -> RowStatus]
    BY <1>1 DEF Scheduler, RowStatus, TaskStatus
  <2> HIDE DEF deg
  <2>3. QED
    BY <1>1, <2>1, <2>2 DEF Scheduler
<1>3. /\ ended.loop = s.loop
      /\ ended.edges = s.edges
      /\ ended.inDegree = deg
      /\ ended.completed = s.completed \cup {t}
      /\ ended.failed = s.failed
      /\ ended.running = s.running \ {t}
      /\ ended.runnable = s.runnable
      /\ ended.snap = [s.snap EXCEPT ![t] = "completed"]
  BY <1>1 DEF Scheduler
<1> HIDE DEF ended
<1>4. \A c \in Task : deg[c] = Cardinality(Prerequisites(s.edges, c) \ (s.completed \cup {t}))
  <2> SUFFICES ASSUME NEW c \in Task
               PROVE  deg[c] = Cardinality(Prerequisites(s.edges, c) \ (s.completed \cup {t}))
    OBVIOUS
  <2> DEFINE P == Prerequisites(s.edges, c) \ s.completed
  <2>1. IsFiniteSet(P) /\ Cardinality(P) \in Nat
    <3>1. s.edges \in SUBSET Edge /\ s.completed \in SUBSET Task
      BY <1>1 DEF Scheduler
    <3>2. QED
      BY <3>1, PrerequisitesFinite
  <2>2. s.inDegree[c] = Cardinality(P)
    BY DEF SchedulerOK
  <2>3. t \notin s.completed
    BY <1>1 DEF SchedulerOK
  <2>4. c \in Children(s.edges, t) <=> t \in P
    <3>1. s.edges \subseteq Task \X Task
      BY <1>1, EdgeAssumption DEF Scheduler
    <3>2. QED
      BY <2>3, <3>1 DEF Children, Prerequisites
  <2>5. Prerequisites(s.edges, c) \ (s.completed \cup {t}) = P \ {t}
    OBVIOUS
  <2>6. Cardinality(P \ {t}) = IF t \in P THEN Cardinality(P) - 1 ELSE Cardinality(P)
    BY <2>1, FS_RemoveElement
  <2> HIDE DEF P
  <2>7. QED
    BY <2>2, <2>4, <2>5, <2>6
<1>5. \A c \in Task : s.inDegree[c] = 0 => deg[c] = 0
  <2> SUFFICES ASSUME NEW c \in Task, s.inDegree[c] = 0 PROVE deg[c] = 0
    OBVIOUS
  <2>1. s.edges \in SUBSET Edge /\ s.completed \in SUBSET Task /\ s.completed \cup {t} \in SUBSET Task
    BY <1>1 DEF Scheduler
  <2>2. s.inDegree[c] = Cardinality(Prerequisites(s.edges, c) \ s.completed)
    BY DEF SchedulerOK
  <2>3. Prerequisites(s.edges, c) \subseteq s.completed
    BY <2>1, <2>2, PrerequisitesFinite
  <2>4. Cardinality(Prerequisites(s.edges, c) \ (s.completed \cup {t})) = 0
    <3>1. Prerequisites(s.edges, c) \ (s.completed \cup {t}) = {}
      BY <2>3
    <3>2. QED
      BY <3>1, FS_EmptySet
  <2> HIDE DEF deg
  <2>5. QED
    BY <1>4, <2>4
<1> HIDE DEF deg
<1>6. ended.runnable \subseteq {c \in Task : ended.snap[c] = "waiting" /\ ended.inDegree[c] = 0}
  BY <1>1, <1>3, <1>5 DEF SchedulerOK, Scheduler
<1>7. \A c \in ended.running : ended.snap[c] = "running"
  BY <1>1, <1>3 DEF SchedulerOK, Scheduler
<1>8. Complete(s, t) = new
  <2>1. Complete(s, t) = UpdateRunnableQueue(ended)
    BY DEF Complete, ended, deg
  <2>2. QED
    BY <1>2, <1>6, <1>7, <2>1, RefreshMakesExact
<1>9. /\ new \in Scheduler
      /\ new.loop = s.loop
      /\ new.edges = s.edges
      /\ new.inDegree = deg
      /\ new.completed = s.completed \cup {t}
      /\ new.failed = s.failed
      /\ new.running = s.running \ {t}
      /\ new.snap = [s.snap EXCEPT ![t] = "completed"]
      /\ new.runnable = {c \in Task : new.snap[c] = "waiting" /\ new.inDegree[c] = 0}
  BY <1>2, <1>3 DEF Scheduler
<1> HIDE DEF new
<1>10. Cardinality(new.running) <= ConcurrencyLimit
  <2>1. s.running \in SUBSET Task
    BY <1>1 DEF Scheduler
  <2>2. IsFiniteSet(s.running) /\ Cardinality(s.running) \in Nat
    BY <2>1, TaskAssumption, FS_Subset, FS_CardinalityType
  <2>3. new.running \in SUBSET s.running
    BY <1>9
  <2>4. Cardinality(new.running) <= Cardinality(s.running) /\ Cardinality(new.running) \in Nat
    BY <2>2, <2>3, FS_Subset, FS_CardinalityType
  <2>5. QED
    BY <2>2, <2>4, LimitAssumption DEF SchedulerOK
<1>11. ~HasCycle(Loaded(new), new.edges)
  <2>1. Loaded(new) = Loaded(s)
    BY <1>1, <1>9 DEF Loaded, Scheduler
  <2>2. QED
    BY <2>1, <1>9 DEF SchedulerOK
<1>12. new.completed = {c \in Task : new.snap[c] = "completed"}
  BY <1>1, <1>9 DEF SchedulerOK, Scheduler
<1>13. new.failed = {c \in Task : new.snap[c] = "failed"}
  BY <1>1, <1>9 DEF SchedulerOK, Scheduler
<1>14. \A c \in new.running : new.snap[c] = "running" /\ PrerequisitesMet(new, c)
  BY <1>1, <1>9 DEF SchedulerOK, Scheduler, PrerequisitesMet
<1>15. SchedulerOK(new)
  BY <1>4, <1>9, <1>10, <1>11, <1>12, <1>13, <1>14 DEF SchedulerOK
<1>16. QED
  BY <1>8, <1>9, <1>15

(* A failed or timed-out closure keeps its scheduler in order.             *)
LEMMA FailOK ==
  ASSUME NEW s, SchedulerOK(s), NEW t \in s.running
  PROVE  /\ SchedulerOK(Fail(s, t))
         /\ Fail(s, t).loop = s.loop
         /\ Fail(s, t).edges = s.edges
         /\ Fail(s, t).completed = s.completed
         /\ Fail(s, t).running = s.running \ {t}
         /\ Fail(s, t).snap = [s.snap EXCEPT ![t] = "failed"]
<1> DEFINE ended == [s EXCEPT !.snap[t] = "failed",
                              !.failed  = s.failed \cup {t},
                              !.running = s.running \ {t}]
<1>1. s \in Scheduler /\ t \in Task /\ s.snap[t] = "running"
  BY DEF SchedulerOK, Scheduler
<1>2. ended \in Scheduler
  BY <1>1 DEF Scheduler, RowStatus, TaskStatus
<1>3. /\ ended.loop = s.loop
      /\ ended.edges = s.edges
      /\ ended.inDegree = s.inDegree
      /\ ended.completed = s.completed
      /\ ended.failed = s.failed \cup {t}
      /\ ended.running = s.running \ {t}
      /\ ended.runnable = s.runnable
      /\ ended.snap = [s.snap EXCEPT ![t] = "failed"]
  BY <1>1 DEF Scheduler
<1> HIDE DEF ended
<1>4. ended.runnable = {c \in Task : ended.snap[c] = "waiting" /\ ended.inDegree[c] = 0}
  BY <1>1, <1>3 DEF SchedulerOK, Scheduler
<1>5. \A c \in ended.running : ended.snap[c] = "running" /\ PrerequisitesMet(ended, c)
  BY <1>1, <1>3 DEF SchedulerOK, Scheduler, PrerequisitesMet
<1>6. Fail(s, t) = ended
  <2>1. Fail(s, t) = UpdateRunnableQueue(ended)
    BY DEF Fail, ended
  <2>2. UpdateRunnableQueue(ended) = [ended EXCEPT !.runnable = ended.runnable]
    BY <1>2, <1>4, <1>5, RefreshMakesExact
  <2>3. [ended EXCEPT !.runnable = ended.runnable] = ended
    BY <1>2 DEF Scheduler
  <2>4. QED
    BY <2>1, <2>2, <2>3
<1>7. Cardinality(ended.running) <= ConcurrencyLimit
  <2>1. s.running \in SUBSET Task
    BY <1>1 DEF Scheduler
  <2>2. IsFiniteSet(s.running) /\ Cardinality(s.running) \in Nat
    BY <2>1, TaskAssumption, FS_Subset, FS_CardinalityType
  <2>3. ended.running \in SUBSET s.running
    BY <1>3
  <2>4. Cardinality(ended.running) <= Cardinality(s.running) /\ Cardinality(ended.running) \in Nat
    BY <2>2, <2>3, FS_Subset, FS_CardinalityType
  <2>5. QED
    BY <2>2, <2>4, LimitAssumption DEF SchedulerOK
<1>8. ~HasCycle(Loaded(ended), ended.edges)
  <2>1. Loaded(ended) = Loaded(s)
    BY <1>1, <1>3 DEF Loaded, Scheduler
  <2>2. QED
    BY <2>1, <1>3 DEF SchedulerOK
<1>9. ended.completed = {c \in Task : ended.snap[c] = "completed"}
  BY <1>1, <1>3 DEF SchedulerOK, Scheduler
<1>10. ended.failed = {c \in Task : ended.snap[c] = "failed"}
  BY <1>1, <1>3 DEF SchedulerOK, Scheduler
<1>11. SchedulerOK(ended)
  BY <1>2, <1>3, <1>4, <1>5, <1>7, <1>8, <1>9, <1>10 DEF SchedulerOK
<1>12. QED
  BY <1>3, <1>6, <1>11

(* A loop that ends keeps its closures' bookkeeping until the last of them. *)
LEMMA CollectOK ==
  ASSUME NEW s, SchedulerOK(s)
  PROVE  /\ SchedulerOK(Collect(s))
         /\ SchedulerOK([s EXCEPT !.loop = "over"])
<1>1. SchedulerOK(Collect(s))
  BY NoRunOK DEF Collect
<1> DEFINE over == [s EXCEPT !.loop = "over"]
<1>2. s \in Scheduler
  BY DEF SchedulerOK
<1>3. over \in Scheduler
  BY <1>2 DEF Scheduler
<1>4. /\ over.snap = s.snap /\ over.edges = s.edges /\ over.inDegree = s.inDegree
      /\ over.runnable = s.runnable /\ over.completed = s.completed
      /\ over.failed = s.failed /\ over.running = s.running
  BY <1>2 DEF Scheduler
<1> HIDE DEF over
<1>5. Loaded(over) = Loaded(s)
  BY <1>4 DEF Loaded
<1>6. \A t \in Task : PrerequisitesMet(over, t) <=> PrerequisitesMet(s, t)
  BY <1>4 DEF PrerequisitesMet
<1>7. s.running \subseteq Task
  BY <1>2 DEF Scheduler
<1>8. SchedulerOK(over)
  BY <1>3, <1>4, <1>5, <1>6, <1>7 DEF SchedulerOK
<1>9. QED
  BY <1>1, <1>8 DEF over

-----------------------------------------------------------------------------
(* The inductive invariant: every slot's scheduler is in order.  It holds   *)
(* for any client, because a scheduler reads rows only when it is created.  *)
IInv == TypeOK /\ \A r \in Run : SchedulerOK(run[r])

LEMMA InitIInv == Init => IInv
<1> SUFFICES ASSUME Init PROVE IInv
  OBVIOUS
<1>1. NoRun \in Scheduler
  BY NoRunOK DEF SchedulerOK
<1>2. run \in [Run -> Scheduler] /\ \A r \in Run : SchedulerOK(run[r])
  BY <1>1, NoRunOK DEF Init
<1>3. checkpoints \in Seq([row : [Task -> RowStatus], retries : [Task -> 0 .. MaxRetries]])
  BY DEF Init
<1>4. retries \in [Task -> 0 .. MaxRetries]
  BY BoundAssumption DEF Init
<1>5. QED
  BY <1>2, <1>3, <1>4 DEF Init, IInv, TypeOK, SessionStatus, RowStatus

(* Replacing one slot's scheduler by one in order.                         *)
LEMMA OneSlot ==
  ASSUME IInv, NEW r \in Run, NEW s, SchedulerOK(s), run' = [run EXCEPT ![r] = s]
  PROVE  run' \in [Run -> Scheduler] /\ \A q \in Run : SchedulerOK(run'[q])
BY DEF IInv, TypeOK, SchedulerOK

LEMMA LaunchRowsType ==
  ASSUME NEW rows \in [Task -> RowStatus], NEW L \in SUBSET Task
  PROVE  LaunchRows(rows, L) \in [Task -> RowStatus]
BY DEF LaunchRows, RowStatus, TaskStatus

LEMMA FinalStatusType == \A rows : FinalStatus(rows) \in SessionStatus
BY DEF FinalStatus, SessionStatus

(* A start on any rows leaves every scheduler in order.                    *)
LEMMA StartOnOK ==
  ASSUME IInv, NEW rows \in [Task -> RowStatus], StartOn(rows)
  PROVE  /\ session' \in SessionStatus
         /\ row' \in [Task -> RowStatus]
         /\ run' \in [Run -> Scheduler] /\ \A q \in Run : SchedulerOK(run'[q])
<1> DEFINE D == {e \in deps : rows[e[1]] # "absent"}
           s == NewScheduler(rows, D)
           cyclic == HasCycle({t \in Task : rows[t] # "absent"}, D)
<1>1. D \in SUBSET Edge
  BY DEF IInv, TypeOK
<1>2. CASE UNCHANGED run /\ row' = rows /\ session' \in SessionStatus
  BY <1>2 DEF IInv, TypeOK
<1>3. CASE /\ ~cyclic
           /\ session' = "running"
           /\ \E r \in Run, L \in Launchable(s) :
                /\ run' = [run EXCEPT ![r] = Launch(s, L)]
                /\ row' = LaunchRows(rows, L)
  <2>1. PICK r \in Run, L \in Launchable(s) :
          /\ run' = [run EXCEPT ![r] = Launch(s, L)]
          /\ row' = LaunchRows(rows, L)
    BY <1>3
  <2>2. SchedulerOK(s)
    BY <1>1, <1>3, NewSchedulerOK
  <2> HIDE DEF s
  <2>3. SchedulerOK(Launch(s, L))
    BY <2>2, LaunchOK
  <2>4. L \in SUBSET Task
    BY <2>2 DEF SchedulerOK, Scheduler, Launchable
  <2>5. QED
    BY <1>3, <2>1, <2>3, <2>4, OneSlot, LaunchRowsType DEF SessionStatus
<1>4. QED
  BY <1>2, <1>3, FinalStatusType DEF StartOn, SessionStatus

LEMMA NextIInv == IInv /\ [Next]_vars => IInv'
<1> SUFFICES ASSUME IInv, [Next]_vars PROVE IInv'
  OBVIOUS
<1> DEFINE Sched == run' \in [Run -> Scheduler] /\ \A q \in Run : SchedulerOK(run'[q])
           Ckpt == [row : [Task -> RowStatus], retries : [Task -> 0 .. MaxRetries]]
<1> USE DEF IInv, TypeOK
<1>0. run \in [Run -> Scheduler] /\ \A q \in Run : SchedulerOK(run[q])
  OBVIOUS
<1>1. CASE UNCHANGED vars
  BY <1>1 DEF vars
<1>2. CASE CreateExecution
  BY <1>2 DEF CreateExecution, SessionStatus
<1>3. ASSUME NEW t \in Task, AddTask(t) PROVE IInv'
  <2>1. row' \in [Task -> RowStatus]
    BY <1>3 DEF AddTask, RowStatus, TaskStatus
  <2>2. retries' \in [Task -> 0 .. MaxRetries]
    BY <1>3, BoundAssumption DEF AddTask
  <2>3. deps' \subseteq Edge
    BY <1>3 DEF AddTask
  <2>4. QED
    BY <1>3, <2>1, <2>2, <2>3 DEF AddTask
<1>4. ASSUME NEW e \in Edge, AddDependency(e) PROVE IInv'
  BY <1>4 DEF AddDependency
<1>5. CASE StartExecution
  BY <1>5, StartOnOK DEF StartExecution
<1>6. CASE PauseExecution
  BY <1>6 DEF PauseExecution, SessionStatus
<1>7. CASE ResumeExecution
  BY <1>7, StartOnOK DEF ResumeExecution
<1>8. CASE CancelExecution
  BY <1>8 DEF CancelExecution, SessionStatus
<1>9. CASE RetryExecution
  <2> DEFINE rows == [t \in Task |-> IF t \in Failed THEN "waiting" ELSE row[t]]
  <2>1. rows \in [Task -> RowStatus] /\ StartOn(rows)
    BY <1>9 DEF RetryExecution, RowStatus, TaskStatus
  <2>2. \A t \in Task : retries'[t] \in 0 .. MaxRetries
    <3> TAKE t \in Task
    <3>1. retries[t] \in 0 .. MaxRetries
      OBVIOUS
    <3>2. t \in Failed => retries[t] < MaxRetries
      BY <1>9 DEF RetryExecution
    <3>3. retries'[t] = IF t \in Failed THEN retries[t] + 1 ELSE retries[t]
      BY <1>9 DEF RetryExecution
    <3>4. QED
      BY <3>1, <3>2, <3>3, BoundAssumption
  <2>3. retries' \in [Task -> 0 .. MaxRetries]
    BY <1>9, <2>2 DEF RetryExecution
  <2> HIDE DEF rows
  <2>4. QED
    BY <1>9, <2>1, <2>3, StartOnOK DEF RetryExecution
<1>10. CASE RecoverBySkip
  <2> DEFINE rows == [t \in Task |-> IF t \in Failed THEN "completed" ELSE row[t]]
  <2>1. rows \in [Task -> RowStatus] /\ StartOn(rows)
    BY <1>10 DEF RecoverBySkip, RowStatus, TaskStatus
  <2> HIDE DEF rows
  <2>2. QED
    BY <1>10, <2>1, StartOnOK DEF RecoverBySkip
<1>11. CASE CreateCheckpoint
  <2>1. [row |-> row, retries |-> retries] \in Ckpt
    OBVIOUS
  <2>2. checkpoints \in Seq(Ckpt)
    OBVIOUS
  <2> HIDE DEF Ckpt
  <2>3. checkpoints' \in Seq(Ckpt)
    BY <1>11, <2>1, <2>2 DEF CreateCheckpoint
  <2>4. QED
    BY <1>11, <2>3 DEF CreateCheckpoint, Ckpt
<1>12. ASSUME NEW i \in DOMAIN checkpoints, RestoreCheckpoint(i) PROVE IInv'
  <2>1. checkpoints[i] \in Ckpt
    <3>1. checkpoints \in Seq(Ckpt)
      OBVIOUS
    <3>2. i \in 1 .. Len(checkpoints)
      BY <3>1
    <3> HIDE DEF Ckpt
    <3>3. QED
      BY <3>1, <3>2, ElementOfSeq
  <2>2. row' \in [Task -> RowStatus] /\ retries' \in [Task -> 0 .. MaxRetries]
    BY <1>12, <2>1 DEF RestoreCheckpoint
  <2>3. QED
    BY <1>12, <2>2 DEF RestoreCheckpoint
<1>13. ASSUME NEW r \in Run, Poll(r) PROVE IInv'
  <2>1. PICK L \in Launchable(run[r]) :
          run' = [run EXCEPT ![r] = Launch(run[r], L)] /\ row' = LaunchRows(row, L)
    BY <1>13 DEF Poll
  <2>2. SchedulerOK(Launch(run[r], L))
    BY <1>0, LaunchOK
  <2>3. L \in SUBSET Task
    BY <1>0 DEF Scheduler, Launchable
  <2>4. Sched
    BY <2>1, <2>2, OneSlot
  <2>5. row' \in [Task -> RowStatus]
    BY <2>1, <2>3, LaunchRowsType
  <2>6. QED
    BY <1>13, <2>4, <2>5 DEF Poll
<1>14. ASSUME NEW r \in Run, Finish(r) PROVE IInv'
  <2>1. run' = [run EXCEPT ![r] = Collect([run[r] EXCEPT !.loop = "over"])]
    BY <1>14 DEF Finish
  <2>2. SchedulerOK(Collect([run[r] EXCEPT !.loop = "over"]))
    BY <1>0, CollectOK
  <2>3. Sched
    BY <2>1, <2>2, OneSlot
  <2>4. QED
    BY <1>14, <2>3, FinalStatusType DEF Finish
<1>15. ASSUME NEW r \in Run, NEW t \in Task, TaskCompletes(r, t) PROVE IInv'
  <2>1. SchedulerOK(Collect(Complete(run[r], t)))
    BY <1>0, <1>15, CompleteOK, CollectOK DEF TaskCompletes
  <2>2. Sched
    BY <1>15, <2>1, OneSlot DEF TaskCompletes
  <2>3. row' \in [Task -> RowStatus]
    BY <1>15 DEF TaskCompletes, RowStatus, TaskStatus
  <2>4. QED
    BY <1>15, <2>2, <2>3 DEF TaskCompletes
<1>16. ASSUME NEW r \in Run, NEW t \in Task, TaskTimesOut(r, t) PROVE IInv'
  <2>1. SchedulerOK(Collect(Fail(run[r], t)))
    BY <1>0, <1>16, FailOK, CollectOK DEF TaskTimesOut
  <2>2. Sched
    BY <1>16, <2>1, OneSlot DEF TaskTimesOut
  <2>3. row' \in [Task -> RowStatus]
    BY <1>16 DEF TaskTimesOut, RowStatus, TaskStatus
  <2>4. QED
    BY <1>16, <2>2, <2>3 DEF TaskTimesOut
<1>17. CASE Crash
  <2>1. Sched
    BY <1>17, NoRunOK DEF Crash, SchedulerOK
  <2>2. QED
    BY <1>17, <2>1 DEF Crash, db
<1>18. QED
  BY <1>1, <1>2, <1>3, <1>4, <1>5, <1>6, <1>7, <1>8, <1>9, <1>10, <1>11, <1>12,
     <1>13, <1>14, <1>15, <1>16, <1>17
  DEF Next

-----------------------------------------------------------------------------
(* What an orderly scheduler implies.                                      *)
LEMMA OrderlyScheduler ==
  ASSUME NEW s, SchedulerOK(s)
  PROVE  /\ s.runnable = {t \in Task : s.snap[t] = "waiting" /\ PrerequisitesMet(s, t)}
         /\ \A t \in s.running : PrerequisitesMet(s, t)
         /\ Cardinality(s.running) <= ConcurrencyLimit
<1>1. s.edges \in SUBSET Edge /\ s.completed \in SUBSET Task
  BY DEF SchedulerOK, Scheduler
<1>2. \A t \in Task : s.inDegree[t] = 0 <=> PrerequisitesMet(s, t)
  <2> TAKE t \in Task
  <2>1. s.inDegree[t] = Cardinality(Prerequisites(s.edges, t) \ s.completed)
    BY DEF SchedulerOK
  <2>2. QED
    BY <1>1, <2>1, PrerequisitesFinite DEF PrerequisitesMet
<1>3. s.runnable = {t \in Task : s.snap[t] = "waiting" /\ PrerequisitesMet(s, t)}
  BY <1>2 DEF SchedulerOK
<1>4. QED
  BY <1>3 DEF SchedulerOK

(* The tasks left waiting in a stall with no failed and no running task     *)
(* would be a witness of HasCycle, which was checked before the loop began. *)
LEMMA NoUncausedStall ==
  ASSUME NEW s, SchedulerOK(s), Stalled(s),
         \A t \in Task : s.snap[t] \notin {"failed", "running"}
  PROVE  FALSE
<1> DEFINE W == {t \in Task : s.snap[t] = "waiting"}
<1>1. s \in Scheduler /\ s.edges \in SUBSET Edge /\ s.completed \in SUBSET Task
  BY DEF SchedulerOK, Scheduler
<1>2. s.failed = {} /\ s.completed = {t \in Task : s.snap[t] = "completed"}
  BY DEF SchedulerOK
<1>3. W # {}
  <2>1. PICK t \in Loaded(s) : t \notin s.completed
    BY DEF Stalled
  <2>2. t \in Task /\ s.snap[t] \notin {"absent", "completed"}
    BY <1>2, <2>1 DEF Loaded
  <2>3. QED
    BY <1>1, <2>2 DEF Scheduler, RowStatus, TaskStatus
<1>4. \A t \in W : \E d \in Prerequisites(s.edges, t) : d \in W \/ d \notin Loaded(s)
  <2> SUFFICES ASSUME NEW t \in W
               PROVE  \E d \in Prerequisites(s.edges, t) : d \in W \/ d \notin Loaded(s)
    OBVIOUS
  <2>1. ~PrerequisitesMet(s, t)
    BY OrderlyScheduler DEF Stalled
  <2>2. PICK d \in Prerequisites(s.edges, t) : d \notin s.completed
    BY <2>1 DEF PrerequisitesMet
  <2>3. d \in Task
    BY <1>1, PrerequisitesFinite
  <2>4. s.snap[d] \in {"absent", "waiting"}
    BY <1>1, <1>2, <2>2, <2>3 DEF Scheduler, RowStatus, TaskStatus
  <2>5. d \in W \/ d \notin Loaded(s)
    BY <2>3, <2>4 DEF Loaded
  <2>6. QED
    BY <2>2, <2>5
<1>5. W \in SUBSET Loaded(s)
  BY DEF Loaded
<1>6. HasCycle(Loaded(s), s.edges)
  BY <1>3, <1>4, <1>5 DEF HasCycle
<1>7. QED
  BY <1>6 DEF SchedulerOK

(* TypeOK, for every client: pauses, overlapping starts, rewritten rows,    *)
(* late edits and crashes included.                                         *)
THEOREM TypeCorrect == Spec => []TypeOK
<1>1. IInv => TypeOK
  BY DEF IInv
<1>2. QED
  BY <1>1, InitIInv, NextIInv, PTL DEF Spec

(* No wake-up is lost: the queue holds exactly the tasks that wait and whose *)
(* prerequisites the scheduler has seen complete, whoever writes the rows.   *)
THEOREM WakeupsKept == Spec => []NoLostWakeup
<1>1. IInv => NoLostWakeup
  BY OrderlyScheduler DEF IInv, NoLostWakeup
<1>2. QED
  BY <1>1, InitIInv, NextIInv, PTL DEF Spec

(* What is in flight was launched after all that it depends on, for any     *)
(* graph and any order in which closures end, fail or time out.             *)
THEOREM DependenciesKept == Spec => []DependencyOrder
<1>1. IInv => DependencyOrder
  BY OrderlyScheduler DEF IInv, DependencyOrder
<1>2. QED
  BY <1>1, InitIInv, NextIInv, PTL DEF Spec

(* A scheduler never has more closures in flight than its limit, whatever   *)
(* the limit: turns count what earlier turns have left in flight.           *)
THEOREM LimitKept == Spec => []ConcurrencyBound
<1>1. IInv => ConcurrencyBound
  BY OrderlyScheduler DEF IInv, ConcurrencyBound
<1>2. QED
  BY <1>1, InitIInv, NextIInv, PTL DEF Spec

(* A loop that polls on with nothing to launch and nothing in flight has a  *)
(* failed task, or loaded one as running: no graph that passes hasCycle and *)
(* no interleaving of closures can stall it otherwise.                      *)
THEOREM StallsExplained == Spec => []StallHasCause
<1>1. IInv => StallHasCause
  BY NoUncausedStall DEF IInv, StallHasCause
<1>2. QED
  BY <1>1, InitIInv, NextIInv, PTL DEF Spec

(* While a pause or a cancellation stands, nothing is launched: the only    *)
(* steps that launch are turns of a loop, which read the status first, and  *)
(* starts, which overwrite it.                                              *)
THEOREM HaltsHold == Spec => HaltStopsLaunching
<1> DEFINE Launched(r, t) == run[r].snap[t] = "waiting" /\ run'[r].snap[t] \in {"running", "failed"}
           Held == session \in Halted /\ session' \in Halted =>
                     \A r \in Run, t \in Task : ~Launched(r, t)
<1>1. ASSUME IInv, [Next]_vars PROVE Held
  <2> SUFFICES ASSUME session \in Halted, session' \in Halted, NEW q \in Run, NEW u \in Task,
                      Launched(q, u)
               PROVE  FALSE
    OBVIOUS
  <2>1. ASSUME NEW rows, StartOn(rows) PROVE FALSE
    BY <2>1 DEF StartOn, FinalStatus, Halted
  <2>2. ASSUME UNCHANGED run PROVE FALSE
    BY <2>2
  <2>3. ASSUME NEW r \in Run, NEW s, run' = [run EXCEPT ![r] = Collect(s)],
               \A t \in Task : run[r].snap[t] = "waiting" => s.snap[t] = "waiting"
        PROVE  FALSE
    <3>1. run'[q] = IF q = r THEN Collect(s) ELSE run[q]
      BY <2>3 DEF IInv, TypeOK
    <3>2. Collect(s).snap[u] \in {s.snap[u], "absent"}
      BY DEF Collect, NoRun
    <3>3. QED
      BY <2>3, <3>1, <3>2
  <2>4. ASSUME NEW r \in Run, Poll(r) PROVE FALSE
    BY <2>4 DEF Poll
  <2>5. ASSUME NEW r \in Run, Finish(r) PROVE FALSE
    BY <2>5 DEF Finish, FinalStatus, Halted
  <2>6. ASSUME NEW r \in Run, NEW t \in Task, TaskCompletes(r, t) PROVE FALSE
    <3>1. SchedulerOK(run[r])
      BY <1>1 DEF IInv
    <3>2. t \in run[r].running /\ run' = [run EXCEPT ![r] = Collect(Complete(run[r], t))]
      BY <2>6 DEF TaskCompletes
    <3>3. run[r].snap[t] = "running" /\ run[r].snap \in [Task -> RowStatus]
      BY <3>1, <3>2 DEF SchedulerOK, Scheduler
    <3>4. Complete(run[r], t).snap = [run[r].snap EXCEPT ![t] = "completed"]
      BY <3>1, <3>2, CompleteOK
    <3>5. \A x \in Task : run[r].snap[x] = "waiting" => Complete(run[r], t).snap[x] = "waiting"
      BY <3>3, <3>4
    <3>6. QED
      BY <2>3, <3>2, <3>5
  <2>7. ASSUME NEW r \in Run, NEW t \in Task, TaskTimesOut(r, t) PROVE FALSE
    <3>1. SchedulerOK(run[r])
      BY <1>1 DEF IInv
    <3>2. t \in run[r].running /\ run' = [run EXCEPT ![r] = Collect(Fail(run[r], t))]
      BY <2>7 DEF TaskTimesOut
    <3>3. run[r].snap[t] = "running" /\ run[r].snap \in [Task -> RowStatus]
      BY <3>1, <3>2 DEF SchedulerOK, Scheduler
    <3>4. Fail(run[r], t).snap = [run[r].snap EXCEPT ![t] = "failed"]
      BY <3>1, <3>2, FailOK
    <3>5. \A x \in Task : run[r].snap[x] = "waiting" => Fail(run[r], t).snap[x] = "waiting"
      BY <3>3, <3>4
    <3>6. QED
      BY <2>3, <3>2, <3>5
  <2>8. ASSUME Crash PROVE FALSE
    BY <2>8 DEF Crash, NoRun
  <2>9. QED
    BY <1>1, <2>1, <2>2, <2>4, <2>5, <2>6, <2>7, <2>8
    DEF Next, vars, CreateExecution, AddTask, AddDependency, StartExecution, PauseExecution,
        ResumeExecution, CancelExecution, RetryExecution, RecoverBySkip, CreateCheckpoint,
        RestoreCheckpoint
<1>2. IInv /\ [Next]_vars => [(session \in Halted /\ session' \in Halted) =>
         (\A r \in Run, t \in Task : run[r].snap[t] = "waiting" =>
            run'[r].snap[t] \notin {"running", "failed"})]_vars
  BY <1>1
<1>3. QED
  BY <1>2, InitIInv, NextIInv, PTL DEF Spec, HaltStopsLaunching

-----------------------------------------------------------------------------
(* Progress: what is left of the liveness of a loop when fairness is taken  *)
(* away.  A turn always has a set of tasks to launch, the set is empty only *)
(* if something is in flight or nothing can ever be, and every change of a  *)
(* scheduler uses some of it up.                                            *)

\* No task of W \ V comes before one of V.
MostUrgent(V, W) == \A v \in V, w \in W \ V : Priority[v] >= Priority[w]

LEMMA SubsetsWellFounded ==
  ASSUME NEW W, IsFiniteSet(W), NEW C \in SUBSET (SUBSET W), C # {}
  PROVE  \E V \in C : \A U \in C : ~(U \subseteq V /\ U # V)
<1>1. IsWellFoundedOn(StrictSubsetOrdering(W), SUBSET W)
  BY FS_StrictSubsetOrderingWellFounded, FS_FiniteSubsetsOfFinite
<1>2. PICK V \in C : \A U \in C : <<U, V>> \notin StrictSubsetOrdering(W)
  BY <1>1, WFMin
<1>3. ASSUME NEW U \in C, U \subseteq V, U # V PROVE FALSE
  <2>1. U \in SUBSET W /\ V \in SUBSET W
    OBVIOUS
  <2>2. <<U, V>> \in StrictSubsetOrdering(W)
    BY <1>3, <2>1 DEF StrictSubsetOrdering
  <2> QED
    BY <1>2, <2>2
<1> QED
  BY <1>3, Zenon

(* Some task of a queue is not preceded by any other.                       *)
LEMMA UrgentTaskExists ==
  ASSUME NEW W \in SUBSET Task, W # {}
  PROVE  \E m \in W : \A x \in W : Priority[m] >= Priority[x]
<1> DEFINE C == {V \in SUBSET W : V # {} /\ MostUrgent(V, W)}
<1>1. IsFiniteSet(W)
  BY TaskAssumption, FS_Subset
<1>2. \A x \in W : Priority[x] \in Int
  BY PriorityAssumption
<1>3. W \in C
  BY DEF MostUrgent
<1>4. PICK V \in C : \A U \in C : ~(U \subseteq V /\ U # V)
  <2>1. C \in SUBSET (SUBSET W) /\ C # {}
    BY <1>3
  <2> HIDE DEF C
  <2> QED
    BY <1>1, <2>1, SubsetsWellFounded
<1>5. PICK m \in V : m \in W
  BY <1>4
<1>6. ASSUME NEW x \in W PROVE Priority[m] >= Priority[x]
  <2>1. CASE x \notin V
    BY <1>4, <1>5, <2>1 DEF MostUrgent
  <2>2. CASE x \in V
    <3> DEFINE U == {v \in V : Priority[v] >= Priority[x]}
    <3>1. x \in U /\ U \subseteq V
      BY <1>2, <2>2
    <3>2. ASSUME NEW v \in U, NEW w \in W \ U PROVE Priority[v] >= Priority[w]
      <4>1. v \in V /\ v \in W /\ Priority[v] >= Priority[x]
        BY <1>4
      <4>2. CASE w \in V
        BY <1>2, <4>1, <4>2
      <4>3. CASE w \notin V
        BY <1>4, <4>1, <4>3 DEF MostUrgent
      <4> QED
        BY <4>2, <4>3
    <3>3. U \in C
      BY <1>4, <3>1, <3>2 DEF MostUrgent
    <3>4. m \in U
      BY <1>4, <1>5, <3>1, <3>3
    <3> QED
      BY <3>4
  <2> QED
    BY <2>1, <2>2
<1> QED
  BY <1>5, <1>6

(* As many tasks as there is room for can be taken in the order of urgency. *)
LEMMA UrgentSetExists ==
  ASSUME NEW W \in SUBSET Task, NEW k \in Nat, k <= Cardinality(W)
  PROVE  \E L \in SUBSET W : Cardinality(L) = k /\ MostUrgent(L, W)
<1> DEFINE Part(R) == W \ R
           C == {R \in SUBSET W : MostUrgent(Part(R), W) /\ Cardinality(Part(R)) <= k}
<1>1. IsFiniteSet(W)
  BY TaskAssumption, FS_Subset
<1>2. W \in C
  <2>1. Part(W) = {}
    OBVIOUS
  <2>2. Cardinality({}) = 0
    BY FS_EmptySet
  <2> QED
    BY <2>1, <2>2 DEF MostUrgent
<1>3. PICK R \in C : \A U \in C : ~(U \subseteq R /\ U # R)
  <2>1. C \in SUBSET (SUBSET W) /\ C # {}
    BY <1>2
  <2> HIDE DEF C
  <2> QED
    BY <1>1, <2>1, SubsetsWellFounded
<1>4. IsFiniteSet(Part(R)) /\ Cardinality(Part(R)) \in Nat /\ Cardinality(W) \in Nat
  BY <1>1, FS_Subset, FS_CardinalityType
<1>5. MostUrgent(Part(R), W) /\ Cardinality(Part(R)) <= k /\ R \subseteq W
  BY <1>3
<1>6. ASSUME Cardinality(Part(R)) < k PROVE FALSE
  <2>1. R # {}
    <3>1. Part({}) = W
      OBVIOUS
    <3> QED
      BY <1>4, <1>6, <3>1
  <2>2. PICK m \in R : \A x \in R : Priority[m] >= Priority[x]
    BY <1>5, <2>1, UrgentTaskExists
  <2>3. Part(R \ {m}) = Part(R) \cup {m} /\ m \notin Part(R)
    BY <1>5, <2>2
  <2>4. Cardinality(Part(R \ {m})) = Cardinality(Part(R)) + 1
    BY <1>4, <2>3, FS_AddElement
  <2>5. MostUrgent(Part(R \ {m}), W)
    <3>1. \A v \in Part(R), w \in W \ Part(R) : Priority[v] >= Priority[w]
      BY <1>5 DEF MostUrgent
    <3>2. \A w \in W \ Part(R \ {m}) : w \in R
      OBVIOUS
    <3> HIDE DEF Part
    <3> QED
      BY <2>2, <2>3, <3>1, <3>2 DEF MostUrgent
  <2>6. R \ {m} \in C
    <3>1. Cardinality(Part(R \ {m})) <= k
      BY <1>4, <1>6, <2>4
    <3> QED
      BY <1>5, <2>5, <3>1
  <2> QED
    BY <1>3, <2>2, <2>6
<1>7. Cardinality(Part(R)) = k
  BY <1>4, <1>5, <1>6
<1> QED
  BY <1>5, <1>7

(* The inner loop always has a set of tasks to take, be it the empty one.   *)
LEMMA TurnNotBlocked ==
  ASSUME NEW s, SchedulerOK(s)
  PROVE  Launchable(s) # {}
<1>1. s.runnable \in SUBSET Task /\ s.running \in SUBSET Task
  BY DEF SchedulerOK, Scheduler
<1>2. /\ Cardinality(s.runnable) \in Nat /\ Cardinality(s.running) \in Nat
      /\ Cardinality(s.running) <= ConcurrencyLimit
  BY <1>1, TaskAssumption, FS_Subset, FS_CardinalityType DEF SchedulerOK
<1> DEFINE room == ConcurrencyLimit - Cardinality(s.running)
<1>3. room \in Nat
  BY <1>2, LimitAssumption
<1>4. CASE room <= Cardinality(s.runnable)
  <2>1. PICK L \in SUBSET s.runnable : Cardinality(L) = room /\ MostUrgent(L, s.runnable)
    BY <1>1, <1>3, <1>4, UrgentSetExists
  <2>2. Cardinality(s.running) + Cardinality(L) = ConcurrencyLimit
    BY <1>2, <2>1, LimitAssumption
  <2>3. L \in Launchable(s)
    BY <2>1, <2>2 DEF Launchable, MostUrgent
  <2> QED
    BY <2>3
<1>5. CASE Cardinality(s.runnable) < room
  <2>1. Cardinality(s.running) + Cardinality(s.runnable) < ConcurrencyLimit
    BY <1>2, <1>5, LimitAssumption
  <2>2. s.runnable \in Launchable(s)
    BY <2>1 DEF Launchable
  <2> QED
    BY <2>2
<1> QED
  BY <1>2, <1>3, <1>4, <1>5

(* A turn launches nothing for one of two reasons.                          *)
LEMMA IdleTurnHasCause ==
  ASSUME NEW s, SchedulerOK(s), s.loop = "polling", ~AllSettled(s), {} \in Launchable(s)
  PROVE  s.running # {} \/ Stalled(s)
<1> SUFFICES ASSUME s.running = {} PROVE Stalled(s)
  OBVIOUS
<1>1. Cardinality({}) = 0
  BY FS_EmptySet
<1>2. s.runnable = {}
  BY <1>1, LimitAssumption DEF Launchable
<1>3. /\ Loaded(s) \in SUBSET Task /\ s.completed \in SUBSET Task /\ s.failed \in SUBSET Task
      /\ s.completed \cap s.failed = {}
  BY DEF SchedulerOK, Scheduler, Loaded
<1>4. IsFiniteSet(Loaded(s)) /\ IsFiniteSet(s.completed) /\ IsFiniteSet(s.failed)
  BY <1>3, TaskAssumption, FS_Subset
<1>5. /\ IsFiniteSet(s.completed \cup s.failed)
      /\ Cardinality(s.completed \cup s.failed) = Cardinality(s.completed) + Cardinality(s.failed)
  <2>1. /\ Cardinality(s.completed \cup s.failed)
              = Cardinality(s.completed) + Cardinality(s.failed) - Cardinality({})
        /\ IsFiniteSet(s.completed \cup s.failed)
    BY <1>3, <1>4, FS_Union
  <2>2. Cardinality(s.completed) \in Nat /\ Cardinality(s.failed) \in Nat
    BY <1>4, FS_CardinalityType
  <2> QED
    BY <1>1, <2>1, <2>2
<1>6. ASSUME Loaded(s) \subseteq s.completed \cup s.failed PROVE FALSE
  <2>1. Cardinality(Loaded(s)) <= Cardinality(s.completed \cup s.failed)
    BY <1>5, <1>6, FS_Subset
  <2> QED
    BY <1>5, <2>1 DEF AllSettled
<1> QED
  BY <1>2, <1>6 DEF Stalled

(* A loop with tasks left is never blocked, and takes an idle turn only     *)
(* while something of its own is in flight or when it is stalled: for any   *)
(* priorities, limits and clients.                                          *)
THEOREM LoopsCanAct == Spec => []LoopCanAct
<1>1. IInv => LoopCanAct
  BY TurnNotBlocked, IdleTurnHasCause DEF IInv, LoopCanAct
<1> QED
  BY <1>1, InitIInv, NextIInv, PTL DEF Spec

\* What a step may do to the view of a scheduler.
Forward(s, n) ==
  \A t \in Task :
    \/ n.snap[t] = s.snap[t]
    \/ /\ s.snap[t] = "waiting" /\ PrerequisitesMet(s, t)
       /\ n.snap[t] \in {"running", "failed"}
    \/ /\ s.snap[t] = "running" /\ t \in s.running
       /\ n.snap[t] \in {"completed", "failed"}

LEMMA LaunchForward ==
  ASSUME NEW s, SchedulerOK(s), NEW L \in Launchable(s)
  PROVE  Forward(s, Launch(s, L))
<1>1. Launch(s, L).snap = LaunchRows(s.snap, L)
  BY LaunchOK
<1>2. \A t \in L : s.snap[t] = "waiting" /\ PrerequisitesMet(s, t)
  BY OrderlyScheduler DEF Launchable
<1> QED
  BY <1>1, <1>2 DEF Forward, LaunchRows

LEMMA EndForward ==
  ASSUME NEW s, SchedulerOK(s), NEW t \in s.running,
         NEW n \in {Complete(s, t), Fail(s, t)}
  PROVE  Forward(s, n)
<1>1. t \in Task /\ s.snap[t] = "running" /\ s.snap \in [Task -> RowStatus]
  BY DEF SchedulerOK, Scheduler
<1>2. \/ n.snap = [s.snap EXCEPT ![t] = "completed"]
      \/ n.snap = [s.snap EXCEPT ![t] = "failed"]
  BY CompleteOK, FailOK
<1> QED
  BY <1>1, <1>2 DEF Forward

\* What a step leaves of a scheduler: the same, the same with its loop over, what
\* follows it in the order of the code, or nothing.
Successors(s) ==
  {NoRun, s, [s EXCEPT !.loop = "over"]}
    \cup {Launch(s, L) : L \in Launchable(s)}
    \cup {Complete(s, t) : t \in s.running}
    \cup {Fail(s, t) : t \in s.running}

\* Starts, rewritten rows and steps of other schedulers do not reach it.
LEMMA SlotSteps ==
  ASSUME IInv, [Next]_vars, NEW r \in Run, run[r].loop # "none"
  PROVE  run'[r] \in Successors(run[r])
<1> DEFINE s == run[r]
<1>0. run \in [Run -> Scheduler] /\ s \in Successors(s) /\ NoRun \in Successors(s)
  BY DEF IInv, TypeOK, Successors
<1>1. ASSUME NEW q \in Run, NEW n, run' = [run EXCEPT ![q] = n], q = r => n \in Successors(s)
      PROVE  run'[r] \in Successors(s)
  BY <1>0, <1>1
<1>2. ASSUME NEW rows, StartOn(rows) PROVE run'[r] \in Successors(s)
  <2>1. CASE UNCHANGED run
    BY <1>0, <2>1
  <2>2. CASE \E q \in Run : run[q].loop = "none" /\ \E n : run' = [run EXCEPT ![q] = n]
    BY <1>0, <2>2
  <2> QED
    <3>1. \/ UNCHANGED run
          \/ \E q \in Run, L \in Launchable(NewScheduler(rows, {e \in deps : rows[e[1]] # "absent"})) :
               /\ run[q].loop = "none"
               /\ run' = [run EXCEPT ![q] =
                    Launch(NewScheduler(rows, {e \in deps : rows[e[1]] # "absent"}), L)]
      BY <1>2 DEF StartOn
    <3> QED
      BY <2>1, <2>2, <3>1
<1>3. ASSUME NEW q \in Run, Poll(q) PROVE run'[r] \in Successors(s)
  <2>1. PICK L \in Launchable(run[q]) : run' = [run EXCEPT ![q] = Launch(run[q], L)]
    BY <1>3 DEF Poll
  <2>2. q = r => Launch(run[q], L) \in Successors(s)
    BY DEF Successors
  <2> QED
    BY <1>1, <2>1, <2>2
<1>4. ASSUME NEW q \in Run, Finish(q) PROVE run'[r] \in Successors(s)
  <2>1. run' = [run EXCEPT ![q] = Collect([run[q] EXCEPT !.loop = "over"])]
    BY <1>4 DEF Finish
  <2>2. q = r => Collect([run[q] EXCEPT !.loop = "over"]) \in Successors(s)
    BY DEF Successors, Collect
  <2> QED
    BY <1>1, <2>1, <2>2
<1>5. ASSUME NEW q \in Run, NEW t \in Task, TaskCompletes(q, t) PROVE run'[r] \in Successors(s)
  <2>1. t \in run[q].running /\ run' = [run EXCEPT ![q] = Collect(Complete(run[q], t))]
    BY <1>5 DEF TaskCompletes
  <2>2. q = r => Collect(Complete(run[q], t)) \in Successors(s)
    BY <2>1 DEF Successors, Collect
  <2> QED
    BY <1>1, <2>1, <2>2
<1>6. ASSUME NEW q \in Run, NEW t \in Task, TaskTimesOut(q, t) PROVE run'[r] \in Successors(s)
  <2>1. t \in run[q].running /\ run' = [run EXCEPT ![q] = Collect(Fail(run[q], t))]
    BY <1>6 DEF TaskTimesOut
  <2>2. q = r => Collect(Fail(run[q], t)) \in Successors(s)
    BY <2>1 DEF Successors, Collect
  <2> QED
    BY <1>1, <2>1, <2>2
<1>7. CASE Crash
  BY <1>0, <1>7 DEF Crash
<1>8. ASSUME UNCHANGED run PROVE run'[r] \in Successors(s)
  BY <1>0, <1>8
<1> QED
  BY <1>2, <1>3, <1>4, <1>5, <1>6, <1>7, <1>8
  DEF Next, vars, CreateExecution, AddTask, AddDependency, StartExecution, PauseExecution,
      ResumeExecution, CancelExecution, RetryExecution, RecoverBySkip, CreateCheckpoint,
      RestoreCheckpoint

LEMMA SuccessorsForward ==
  ASSUME NEW s, SchedulerOK(s), NEW n \in Successors(s), n.loop # "none"
  PROVE  Forward(s, n)
<1>1. NoRun.loop = "none"
  BY DEF NoRun
<1>2. CASE n \in {s, [s EXCEPT !.loop = "over"]}
  <2>1. n.snap = s.snap
    BY <1>2 DEF SchedulerOK, Scheduler
  <2> QED
    BY <2>1 DEF Forward
<1> QED
  BY <1>1, <1>2, LaunchForward, EndForward DEF Successors

(* A scheduler launches a task at most once in its life, after everything   *)
(* the task depends on, and what it has noted of an end is final: for any   *)
(* graph, and whatever starts, crashes or rewrites rows beside it.          *)
THEOREM ViewsGoForward == Spec => ViewGoesForward
<1>1. ASSUME IInv, [Next]_vars
      PROVE  \A r \in Run : run[r].loop # "none" /\ run'[r].loop # "none" =>
               Forward(run[r], run'[r])
  <2> SUFFICES ASSUME NEW r \in Run, run[r].loop # "none", run'[r].loop # "none"
               PROVE  Forward(run[r], run'[r])
    OBVIOUS
  <2>1. run'[r] \in Successors(run[r])
    BY <1>1, SlotSteps
  <2>2. SchedulerOK(run[r])
    BY <1>1 DEF IInv
  <2> QED
    BY <2>1, <2>2, SuccessorsForward
<1>2. IInv /\ [Next]_vars =>
        [\A r \in Run : run[r].loop # "none" /\ run'[r].loop # "none" =>
           \A t \in Task :
             \/ run'[r].snap[t] = run[r].snap[t]
             \/ /\ run[r].snap[t] = "waiting" /\ PrerequisitesMet(run[r], t)
                /\ run'[r].snap[t] \in {"running", "failed"}
             \/ /\ run[r].snap[t] = "running" /\ t \in run[r].running
                /\ run'[r].snap[t] \in {"completed", "failed"}]_vars
  BY <1>1 DEF Forward
<1> QED
  BY <1>2, InitIInv, NextIInv, PTL DEF Spec, ViewGoesForward

-----------------------------------------------------------------------------
\* How much a scheduler may still do: leave its loop, launch and end what waits,
\* end what is in flight.
Waiting(s) == {t \in Task : s.snap[t] = "waiting"}

Fuel(s) ==
  IF s.loop = "none" THEN 0
  ELSE 1 + (IF s.loop = "polling" THEN 1 ELSE 0)
         + 2 * Cardinality(Waiting(s)) + Cardinality(s.running)

LEMMA FuelParts ==
  ASSUME NEW s, SchedulerOK(s)
  PROVE  /\ IsFiniteSet(Waiting(s)) /\ Cardinality(Waiting(s)) \in Nat
         /\ IsFiniteSet(s.running) /\ Cardinality(s.running) \in Nat
         /\ Fuel(s) \in Nat
         /\ s.loop # "none" => Fuel(s) > 0
<1>1. Waiting(s) \in SUBSET Task /\ s.running \in SUBSET Task
  BY DEF Waiting, SchedulerOK, Scheduler
<1>2. /\ IsFiniteSet(Waiting(s)) /\ Cardinality(Waiting(s)) \in Nat
      /\ IsFiniteSet(s.running) /\ Cardinality(s.running) \in Nat
  BY <1>1, TaskAssumption, FS_Subset, FS_CardinalityType
<1> QED
  BY <1>2 DEF Fuel

LEMMA LaunchUsesFuel ==
  ASSUME NEW s, SchedulerOK(s), s.loop # "none", NEW L \in Launchable(s)
  PROVE  Launch(s, L) = s \/ Fuel(Launch(s, L)) < Fuel(s)
<1> DEFINE n == Launch(s, L)
<1>1. s \in Scheduler /\ L \subseteq s.runnable
  BY DEF SchedulerOK, Launchable
<1>2. /\ SchedulerOK(n) /\ n.loop = s.loop /\ n.running = s.running \cup (L \ FailFast)
      /\ n.snap = LaunchRows(s.snap, L)
  BY LaunchOK
<1> HIDE DEF n
<1>3. L \subseteq Waiting(s) /\ L \cap s.running = {}
  BY <1>1 DEF SchedulerOK, Waiting
<1>4. CASE L = {}
  <2>1. L \cap FailFast = {}
    BY <1>4
  <2>2. Launch(s, L) = [s EXCEPT !.snap = s.snap, !.runnable = s.runnable,
                                 !.failed = s.failed, !.running = s.running]
    <3>1. [t \in Task |-> IF t \in L \cap FailFast THEN "failed"
                          ELSE IF t \in L THEN "running" ELSE s.snap[t]] = s.snap
      BY <1>1, <1>4 DEF Scheduler
    <3>2. /\ s.runnable \ L = s.runnable /\ s.failed \cup (L \cap FailFast) = s.failed
          /\ s.running \cup (L \ (L \cap FailFast)) = s.running
      BY <1>4
    <3> QED
      BY <2>1, <3>1, <3>2 DEF Launch
  <2> QED
    BY <1>1, <2>2 DEF Scheduler
<1>5. CASE L # {}
  <2>1. Waiting(n) = Waiting(s) \ L
    BY <1>2 DEF Waiting, LaunchRows
  <2>2. IsFiniteSet(L) /\ Cardinality(L) \in Nat /\ Cardinality(L) # 0
    BY <1>3, <1>5, FuelParts, FS_Subset, FS_CardinalityType, FS_EmptySet
  <2>3. Cardinality(Waiting(n)) = Cardinality(Waiting(s)) - Cardinality(L)
    <3>1. Waiting(s) \cap L = L
      BY <1>3
    <3>2. Cardinality(Waiting(s) \ L) = Cardinality(Waiting(s)) - Cardinality(Waiting(s) \cap L)
      BY FuelParts, FS_Difference
    <3> QED
      BY <2>1, <3>1, <3>2
  <2>4. Cardinality(n.running) <= Cardinality(s.running) + Cardinality(L)
    <3>1. n.running \subseteq s.running \cup L
      BY <1>2
    <3>2. /\ IsFiniteSet(s.running \cup L)
          /\ Cardinality(s.running \cup L)
               = Cardinality(s.running) + Cardinality(L) - Cardinality(s.running \cap L)
      BY <2>2, FuelParts, FS_Union
    <3>3. Cardinality(s.running \cap L) = 0
      <4>1. s.running \cap L = {}
        BY <1>3
      <4> QED
        BY <4>1, FS_EmptySet
    <3>4. Cardinality(n.running) <= Cardinality(s.running \cup L)
      BY <3>1, <3>2, FS_Subset
    <3> QED
      BY <2>2, <3>2, <3>3, <3>4, FuelParts
  <2> DEFINE w == Cardinality(Waiting(s))  nw == Cardinality(Waiting(n))  k == Cardinality(L)
             f == Cardinality(s.running)   nf == Cardinality(n.running)
             c == IF s.loop = "polling" THEN 1 ELSE 0
  <2>5. w \in Nat /\ nw \in Nat /\ k \in Nat /\ f \in Nat /\ nf \in Nat /\ c \in Nat /\ k # 0
    BY <1>2, <2>2, FuelParts
  <2>6. Fuel(s) = 1 + c + 2 * w + f /\ Fuel(n) = 1 + c + 2 * nw + nf
    BY <1>2 DEF Fuel
  <2>7. nw = w - k /\ nf <= f + k
    BY <2>3, <2>4
  <2> HIDE DEF w, nw, k, f, nf, c
  <2>8. Fuel(n) < Fuel(s)
    BY <2>5, <2>6, <2>7
  <2> QED
    BY <2>8 DEF n
<1> QED
  BY <1>4, <1>5

LEMMA EndUsesFuel ==
  ASSUME NEW s, SchedulerOK(s), s.loop # "none", NEW t \in s.running,
         NEW n \in {Complete(s, t), Fail(s, t)}
  PROVE  Fuel(n) < Fuel(s)
<1>1. t \in Task /\ s.snap[t] = "running" /\ s.snap \in [Task -> RowStatus]
  BY DEF SchedulerOK, Scheduler
<1>2. /\ SchedulerOK(n) /\ n.loop = s.loop /\ n.running = s.running \ {t}
      /\ \/ n.snap = [s.snap EXCEPT ![t] = "completed"]
         \/ n.snap = [s.snap EXCEPT ![t] = "failed"]
  BY CompleteOK, FailOK
<1>3. Waiting(n) = Waiting(s)
  BY <1>1, <1>2 DEF Waiting
<1>4. Cardinality(n.running) = Cardinality(s.running) - 1
  BY <1>2, FuelParts, FS_RemoveElement
<1> QED
  BY <1>2, <1>3, <1>4, FuelParts DEF Fuel

(* Everything that changes a scheduler uses up some of the fuel that it was *)
(* set up with, which nothing refills: its loop takes finitely many turns   *)
(* that are not idle, and its closures end finitely often, for any client.  *)
(* With LoopCanAct this is why a loop whose timer fires ends or stalls.     *)
THEOREM SchedulersRunDown ==
  Spec => [][\A r \in Run : run[r].loop # "none" =>
               run'[r] = run[r] \/ Fuel(run'[r]) < Fuel(run[r])]_vars
<1>1. ASSUME IInv, [Next]_vars, NEW r \in Run, run[r].loop # "none"
      PROVE  run'[r] = run[r] \/ Fuel(run'[r]) < Fuel(run[r])
  <2> DEFINE s == run[r]
             n == run'[r]
  <2>1. SchedulerOK(s) /\ n \in Successors(s)
    BY <1>1, SlotSteps DEF IInv
  <2>2. CASE n = NoRun
    <3>1. Fuel(n) = 0
      BY <2>2 DEF Fuel, NoRun
    <3> QED
      BY <1>1, <2>1, <3>1, FuelParts
  <2>3. CASE n = [s EXCEPT !.loop = "over"]
    <3>1. s \in Scheduler
      BY <2>1 DEF SchedulerOK
    <3>2. s.loop = "over" => n = s
      BY <2>3, <3>1 DEF Scheduler
    <3>3. n.loop = "over" /\ n.snap = s.snap /\ n.running = s.running
      BY <2>3, <3>1 DEF Scheduler
    <3>4. Waiting(n) = Waiting(s)
      BY <3>3 DEF Waiting
    <3>5. s.loop = "polling" => Fuel(n) < Fuel(s)
      BY <2>1, <3>3, <3>4, FuelParts DEF Fuel
    <3>6. s.loop \in {"polling", "over"}
      BY <1>1, <3>1 DEF Scheduler
    <3> QED
      BY <3>2, <3>5, <3>6
  <2>4. ASSUME NEW L \in Launchable(s), n = Launch(s, L) PROVE n = s \/ Fuel(n) < Fuel(s)
    BY <1>1, <2>1, <2>4, LaunchUsesFuel
  <2>5. ASSUME NEW t \in s.running, n \in {Complete(s, t), Fail(s, t)} PROVE Fuel(n) < Fuel(s)
    BY <1>1, <2>1, <2>5, EndUsesFuel
  <2>6. \/ n \in {NoRun, s, [s EXCEPT !.loop = "over"]}
        \/ \E L \in Launchable(s) : n = Launch(s, L)
        \/ \E t \in s.running : n \in {Complete(s, t), Fail(s, t)}
    BY <2>1 DEF Successors
  <2> QED
    BY <2>2, <2>3, <2>4, <2>5, <2>6
<1>2. IInv /\ [Next]_vars => [\A r \in Run : run[r].loop # "none" =>
               run'[r] = run[r] \/ Fuel(run'[r]) < Fuel(run[r])]_vars
  BY <1>1
<1> QED
  BY <1>2, InitIInv, NextIInv, PTL DEF Spec

-----------------------------------------------------------------------------
(* Liveness.  The timer of a loop fires, unless there is nothing that a turn *)
(* must do; a closure in flight ends.                                        *)

\* A turn changes something whatever the session's status is.
MustTurn(s) ==
  /\ s.loop = "polling"
  /\ AllSettled(s) \/ {} \notin Launchable(s)

LoopTurns(r) == []<>~MustTurn(run[r]) \/ []<><<Turn(r)>>_vars

ClosureEnds(r, t) == []<>(t \notin run[r].running) \/ []<><<TaskEnds(r, t)>>_vars

\* Fairness says no less, as such a turn, and the end of what is in flight, are
\* always possible.
LEMMA FairSchedulers ==
  ASSUME NEW r \in Run, NEW t \in Task
  PROVE  /\ WF_vars(Turn(r)) /\ [](MustTurn(run[r]) => ENABLED <<Turn(r)>>_vars)
         /\ WF_vars(TaskEnds(r, t)) /\ [](t \in run[r].running => ENABLED <<TaskEnds(r, t)>>_vars)
         => LoopTurns(r) /\ ClosureEnds(r, t)
<1>1. t \notin run[r].running <=> ~(t \in run[r].running)
  OBVIOUS
<1> QED
  BY <1>1, PTL DEF LoopTurns, ClosureEnds

LEMMA TurnChanges ==
  ASSUME IInv, NEW r \in Run, MustTurn(run[r]), Turn(r)
  PROVE  run'[r] # run[r]
<1> DEFINE s == run[r]
<1>1. run \in [Run -> Scheduler] /\ SchedulerOK(s) /\ s \in Scheduler
  BY DEF IInv, TypeOK
<1>2. CASE Finish(r)
  <2>1. run'[r] = Collect([s EXCEPT !.loop = "over"])
    BY <1>1, <1>2 DEF Finish
  <2>2. [s EXCEPT !.loop = "over"].loop = "over" /\ NoRun.loop = "none"
    BY <1>1 DEF Scheduler, NoRun
  <2>3. run'[r].loop \in {"over", "none"}
    BY <2>1, <2>2 DEF Collect
  <2> QED
    BY <2>3 DEF MustTurn
<1>3. CASE Poll(r)
  <2>1. PICK L \in Launchable(s) : run'[r] = Launch(s, L)
    BY <1>1, <1>3 DEF Poll
  <2>2. L # {}
    BY <1>3, <2>1 DEF MustTurn, Poll
  <2>3. PICK t \in L : TRUE
    BY <2>2
  <2>4. t \in Task /\ s.snap[t] = "waiting"
    BY <1>1, OrderlyScheduler DEF Launchable
  <2>5. run'[r].snap = LaunchRows(s.snap, L)
    BY <1>1, <2>1, LaunchOK
  <2>6. run'[r].snap[t] # "waiting"
    BY <2>3, <2>4, <2>5 DEF LaunchRows
  <2> QED
    BY <2>4, <2>6
<1> QED
  BY <1>2, <1>3 DEF Turn

LEMMA EndFreesSlot ==
  ASSUME NEW s, SchedulerOK(s), NEW t \in s.running, NEW n \in {Complete(s, t), Fail(s, t)}
  PROVE  n.running = s.running \ {t}
<1>1. Complete(s, t).running = s.running \ {t}
  BY CompleteOK
<1>2. Fail(s, t).running = s.running \ {t}
  BY FailOK
<1> QED
  BY <1>1, <1>2

LEMMA EndChanges ==
  ASSUME IInv, NEW r \in Run, NEW t \in Task, TaskEnds(r, t)
  PROVE  run'[r] # run[r]
<1> DEFINE s == run[r]
<1>1. run \in [Run -> Scheduler] /\ SchedulerOK(s) /\ t \in s.running
  BY DEF IInv, TypeOK, TaskEnds, TaskCompletes, TaskTimesOut
<1>2. PICK n \in {Complete(s, t), Fail(s, t)} : run'[r] = Collect(n)
  BY <1>1 DEF TaskEnds, TaskCompletes, TaskTimesOut
<1>3. n.running = s.running \ {t}
  <2> HIDE DEF s
  <2> QED
    BY <1>1, <1>2, EndFreesSlot
<1>4. NoRun.running = {}
  BY DEF NoRun
<1>5. t \notin run'[r].running
  BY <1>2, <1>3, <1>4 DEF Collect
<1> QED
  BY <1>1, <1>5

(* No loop stands still: it leaves every state in which it polls and is not *)
(* stalled, for any tasks, graph, limit and client, if its timer fires and  *)
(* the closures in flight end.  As each change uses up fuel                 *)
(* (SchedulersRunDown), it leaves finitely many before it ends or stalls    *)
(* (execution_intelligence.ts:161).                                         *)
THEOREM LoopsMoveOn ==
  ASSUME NEW r \in Run, NEW s, s.loop = "polling", ~Stalled(s)
  PROVE  Spec /\ LoopTurns(r) /\ (\A t \in Task : ClosureEnds(r, t)) =>
           (run[r] = s ~> run[r] # s)
<1>0. run[r] # s <=> ~(run[r] = s)
  OBVIOUS
<1>1. CASE MustTurn(s)
  <2>1. run[r] = s => MustTurn(run[r])
    BY <1>1
  <2>2. IInv /\ run[r] = s /\ <<Turn(r)>>_vars => ~(run[r] = s)'
    BY <1>1, TurnChanges
  <2>3. Spec /\ LoopTurns(r) => (run[r] = s ~> run[r] # s)
    BY <1>0, <2>1, <2>2, InitIInv, NextIInv, PTL DEF Spec, LoopTurns
  <2> QED
    BY <2>3
<1>2. CASE ~MustTurn(s) /\ \E t \in Task : t \in s.running
  <2>1. PICK t \in Task : t \in s.running
    BY <1>2
  <2>2. run[r] = s => ~(t \notin run[r].running)
    BY <2>1
  <2>3. IInv /\ run[r] = s /\ <<TaskEnds(r, t)>>_vars => ~(run[r] = s)'
    BY EndChanges
  <2>4. Spec /\ ClosureEnds(r, t) => (run[r] = s ~> run[r] # s)
    BY <1>0, <2>2, <2>3, InitIInv, NextIInv, PTL DEF Spec, ClosureEnds
  <2> QED
    BY <2>4
<1>3. CASE ~MustTurn(s) /\ ~\E t \in Task : t \in s.running
  <2>1. IInv /\ run[r] = s => FALSE
    <3> SUFFICES ASSUME IInv, run[r] = s PROVE FALSE
      OBVIOUS
    <3>1. SchedulerOK(s) /\ s.running \in SUBSET Task
      BY DEF IInv, SchedulerOK, Scheduler
    <3>2. ~AllSettled(s) /\ {} \in Launchable(s)
      BY <1>3 DEF MustTurn
    <3> QED
      BY <1>3, <3>1, <3>2, IdleTurnHasCause
  <2>2. Spec => (run[r] = s ~> run[r] # s)
    BY <2>1, InitIInv, NextIInv, PTL DEF Spec
  <2> QED
    BY <2>2
<1> QED
  BY <1>1, <1>2, <1>3

=============================================================================
