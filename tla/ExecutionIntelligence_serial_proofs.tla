----------------- MODULE ExecutionIntelligence_serial_proofs -----------------
(***************************************************************************)
(* Theorems about ExecutionIntelligence under a serial client: one that    *)
(* never has two loops polling, restores no checkpoint and edits no graph  *)
(* that has been started.  Closures of paused loops, retries, skips,       *)
(* cancellations and crashes remain, for any number of schedulers.         *)
(***************************************************************************)
EXTENDS ExecutionIntelligence_proofs

Polling(r) == run[r].loop = "polling"

(* What is needed to see that a scheduler's snapshot is not stale: nothing  *)
(* lives before the first start, a task in flight anywhere is running in    *)
(* the database, and one loop polls at most, on the current graph.          *)
FreshGraph ==
  session \in {"absent", "created"} =>
    /\ \A r \in Run : ~Polling(r) /\ run[r].running = {}
    /\ \A t \in Task : row[t] \in {"absent", "waiting"}

InFlightRows == \A r \in Run : \A t \in run[r].running : row[t] = "running"

OnePolling == \A r, q \in Run : Polling(r) /\ Polling(q) => r = q

KnownDependents == \A e \in deps : row[e[1]] # "absent"

CurrentEdges == \A r \in Run : Polling(r) => run[r].edges = deps

SInv ==
  /\ FreshGraph
  /\ InFlightRows
  /\ NoDoubleExecution
  /\ OnePolling
  /\ KnownDependents
  /\ CurrentEdges
  /\ SnapshotCoherent
  /\ RowsRespectDependencies

-----------------------------------------------------------------------------
LEMMA InitSInv == Init => SInv
<1> SUFFICES ASSUME Init PROVE SInv
  OBVIOUS
<1>1. \A r \in Run : ~Polling(r) /\ run[r].running = {}
  BY DEF Init, NoRun, Polling
<1>2. \A t \in Task : row[t] = "absent"
  BY DEF Init
<1>3. deps = {}
  BY DEF Init
<1>4. FreshGraph /\ InFlightRows /\ NoDoubleExecution /\ OnePolling /\ KnownDependents /\ CurrentEdges
  BY <1>1, <1>2, <1>3 DEF FreshGraph, InFlightRows, NoDoubleExecution, OnePolling,
     KnownDependents, CurrentEdges
<1>5. SnapshotCoherent /\ RowsRespectDependencies
  BY <1>1, <1>2 DEF SnapshotCoherent, RowsRespectDependencies, Polling
<1>6. QED
  BY <1>4, <1>5 DEF SInv

\* Rows in which nothing has started before its prerequisites completed.
Respects(rows, D) ==
  \A t \in Task : rows[t] \in {"running", "completed", "failed"} =>
    \A d \in Prerequisites(D, t) : rows[d] = "completed"

\* Tasks that may be launched from the rows.
Startable(L, rows, D) ==
  \A t \in L : rows[t] = "waiting" /\ \A d \in Prerequisites(D, t) : rows[d] = "completed"

(* What a start needs of the rows it begins with: tasks in flight are left  *)
(* running, dependencies are respected and no task appears or vanishes.     *)
Fit(rows) ==
  /\ rows \in [Task -> RowStatus]
  /\ \A r \in Run : \A t \in run[r].running : rows[t] = "running"
  /\ Respects(rows, deps)
  /\ \A t \in Task : rows[t] = "absent" <=> row[t] = "absent"

LEMMA CurrentRowsFit == IInv /\ SInv => Fit(row)
BY DEF IInv, TypeOK, SInv, Fit, InFlightRows, RowsRespectDependencies, Respects

(* Failed tasks may be reset: nothing that started depends on them.        *)
LEMMA ResetRowsFit ==
  ASSUME IInv, SInv, NEW status \in {"waiting", "completed"}
  PROVE  Fit([t \in Task |-> IF t \in Failed THEN status ELSE row[t]])
<1> DEFINE rows == [t \in Task |-> IF t \in Failed THEN status ELSE row[t]]
<1>1. row \in [Task -> RowStatus] /\ deps \in SUBSET Edge
  BY DEF IInv, TypeOK
<1>2. rows \in [Task -> RowStatus]
  BY <1>1 DEF RowStatus, TaskStatus
<1>3. \A r \in Run : run[r].running \subseteq Task
  BY DEF IInv, TypeOK, Scheduler
<1>4. \A r \in Run : \A t \in run[r].running : rows[t] = "running"
  BY <1>3 DEF SInv, InFlightRows, Failed
<1>5. ASSUME NEW t \in Task, rows[t] \in {"running", "completed", "failed"},
             NEW d \in Prerequisites(deps, t)
      PROVE  rows[d] = "completed"
  <2>1. d \in Task
    BY <1>1, PrerequisitesFinite
  <2>2. row[t] \in {"running", "completed", "failed"}
    BY <1>5 DEF Failed
  <2>3. row[d] = "completed"
    BY <2>2 DEF SInv, RowsRespectDependencies
  <2>4. QED
    BY <2>1, <2>3 DEF Failed
<1>6. \A t \in Task : rows[t] = "absent" <=> row[t] = "absent"
  BY DEF Failed
<1>7. QED
  BY <1>2, <1>4, <1>5, <1>6 DEF Fit, Respects

(* A set of tasks launched from rows that all wait, with every              *)
(* prerequisite completed, leaves the dependencies respected.               *)
LEMMA LaunchRespects ==
  ASSUME NEW rows \in [Task -> RowStatus], NEW D \in SUBSET Edge, NEW L \in SUBSET Task,
         Respects(rows, D), Startable(L, rows, D)
  PROVE  /\ Respects(LaunchRows(rows, L), D)
         /\ \A t \in Task : rows[t] # "waiting" => LaunchRows(rows, L)[t] = rows[t]
         /\ \A t \in Task : LaunchRows(rows, L)[t] = "absent" <=> rows[t] = "absent"
         /\ \A t \in L \ FailFast : LaunchRows(rows, L)[t] = "running"
<1>1. \A t \in Task : rows[t] # "waiting" => LaunchRows(rows, L)[t] = rows[t]
  BY DEF LaunchRows, Startable
<1>2. \A t \in Task : LaunchRows(rows, L)[t] = "absent" <=> rows[t] = "absent"
  BY DEF LaunchRows, Startable
<1>3. \A t \in L \ FailFast : LaunchRows(rows, L)[t] = "running"
  BY DEF LaunchRows
<1>4. ASSUME NEW t \in Task, LaunchRows(rows, L)[t] \in {"running", "completed", "failed"},
             NEW d \in Prerequisites(D, t)
      PROVE  LaunchRows(rows, L)[d] = "completed"
  <2>1. d \in Task
    BY PrerequisitesFinite
  <2>2. t \in L \/ rows[t] \in {"running", "completed", "failed"}
    BY <1>4 DEF LaunchRows
  <2>3. rows[d] = "completed"
    BY <2>2 DEF Respects, Startable
  <2>4. QED
    BY <1>1, <2>1, <2>3
<1>5. QED
  BY <1>1, <1>2, <1>3, <1>4 DEF Respects

(* What an orderly scheduler launches waits in its snapshot, with every     *)
(* prerequisite completed there.                                            *)
LEMMA LaunchableReady ==
  ASSUME NEW s, SchedulerOK(s), NEW L \in Launchable(s)
  PROVE  L \in SUBSET Task /\ Startable(L, s.snap, s.edges)
<1>1. L \subseteq s.runnable
  BY DEF Launchable
<1>2. \A t \in L : t \in Task /\ s.snap[t] = "waiting" /\ PrerequisitesMet(s, t)
  BY <1>1, OrderlyScheduler
<1>3. \A t \in L : \A d \in Prerequisites(s.edges, t) : s.snap[d] = "completed"
  BY <1>2 DEF PrerequisitesMet, SchedulerOK
<1>4. QED
  BY <1>2, <1>3 DEF Startable

-----------------------------------------------------------------------------
(* A start on fitting rows: no other loop polls, so the new scheduler is    *)
(* the only one with a snapshot to keep current.                            *)
LEMMA StartOnSInv ==
  ASSUME SerialClient, IInv, SInv, NEW rows, Fit(rows), StartOn(rows), UNCHANGED deps
  PROVE  SInv'
<1> DEFINE E == {e \in deps : rows[e[1]] # "absent"}
           s == NewScheduler(rows, E)
           cyclic == HasCycle({t \in Task : rows[t] # "absent"}, E)
<1>1. /\ deps \in SUBSET Edge /\ run \in [Run -> Scheduler]
      /\ \A r \in Run : ~Polling(r)
      /\ session' \notin {"absent", "created"}
  BY DEF IInv, TypeOK, StartOn, SerialClient, Polling, FinalStatus
<1>2. E = deps
  <2>1. \A e \in deps : e[1] \in Task
    BY <1>1, EdgeAssumption
  <2>2. QED
    BY <2>1 DEF SInv, KnownDependents, Fit
<1>3. FreshGraph'
  BY <1>1 DEF FreshGraph
<1>4. \A e \in deps : e[1] \in Task /\ rows[e[1]] # "absent"
  BY <1>1, <1>2, EdgeAssumption
<1>5. CASE UNCHANGED run /\ row' = rows
  <2>1. \A r \in Run : ~Polling(r)'
    BY <1>1, <1>5 DEF Polling
  <2>2. InFlightRows' /\ NoDoubleExecution' /\ RowsRespectDependencies'
    BY <1>5 DEF Fit, SInv, InFlightRows, NoDoubleExecution, RowsRespectDependencies, Respects
  <2>3. OnePolling' /\ CurrentEdges' /\ SnapshotCoherent'
    BY <2>1 DEF OnePolling, CurrentEdges, SnapshotCoherent, Polling
  <2>4. KnownDependents'
    BY <1>4, <1>5 DEF KnownDependents
  <2>5. QED
    BY <1>3, <2>2, <2>3, <2>4 DEF SInv
<1>6. CASE /\ ~cyclic
           /\ \E r \in Run, L \in Launchable(s) :
                /\ run' = [run EXCEPT ![r] = Launch(s, L)]
                /\ row' = LaunchRows(rows, L)
  <2>1. PICK r \in Run, L \in Launchable(s) :
          run' = [run EXCEPT ![r] = Launch(s, L)] /\ row' = LaunchRows(rows, L)
    BY <1>6
  <2>2. /\ SchedulerOK(s) /\ s.snap = rows /\ s.edges = deps /\ s.running = {}
        /\ s.loop = "polling"
    <3>1. /\ rows \in [Task -> RowStatus]
          /\ ~HasCycle({t \in Task : rows[t] # "absent"}, deps)
          /\ s = NewScheduler(rows, deps)
      BY <1>2, <1>6 DEF Fit
    <3> HIDE DEF s
    <3>2. QED
      BY <1>1, <3>1, NewSchedulerOK
  <2> HIDE DEF s
  <2> DEFINE new == Launch(s, L)
  <2>3. /\ new.loop = "polling" /\ new.edges = deps
        /\ new.running = L \ FailFast
        /\ new.snap = row'
    <3>1. /\ new.loop = s.loop /\ new.edges = s.edges
          /\ new.running = s.running \cup (L \ FailFast)
          /\ new.snap = LaunchRows(s.snap, L)
      BY <2>2, LaunchOK
    <3> HIDE DEF new
    <3>2. QED
      BY <2>1, <2>2, <3>1
  <2>4. L \in SUBSET Task /\ Startable(L, rows, deps)
    BY <2>2, LaunchableReady
  <2> HIDE DEF new
  <2>5. /\ Respects(row', deps)
        /\ \A t \in Task : rows[t] # "waiting" => row'[t] = rows[t]
        /\ \A t \in Task : row'[t] = "absent" <=> rows[t] = "absent"
        /\ \A t \in L \ FailFast : row'[t] = "running"
    BY <1>1, <2>1, <2>4, LaunchRespects DEF Fit
  <2>6. /\ run'[r] = new
        /\ \A q \in Run : q # r => run'[q] = run[q]
    BY <1>1, <2>1 DEF new
  <2>7. InFlightRows'
    <3>1. ASSUME NEW q \in Run, NEW t \in run'[q].running PROVE row'[t] = "running"
      <4>1. CASE q = r
        BY <2>3, <2>5, <2>6, <4>1
      <4>2. CASE q # r
        <5>1. t \in Task /\ rows[t] = "running"
          BY <1>1, <2>6, <3>1, <4>2 DEF Fit, Scheduler
        <5>2. QED
          BY <2>5, <5>1
      <4>3. QED
        BY <4>1, <4>2
    <3>2. QED
      BY <3>1 DEF InFlightRows
  <2>8. NoDoubleExecution'
    <3>1. \A q \in Run : q # r => run[q].running \cap L = {}
      BY <2>4 DEF Fit, Startable
    <3>2. QED
      BY <2>3, <2>6, <3>1 DEF SInv, NoDoubleExecution
  <2>9. \A q \in Run : Polling(q)' => q = r
    BY <1>1, <2>6 DEF Polling
  <2>10. OnePolling' /\ CurrentEdges' /\ SnapshotCoherent'
    BY <2>3, <2>6, <2>9 DEF OnePolling, CurrentEdges, SnapshotCoherent, Polling
  <2>11. KnownDependents'
    BY <1>4, <2>5 DEF KnownDependents
  <2>12. RowsRespectDependencies'
    BY <2>5 DEF RowsRespectDependencies, Respects
  <2>13. QED
    BY <1>3, <2>7, <2>8, <2>10, <2>11, <2>12 DEF SInv
<1>7. QED
  BY <1>5, <1>6 DEF StartOn

(* A turn of the one loop that polls decides on a snapshot that agrees with *)
(* the rows about every task that waits or is completed.                    *)
LEMMA PollSInv ==
  ASSUME IInv, SInv, NEW r \in Run, Poll(r)
  PROVE  SInv'
<1>1. PICK L \in Launchable(run[r]) :
        run' = [run EXCEPT ![r] = Launch(run[r], L)] /\ row' = LaunchRows(row, L)
  BY DEF Poll
<1>2. /\ Polling(r) /\ UNCHANGED <<session, deps>>
      /\ deps \in SUBSET Edge /\ run \in [Run -> Scheduler] /\ row \in [Task -> RowStatus]
      /\ SchedulerOK(run[r]) /\ run[r].edges = deps
      /\ \A t \in Task : run[r].snap[t] # "running" => run[r].snap[t] = row[t]
  BY DEF Poll, Polling, IInv, TypeOK, SInv, CurrentEdges, SnapshotCoherent
<1> DEFINE new == Launch(run[r], L)
<1>3. /\ new.loop = "polling" /\ new.edges = deps
      /\ new.running = run[r].running \cup (L \ FailFast)
      /\ new.snap = LaunchRows(run[r].snap, L)
  BY <1>2, LaunchOK DEF Polling
<1>4. L \in SUBSET Task /\ Startable(L, row, deps)
  <2>1. L \in SUBSET Task /\ Startable(L, run[r].snap, deps)
    BY <1>2, LaunchableReady
  <2>2. \A t \in L : \A d \in Prerequisites(deps, t) : d \in Task
    BY <1>2, <2>1, PrerequisitesFinite
  <2>3. \A t \in L : row[t] = "waiting"
    BY <1>2, <2>1 DEF Startable
  <2>4. \A t \in L : \A d \in Prerequisites(deps, t) : row[d] = "completed"
    BY <1>2, <2>1, <2>2 DEF Startable
  <2>5. QED
    BY <2>1, <2>3, <2>4 DEF Startable
<1> HIDE DEF new
<1>5. /\ Respects(row', deps)
      /\ \A t \in Task : row[t] # "waiting" => row'[t] = row[t]
      /\ \A t \in Task : row'[t] = "absent" <=> row[t] = "absent"
      /\ \A t \in L \ FailFast : row'[t] = "running"
  <2>1. Respects(row, deps)
    BY DEF SInv, RowsRespectDependencies, Respects
  <2>2. QED
    BY <1>1, <1>2, <1>4, <2>1, LaunchRespects
<1>6. run'[r] = new /\ \A q \in Run : q # r => run'[q] = run[q]
  BY <1>1, <1>2 DEF new
<1>7. \A q \in Run : \A t \in run[q].running : t \in Task /\ row[t] = "running"
  BY <1>2 DEF SInv, InFlightRows, Scheduler
<1>8. FreshGraph'
  <2>1. session \notin {"absent", "created"}
    BY <1>2 DEF SInv, FreshGraph
  <2>2. QED
    BY <1>2, <2>1 DEF FreshGraph
<1>9. InFlightRows'
  <2>1. ASSUME NEW q \in Run, NEW t \in run'[q].running PROVE row'[t] = "running"
    <3>1. t \in run[q].running \/ t \in L \ FailFast
      BY <1>3, <1>6, <2>1
    <3>2. QED
      BY <1>5, <1>7, <3>1
  <2>2. QED
    BY <2>1 DEF InFlightRows
<1>10. NoDoubleExecution'
  <2>1. \A q \in Run : run[q].running \cap L = {}
    BY <1>4, <1>7 DEF Startable
  <2>2. QED
    BY <1>3, <1>6, <2>1 DEF SInv, NoDoubleExecution
<1>11. \A q \in Run : Polling(q)' => q = r
  BY <1>2, <1>6 DEF SInv, OnePolling, Polling
<1>12. OnePolling' /\ CurrentEdges'
  BY <1>2, <1>3, <1>6, <1>11 DEF OnePolling, CurrentEdges, Polling
<1>13. SnapshotCoherent'
  <2>1. \A t \in Task : new.snap[t] # "running" => new.snap[t] = row'[t]
    BY <1>1, <1>2, <1>3 DEF LaunchRows
  <2>2. QED
    BY <1>6, <1>11, <2>1 DEF SnapshotCoherent, Polling
<1>14. KnownDependents'
  <2>1. \A e \in deps : e[1] \in Task
    BY <1>2, EdgeAssumption
  <2>2. QED
    BY <1>2, <1>5, <2>1 DEF KnownDependents, SInv
<1>15. RowsRespectDependencies'
  BY <1>2, <1>5 DEF RowsRespectDependencies, Respects
<1>16. QED
  BY <1>8, <1>9, <1>10, <1>12, <1>13, <1>14, <1>15 DEF SInv

(* The end of a closure: only the scheduler that launched the task, and the *)
(* task's own row, change; a polling loop of another scheduler has the task *)
(* as running, so its view stays current too.                               *)
LEMMA TaskEndsSInv ==
  ASSUME IInv, SInv, NEW r \in Run, NEW t \in run[r].running,
         NEW status \in {"completed", "failed"}, NEW s,
         s.loop = run[r].loop, s.edges = run[r].edges, s.running = run[r].running \ {t},
         s.snap = [run[r].snap EXCEPT ![t] = status],
         run' = [run EXCEPT ![r] = Collect(s)],
         row' = [row EXCEPT ![t] = status],
         UNCHANGED <<session, deps>>
  PROVE  SInv'
<1>1. /\ deps \in SUBSET Edge /\ run \in [Run -> Scheduler] /\ row \in [Task -> RowStatus]
      /\ \A q \in Run : SchedulerOK(run[q])
  BY DEF IInv, TypeOK
<1>2. /\ t \in Task /\ row[t] = "running"
      /\ run[r].snap \in [Task -> RowStatus] /\ run[r].snap[t] = "running"
  BY <1>1 DEF SInv, InFlightRows, Scheduler, SchedulerOK
<1>3. /\ \A q \in Run : q # r => run'[q] = run[q]
      /\ run'[r].running = run[r].running \ {t}
      /\ Polling(r)' => /\ Polling(r)
                        /\ run'[r].edges = run[r].edges
                        /\ run'[r].snap = [run[r].snap EXCEPT ![t] = status]
  <2>1. Collect(s).running = s.running /\ (Collect(s).loop = "polling" => Collect(s) = s)
    BY DEF Collect, NoRun
  <2>2. run'[r] = Collect(s) /\ \A q \in Run : q # r => run'[q] = run[q]
    BY <1>1
  <2>3. QED
    BY <2>1, <2>2 DEF Polling
<1>4. \A q \in Run : q # r => t \notin run[q].running
  BY DEF SInv, NoDoubleExecution
<1>5. \A u \in Task : u # t => row'[u] = row[u]
  BY <1>1
<1>6. row'[t] = status
  BY <1>1, <1>2
<1>7. \A q \in Run : Polling(q)' => Polling(q)
  BY <1>3 DEF Polling
<1>8. FreshGraph'
  <2>1. session \notin {"absent", "created"}
    BY DEF SInv, FreshGraph
  <2>2. QED
    BY <2>1 DEF FreshGraph
<1>9. InFlightRows'
  <2>1. ASSUME NEW q \in Run, NEW u \in run'[q].running PROVE row'[u] = "running"
    <3>1. u # t /\ u \in run[q].running
      BY <1>3, <1>4, <2>1
    <3>2. u \in Task /\ row[u] = "running"
      BY <1>1, <3>1 DEF SInv, InFlightRows, Scheduler
    <3>3. QED
      BY <1>5, <3>1, <3>2
  <2>2. QED
    BY <2>1 DEF InFlightRows
<1>10. NoDoubleExecution'
  <2>1. \A q \in Run : run'[q].running \subseteq run[q].running
    BY <1>3
  <2>2. QED
    BY <2>1 DEF SInv, NoDoubleExecution
<1>11. OnePolling' /\ CurrentEdges'
  BY <1>3, <1>7 DEF SInv, OnePolling, CurrentEdges, Polling
<1>12. SnapshotCoherent'
  <2>1. ASSUME NEW q \in Run, NEW u \in Task, Polling(q)', run'[q].snap[u] # "running"
        PROVE  run'[q].snap[u] = row'[u]
    <3>1. \A v \in Task : run[q].snap[v] # "running" => run[q].snap[v] = row[v]
      BY <1>7, <2>1 DEF SInv, SnapshotCoherent, Polling
    <3>2. CASE q = r
      BY <1>2, <1>3, <1>5, <1>6, <2>1, <3>1, <3>2
    <3>3. CASE q # r
      <4>1. run'[q].snap = run[q].snap /\ u # t
        BY <1>2, <1>3, <2>1, <3>1, <3>3
      <4>2. QED
        BY <1>5, <2>1, <3>1, <4>1
    <3>4. QED
      BY <3>2, <3>3
  <2>2. QED
    BY <2>1 DEF SnapshotCoherent, Polling
<1>13. KnownDependents'
  <2>1. \A e \in deps : e[1] \in Task
    BY <1>1, EdgeAssumption
  <2>2. QED
    BY <1>5, <1>6, <2>1 DEF SInv, KnownDependents
<1>14. RowsRespectDependencies'
  <2>1. ASSUME NEW u \in Task, row'[u] \in {"running", "completed", "failed"},
               NEW d \in Prerequisites(deps, u)
        PROVE  row'[d] = "completed"
    <3>1. d \in Task
      BY <1>1, PrerequisitesFinite
    <3>2. row[u] \in {"running", "completed", "failed"}
      BY <1>2, <1>5, <2>1
    <3>3. row[d] = "completed"
      BY <3>2 DEF SInv, RowsRespectDependencies
    <3>4. QED
      BY <1>2, <1>5, <3>1, <3>3
  <2>2. QED
    BY <2>1 DEF RowsRespectDependencies
<1>15. QED
  BY <1>8, <1>9, <1>10, <1>11, <1>12, <1>13, <1>14 DEF SInv

(* A loop that ends, or a process that dies, only takes schedulers away.    *)
LEMMA FewerSchedulersSInv ==
  ASSUME IInv, SInv, run' \in [Run -> Scheduler],
         \A q \in Run : /\ run'[q].running \in {run[q].running, {}}
                        /\ Polling(q)' => run'[q] = run[q],
         UNCHANGED <<row, deps>>,
         session' = session \/ session' \notin {"absent", "created"}
  PROVE  SInv'
<1>1. \A q \in Run : Polling(q)' => Polling(q)
  BY DEF Polling
<1>2. FreshGraph'
  BY <1>1 DEF SInv, FreshGraph
<1>3. InFlightRows' /\ NoDoubleExecution'
  BY DEF SInv, InFlightRows, NoDoubleExecution
<1>4. OnePolling' /\ CurrentEdges' /\ SnapshotCoherent'
  BY <1>1 DEF SInv, OnePolling, CurrentEdges, SnapshotCoherent, Polling
<1>5. KnownDependents' /\ RowsRespectDependencies'
  BY DEF SInv, KnownDependents, RowsRespectDependencies
<1>6. QED
  BY <1>2, <1>3, <1>4, <1>5 DEF SInv

(* Building the graph, before anything has started.                        *)
LEMMA BuildSInv ==
  ASSUME SerialClient, IInv, SInv, GraphIsOpen, NEW t \in Task,
         row' = [row EXCEPT ![t] = "waiting"],
         deps' \subseteq deps \cup {e \in Edge : e[1] = t}, UNCHANGED <<session, run>>
  PROVE  SInv'
<1>1. session = "created"
  BY DEF GraphIsOpen, SerialClient
<1>2. /\ \A r \in Run : ~Polling(r) /\ run[r].running = {}
      /\ \A u \in Task : row[u] \in {"absent", "waiting"}
  BY <1>1 DEF SInv, FreshGraph
<1>3. row \in [Task -> RowStatus] /\ deps \in SUBSET Edge
  BY DEF IInv, TypeOK
<1>4. \A u \in Task : row'[u] \in {"absent", "waiting"} /\ (row[u] = "waiting" => row'[u] = "waiting")
  BY <1>2, <1>3
<1>5. KnownDependents'
  <2>1. ASSUME NEW e \in deps' PROVE row'[e[1]] # "absent"
    <3>1. e[1] \in Task
      BY <1>3, EdgeAssumption, <2>1
    <3>2. CASE e \in deps
      BY <1>2, <1>4, <3>1, <3>2 DEF SInv, KnownDependents
    <3>3. CASE e[1] = t
      BY <1>3, <3>3
    <3>4. QED
      BY <2>1, <3>2, <3>3
  <2>2. QED
    BY <2>1 DEF KnownDependents
<1>6. FreshGraph' /\ RowsRespectDependencies'
  BY <1>2, <1>4 DEF FreshGraph, RowsRespectDependencies, Polling
<1>7. /\ InFlightRows' /\ NoDoubleExecution' /\ OnePolling'
      /\ CurrentEdges' /\ SnapshotCoherent'
  BY <1>2 DEF InFlightRows, NoDoubleExecution, OnePolling, CurrentEdges, SnapshotCoherent, Polling
<1>8. QED
  BY <1>5, <1>6, <1>7 DEF SInv

LEMMA NextSInv ==
  ASSUME SerialClient, IInv, SInv, [Next]_vars
  PROVE  SInv'
<1>1. row \in [Task -> RowStatus] /\ deps \in SUBSET Edge /\ run \in [Run -> Scheduler]
  BY DEF IInv, TypeOK
<1>2. ASSUME run' = run, row' = row, deps' = deps,
             \/ session' = session
             \/ session' = "created" /\ session = "absent"
             \/ session' \notin {"absent", "created"}
      PROVE  SInv'
  BY <1>2 DEF SInv, FreshGraph, InFlightRows, NoDoubleExecution, OnePolling, KnownDependents,
     CurrentEdges, SnapshotCoherent, RowsRespectDependencies, Polling
<1>3. ASSUME UNCHANGED <<session, row, deps, run>> PROVE SInv'
  BY <1>3 DEF SInv, FreshGraph, InFlightRows, NoDoubleExecution, OnePolling, KnownDependents,
     CurrentEdges, SnapshotCoherent, RowsRespectDependencies, Polling
<1>4. CASE CreateExecution
  BY <1>2, <1>4 DEF CreateExecution
<1>5. ASSUME NEW t \in Task, AddTask(t) PROVE SInv'
  <2>1. /\ GraphIsOpen /\ row' = [row EXCEPT ![t] = "waiting"] /\ UNCHANGED <<session, run>>
        /\ deps' \subseteq deps \cup {e \in Edge : e[1] = t}
    BY <1>5 DEF AddTask
  <2>2. QED
    BY <2>1, BuildSInv
<1>6. ASSUME NEW e \in Edge, AddDependency(e) PROVE SInv'
  <2>1. e[1] \in Task /\ session = "created"
    BY <1>6, EdgeAssumption DEF AddDependency, GraphIsOpen, SerialClient
  <2>2. row[e[1]] = "waiting"
    BY <1>6, <2>1 DEF AddDependency, SInv, FreshGraph
  <2>3. row' = [row EXCEPT ![e[1]] = "waiting"]
    BY <1>1, <1>6, <2>2 DEF AddDependency
  <2>4. GraphIsOpen /\ deps' = deps \cup {e} /\ UNCHANGED <<session, run>>
    BY <1>6 DEF AddDependency
  <2>5. deps' \subseteq deps \cup {x \in Edge : x[1] = e[1]}
    BY <2>4
  <2>6. QED
    BY <2>1, <2>3, <2>4, <2>5, BuildSInv
<1>7. CASE StartExecution
  BY <1>7, CurrentRowsFit, StartOnSInv DEF StartExecution
<1>8. CASE PauseExecution
  BY <1>2, <1>8 DEF PauseExecution
<1>9. CASE ResumeExecution
  BY <1>9, CurrentRowsFit, StartOnSInv DEF ResumeExecution
<1>10. CASE CancelExecution
  BY <1>2, <1>10 DEF CancelExecution
<1>11. CASE RetryExecution
  <2> DEFINE rows == [t \in Task |-> IF t \in Failed THEN "waiting" ELSE row[t]]
  <2>1. StartOn(rows) /\ UNCHANGED deps
    BY <1>11 DEF RetryExecution
  <2>2. Fit(rows)
    BY ResetRowsFit
  <2> HIDE DEF rows
  <2>3. QED
    BY <2>1, <2>2, StartOnSInv
<1>12. CASE RecoverBySkip
  <2> DEFINE rows == [t \in Task |-> IF t \in Failed THEN "completed" ELSE row[t]]
  <2>1. StartOn(rows) /\ UNCHANGED deps
    BY <1>12 DEF RecoverBySkip
  <2>2. Fit(rows)
    BY ResetRowsFit
  <2> HIDE DEF rows
  <2>3. QED
    BY <2>1, <2>2, StartOnSInv
<1>13. CASE CreateCheckpoint
  BY <1>3, <1>13 DEF CreateCheckpoint
<1>14. ASSUME NEW i \in DOMAIN checkpoints, RestoreCheckpoint(i) PROVE SInv'
  BY <1>14 DEF RestoreCheckpoint, SerialClient
<1>15. ASSUME NEW r \in Run, Poll(r) PROVE SInv'
  BY <1>15, PollSInv
<1>16. ASSUME NEW r \in Run, Finish(r) PROVE SInv'
  <2> DEFINE over == [run[r] EXCEPT !.loop = "over"]
  <2>1. /\ run' = [run EXCEPT ![r] = Collect(over)] /\ UNCHANGED <<row, deps>>
        /\ session' \notin {"absent", "created"}
    BY <1>16 DEF Finish, FinalStatus
  <2>2. over.loop = "over" /\ over.running = run[r].running
    BY <1>1 DEF Scheduler
  <2> HIDE DEF over
  <2>3. Collect(over).loop # "polling" /\ Collect(over).running = run[r].running
    BY <2>2 DEF Collect, NoRun
  <2>4. \A q \in Run : /\ run'[q].running \in {run[q].running, {}}
                       /\ Polling(q)' => run'[q] = run[q]
    BY <1>1, <2>1, <2>3 DEF Polling
  <2>5. run' \in [Run -> Scheduler]
    BY NextIInv DEF IInv, TypeOK
  <2>6. QED
    BY <2>1, <2>4, <2>5, FewerSchedulersSInv
<1>17. ASSUME NEW r \in Run, NEW t \in Task, TaskCompletes(r, t) PROVE SInv'
  <2> DEFINE s == Complete(run[r], t)
  <2>1. t \in run[r].running /\ SchedulerOK(run[r])
    BY <1>17 DEF TaskCompletes, IInv
  <2>2. /\ s.loop = run[r].loop /\ s.edges = run[r].edges /\ s.running = run[r].running \ {t}
        /\ s.snap = [run[r].snap EXCEPT ![t] = "completed"]
    BY <2>1, CompleteOK
  <2>3. /\ run' = [run EXCEPT ![r] = Collect(s)] /\ row' = [row EXCEPT ![t] = "completed"]
        /\ UNCHANGED <<session, deps>>
    BY <1>17 DEF TaskCompletes
  <2> HIDE DEF s
  <2>4. QED
    BY <2>1, <2>2, <2>3, TaskEndsSInv
<1>18. ASSUME NEW r \in Run, NEW t \in Task, TaskTimesOut(r, t) PROVE SInv'
  <2> DEFINE s == Fail(run[r], t)
  <2>1. t \in run[r].running /\ SchedulerOK(run[r])
    BY <1>18 DEF TaskTimesOut, IInv
  <2>2. /\ s.loop = run[r].loop /\ s.edges = run[r].edges /\ s.running = run[r].running \ {t}
        /\ s.snap = [run[r].snap EXCEPT ![t] = "failed"]
    BY <2>1, FailOK
  <2>3. /\ run' = [run EXCEPT ![r] = Collect(s)] /\ row' = [row EXCEPT ![t] = "failed"]
        /\ UNCHANGED <<session, deps>>
    BY <1>18 DEF TaskTimesOut
  <2> HIDE DEF s
  <2>4. QED
    BY <2>1, <2>2, <2>3, TaskEndsSInv
<1>19. CASE Crash
  <2>1. \A q \in Run : run'[q].running = {} /\ ~Polling(q)'
    BY <1>19 DEF Crash, NoRun, Polling
  <2>2. run' \in [Run -> Scheduler] /\ UNCHANGED <<row, deps, session>>
    BY <1>19, NextIInv DEF IInv, TypeOK, Crash, db
  <2>3. QED
    BY <2>1, <2>2, FewerSchedulersSInv
<1>20. QED
  BY <1>3, <1>4, <1>5, <1>6, <1>7, <1>8, <1>9, <1>10, <1>11, <1>12, <1>13, <1>14, <1>15,
     <1>16, <1>17, <1>18, <1>19
  DEF Next, vars

-----------------------------------------------------------------------------
LEMMA SpecSInv ==
  ASSUME SerialClient
  PROVE  Spec => [](IInv /\ SInv)
<1>1. Init => IInv /\ SInv
  BY InitIInv, InitSInv
<1>2. IInv /\ SInv /\ [Next]_vars => (IInv /\ SInv)'
  BY NextIInv, NextSInv
<1>3. QED
  BY <1>1, <1>2, PTL DEF Spec

(* With a serial client a loop never decides on a stale view: what its      *)
(* snapshot says of a task is what the row says, across pauses, resumes,    *)
(* retries, skips and crashes.                                              *)
THEOREM ViewsStayFresh ==
  ASSUME SerialClient
  PROVE  Spec => []SnapshotCoherent
<1>1. SInv => SnapshotCoherent
  BY DEF SInv
<1>2. QED
  BY <1>1, SpecSInv, PTL

(* With a serial client no task runs twice at a time, although a scheduler  *)
(* is started while closures of a paused one are still in flight.           *)
THEOREM TasksRunOnce ==
  ASSUME SerialClient
  PROVE  Spec => []NoDoubleExecution
<1>1. SInv => NoDoubleExecution
  BY DEF SInv
<1>2. QED
  BY <1>1, SpecSInv, PTL

(* With a serial client no row says that a task has begun before the rows   *)
(* of its prerequisites say that they completed, whatever is paused,        *)
(* retried, skipped or lost in a crash.                                     *)
THEOREM RowsKeepOrder ==
  ASSUME SerialClient
  PROVE  Spec => []RowsRespectDependencies
<1>1. SInv => RowsRespectDependencies
  BY DEF SInv
<1>2. QED
  BY <1>1, SpecSInv, PTL

-----------------------------------------------------------------------------
(* What is written at the end of a loop.                                    *)

\* The loop's count is right: with as many completed and failed tasks as
\* there are, no task is anything else.
LEMMA SettledTasks ==
  ASSUME NEW rows \in [Task -> RowStatus],
         LET C == {t \in Task : rows[t] = "completed"}
             F == {t \in Task : rows[t] = "failed"}
         IN Cardinality(C) + Cardinality(F) >= Cardinality({t \in Task : rows[t] # "absent"}),
         FinalStatus(rows) = "completed"
  PROVE  \A t \in Task : rows[t] \in {"completed", "absent"}
<1> DEFINE C == {t \in Task : rows[t] = "completed"}
           F == {t \in Task : rows[t] = "failed"}
           K == {t \in Task : rows[t] # "absent"}
<1>1. F = {}
  BY DEF FinalStatus
<1>2. Cardinality(C) + Cardinality(F) >= Cardinality(K)
  OBVIOUS
<1>3. IsFiniteSet(K) /\ C \subseteq K
  BY TaskAssumption, FS_Subset
<1>4. Cardinality(C) >= Cardinality(K)
  <2>1. Cardinality(F) = 0
    BY <1>1, FS_EmptySet
  <2>2. Cardinality(C) \in Nat /\ Cardinality(K) \in Nat
    BY <1>3, FS_Subset, FS_CardinalityType
  <2> HIDE DEF C, F, K
  <2> QED
    BY <1>2, <2>1, <2>2
<1>5. C = K
  <2>1. Cardinality(C) <= Cardinality(K) /\ (Cardinality(C) = Cardinality(K) => C = K)
    BY <1>3, FS_Subset
  <2>2. Cardinality(C) \in Nat /\ Cardinality(K) \in Nat
    BY <1>3, FS_Subset, FS_CardinalityType
  <2> HIDE DEF C, K
  <2> QED
    BY <1>4, <2>1, <2>2
<1> QED
  BY <1>5

AllDone(rows) == \A t \in Task : rows[t] \in {"completed", "absent"}

\* A start that finds nothing to do.
LEMMA StartHonest ==
  ASSUME NEW rows \in [Task -> RowStatus], StartOn(rows), session' = "completed"
  PROVE  AllDone(row')
<1> DEFINE D == {e \in deps : rows[e[1]] # "absent"}
           s == NewScheduler(rows, D)
<1>1. AllSettled(s) /\ row' = rows /\ FinalStatus(rows) = "completed"
  BY DEF StartOn
<1>2. /\ s.completed = {t \in Task : rows[t] = "completed"}
      /\ s.failed = {t \in Task : rows[t] = "failed"}
      /\ Loaded(s) = {t \in Task : rows[t] # "absent"}
  BY DEF NewScheduler, UpdateRunnableQueue, Loaded
<1> HIDE DEF s
<1>3. Cardinality({t \in Task : rows[t] = "completed"}) + Cardinality({t \in Task : rows[t] = "failed"})
        >= Cardinality({t \in Task : rows[t] # "absent"})
  BY <1>1, <1>2 DEF AllSettled
<1> QED
  BY <1>1, <1>3, SettledTasks DEF AllDone

\* A loop that is not halted: its snapshot is not stale.
LEMMA FinishHonest ==
  ASSUME IInv, SInv, NEW r \in Run, Finish(r), session \notin Halted, session' = "completed"
  PROVE  AllDone(row')
<1>1. /\ AllSettled(run[r]) /\ row' = row /\ FinalStatus(row) = "completed"
      /\ Polling(r)
  BY DEF Finish, Polling
<1>2. /\ run[r] \in Scheduler
      /\ run[r].completed = {t \in Task : run[r].snap[t] = "completed"}
      /\ run[r].failed = {t \in Task : run[r].snap[t] = "failed"}
  BY DEF IInv, SchedulerOK
<1>3. run[r].snap \in [Task -> RowStatus]
  BY <1>2 DEF Scheduler
<1>4. \A t \in Task : run[r].snap[t] # "running" => run[r].snap[t] = row[t]
  BY <1>1 DEF SInv, SnapshotCoherent, Polling
<1>5. FinalStatus(run[r].snap) = "completed"
  BY <1>1, <1>4 DEF FinalStatus
<1>6. Cardinality({t \in Task : run[r].snap[t] = "completed"})
        + Cardinality({t \in Task : run[r].snap[t] = "failed"})
        >= Cardinality({t \in Task : run[r].snap[t] # "absent"})
  BY <1>1, <1>2 DEF AllSettled, Loaded
<1>7. AllDone(run[r].snap)
  BY <1>3, <1>5, <1>6, SettledTasks DEF AllDone
<1> QED
  BY <1>1, <1>4, <1>7 DEF AllDone

(* With a serial client, completed is written only over rows that are all   *)
(* completed, except by the loop that a pause or a cancellation ends.       *)
THEOREM CompletionIsHonest ==
  ASSUME SerialClient
  PROVE  Spec => HonestCompletion
<1> DEFINE Marked == session # "completed" /\ session' = "completed" /\ ~HaltedLoopEnds
<1>1. ASSUME IInv, SInv, [Next]_vars, Marked PROVE AllDone(row')
  <2>1. row \in [Task -> RowStatus]
    BY <1>1 DEF IInv, TypeOK
  <2>2. CASE StartExecution \/ ResumeExecution
    BY <2>1, <2>2, <1>1, StartHonest DEF StartExecution, ResumeExecution
  <2>3. CASE RetryExecution
    <3> DEFINE rows == [t \in Task |-> IF t \in Failed THEN "waiting" ELSE row[t]]
    <3>1. StartOn(rows) /\ rows \in [Task -> RowStatus]
      BY <2>1, <2>3 DEF RetryExecution, RowStatus, TaskStatus
    <3> HIDE DEF rows
    <3> QED
      BY <1>1, <3>1, StartHonest
  <2>4. CASE RecoverBySkip
    <3> DEFINE rows == [t \in Task |-> IF t \in Failed THEN "completed" ELSE row[t]]
    <3>1. StartOn(rows) /\ rows \in [Task -> RowStatus]
      BY <2>1, <2>4 DEF RecoverBySkip, RowStatus, TaskStatus
    <3> HIDE DEF rows
    <3> QED
      BY <1>1, <3>1, StartHonest
  <2>5. ASSUME NEW r \in Run, Finish(r) PROVE AllDone(row')
    <3>1. run[r].loop = "polling" /\ run'[r].loop # "polling"
      <4>1. run[r].loop = "polling" /\ run' = [run EXCEPT ![r] = Collect([@ EXCEPT !.loop = "over"])]
        BY <2>5 DEF Finish
      <4>2. run \in [Run -> Scheduler]
        BY <1>1 DEF IInv, TypeOK
      <4> QED
        BY <4>1, <4>2 DEF Collect, NoRun, Scheduler
    <3>2. session \notin Halted
      BY <1>1, <3>1 DEF HaltedLoopEnds
    <3> QED
      BY <1>1, <2>5, <3>2, FinishHonest
  <2>6. CASE UNCHANGED session
    BY <1>1, <2>6
  <2> QED
    BY <1>1, <2>2, <2>3, <2>4, <2>5, <2>6
    DEF Next, vars, db, CreateExecution, AddTask, AddDependency, PauseExecution, CancelExecution,
        CreateCheckpoint, RestoreCheckpoint, Poll, TaskCompletes, TaskTimesOut, Crash
<1>2. IInv /\ SInv /\ [Next]_vars =>
        [(session # "completed" /\ session' = "completed" /\ ~HaltedLoopEnds) =>
           \A t \in Task : row'[t] \in {"completed", "absent"}]_vars
  BY <1>1 DEF AllDone
<1>3. Init => IInv /\ SInv
  BY InitIInv, InitSInv
<1>4. IInv /\ SInv /\ [Next]_vars => (IInv /\ SInv)'
  BY NextIInv, NextSInv
<1> QED
  BY <1>2, <1>3, <1>4, PTL DEF Spec, HonestCompletion

-----------------------------------------------------------------------------
(* The refinement of DagExecution: every step is one of its steps.         *)
LEMMA StartRefines ==
  ASSUME NEW rows, NEW L \in SUBSET Task, Startable(L, rows, deps),
         row' = LaunchRows(rows, L), UNCHANGED deps
  PROVE  Dag!Start(rows)
<1> DEFINE F == L \cap FailFast
<1>1. L \in SUBSET Dag!Ready(rows)
  BY DEF Startable, Dag!Ready, Dag!Prerequisites, Prerequisites
<1>2. F \in SUBSET L
  OBVIOUS
<1>3. row' = [t \in Task |-> IF t \in F THEN "failed"
                             ELSE IF t \in L THEN "running" ELSE rows[t]]
  BY DEF LaunchRows
<1> HIDE DEF F
<1>4. QED
  BY <1>1, <1>2, <1>3 DEF Dag!Start

LEMMA StartOnRefines ==
  ASSUME SerialClient, IInv, SInv, NEW rows, Fit(rows), StartOn(rows), UNCHANGED deps
  PROVE  Dag!Start(rows)
<1> DEFINE E == {e \in deps : rows[e[1]] # "absent"}
           s == NewScheduler(rows, E)
           cyclic == HasCycle({t \in Task : rows[t] # "absent"}, E)
<1>1. deps \in SUBSET Edge /\ rows \in [Task -> RowStatus]
  BY DEF IInv, TypeOK, Fit
<1>2. E = deps
  <2>1. \A e \in deps : e[1] \in Task
    BY <1>1, EdgeAssumption
  <2>2. QED
    BY <2>1 DEF SInv, KnownDependents, Fit
<1>3. CASE row' = rows
  <2>1. LaunchRows(rows, {}) = rows
    BY <1>1 DEF LaunchRows
  <2>2. Startable({}, rows, deps)
    BY DEF Startable
  <2>3. QED
    BY <1>3, <2>1, <2>2, StartRefines
<1>4. CASE /\ ~cyclic
           /\ \E r \in Run, L \in Launchable(s) : row' = LaunchRows(rows, L)
  <2>1. PICK L \in Launchable(s) : row' = LaunchRows(rows, L)
    BY <1>4
  <2>2. SchedulerOK(s) /\ s.snap = rows /\ s.edges = deps
    <3>1. s = NewScheduler(rows, deps) /\ ~HasCycle({t \in Task : rows[t] # "absent"}, deps)
      BY <1>2, <1>4
    <3> HIDE DEF s
    <3>2. QED
      BY <1>1, <3>1, NewSchedulerOK
  <2> HIDE DEF s
  <2>3. L \in SUBSET Task /\ Startable(L, rows, deps)
    BY <2>2, LaunchableReady
  <2>4. QED
    BY <2>1, <2>3, StartRefines
<1>5. QED
  BY <1>3, <1>4 DEF StartOn

LEMMA PollRefines ==
  ASSUME IInv, SInv, NEW r \in Run, Poll(r)
  PROVE  Dag!Start(row)
<1>1. PICK L \in Launchable(run[r]) : row' = LaunchRows(row, L) /\ UNCHANGED deps
  BY DEF Poll
<1>2. /\ deps \in SUBSET Edge
      /\ SchedulerOK(run[r]) /\ run[r].edges = deps
      /\ \A t \in Task : run[r].snap[t] # "running" => run[r].snap[t] = row[t]
  BY DEF Poll, Polling, IInv, TypeOK, SInv, CurrentEdges, SnapshotCoherent
<1>3. L \in SUBSET Task /\ Startable(L, run[r].snap, deps)
  BY <1>2, LaunchableReady
<1>4. \A t \in L : \A d \in Prerequisites(deps, t) : d \in Task
  BY <1>2, <1>3, PrerequisitesFinite
<1>5. Startable(L, row, deps)
  BY <1>2, <1>3, <1>4 DEF Startable
<1>6. QED
  BY <1>1, <1>3, <1>5, StartRefines

LEMMA NextRefines ==
  ASSUME SerialClient, IInv, SInv, [Next]_vars
  PROVE  [Dag!Next]_(Dag!vars)
<1>1. row \in [Task -> RowStatus] /\ deps \in SUBSET Edge /\ run \in [Run -> Scheduler]
  BY DEF IInv, TypeOK
<1>2. ASSUME UNCHANGED <<row, deps>> PROVE [Dag!Next]_(Dag!vars)
  BY <1>2 DEF Dag!vars
<1>3. ASSUME GraphIsOpen, deps' \in SUBSET Edge, NEW t \in Task,
             row' \in {row, [row EXCEPT ![t] = "waiting"]}
      PROVE  Dag!Next
  <2>1. \A u \in Task : row[u] \in {"absent", "waiting"}
    BY <1>3 DEF GraphIsOpen, SerialClient, SInv, FreshGraph
  <2>2. row' \in [Task -> {"absent", "waiting"}]
    BY <1>1, <1>3, <2>1
  <2>3. QED
    BY <1>3, <2>1, <2>2 DEF Dag!Next, Dag!Build
<1>4. ASSUME NEW t \in Task, AddTask(t) PROVE Dag!Next
  <2>1. GraphIsOpen /\ deps' \in SUBSET Edge /\ row' = [row EXCEPT ![t] = "waiting"]
    BY <1>1, <1>4 DEF AddTask
  <2>2. QED
    BY <1>3, <2>1
<1>5. ASSUME NEW e \in Edge, AddDependency(e) PROVE Dag!Next
  <2>1. GraphIsOpen /\ deps' \in SUBSET Edge /\ row' = row /\ e[1] \in Task
    BY <1>1, <1>5, EdgeAssumption DEF AddDependency
  <2>2. QED
    BY <1>3, <2>1
<1>6. ASSUME NEW status \in {"waiting", "completed"},
             StartOn([t \in Task |-> IF t \in Failed THEN status ELSE row[t]]), UNCHANGED deps
      PROVE  Dag!Start(Dag!Reset(status))
  <2> DEFINE rows == [t \in Task |-> IF t \in Failed THEN status ELSE row[t]]
  <2>1. Dag!Reset(status) = rows
    BY DEF Dag!Reset, Failed
  <2>2. Fit(rows)
    BY ResetRowsFit
  <2>3. StartOn(rows)
    BY <1>6
  <2> HIDE DEF rows
  <2>4. Dag!Start(rows)
    BY <1>6, <2>2, <2>3, StartOnRefines
  <2>5. QED
    BY <2>1, <2>4
<1>7. CASE StartExecution \/ ResumeExecution
  <2>1. Dag!Start(row)
    BY <1>7, CurrentRowsFit, StartOnRefines DEF StartExecution, ResumeExecution
  <2>2. QED
    BY <2>1 DEF Dag!Next
<1>8. CASE RetryExecution
  <2>1. Dag!Start(Dag!Reset("waiting"))
    BY <1>6, <1>8 DEF RetryExecution
  <2>2. QED
    BY <2>1 DEF Dag!Next
<1>9. CASE RecoverBySkip
  <2>1. Dag!Start(Dag!Reset("completed"))
    BY <1>6, <1>9 DEF RecoverBySkip
  <2>2. QED
    BY <2>1 DEF Dag!Next
<1>10. ASSUME NEW i \in DOMAIN checkpoints, RestoreCheckpoint(i) PROVE FALSE
  BY <1>10 DEF RestoreCheckpoint, SerialClient
<1>11. ASSUME NEW r \in Run, Poll(r) PROVE Dag!Next
  BY <1>11, PollRefines DEF Dag!Next
<1>12. ASSUME NEW r \in Run, NEW t \in Task, TaskCompletes(r, t) \/ TaskTimesOut(r, t)
       PROVE  Dag!Next
  <2>1. row[t] = "running"
    BY <1>12 DEF TaskCompletes, TaskTimesOut, SInv, InFlightRows
  <2>2. \E s \in {"completed", "failed"} : row' = [row EXCEPT ![t] = s]
    BY <1>12 DEF TaskCompletes, TaskTimesOut
  <2>3. UNCHANGED deps
    BY <1>12 DEF TaskCompletes, TaskTimesOut
  <2>4. Dag!End(t)
    BY <2>1, <2>2, <2>3 DEF Dag!End
  <2>5. QED
    BY <2>4 DEF Dag!Next
<1>13. QED
  BY <1>2, <1>4, <1>5, <1>7, <1>8, <1>9, <1>10, <1>11, <1>12
  DEF Next, vars, db, CreateExecution, PauseExecution, CancelExecution, CreateCheckpoint,
      Finish, Crash

(* With a serial client the layer implements DagExecution: sessions,        *)
(* schedulers, polling, pauses and crashes are invisible in the task rows.  *)
THEOREM ImplementsDagExecution ==
  ASSUME SerialClient
  PROVE  Spec => ImplementsDag
<1>1. Init => IInv /\ SInv
  BY InitIInv, InitSInv
<1>2. IInv /\ SInv /\ [Next]_vars => (IInv /\ SInv)'
  BY NextIInv, NextSInv
<1>3. Init => Dag!Init
  BY DEF Init, Dag!Init
<1>4. IInv /\ SInv /\ [Next]_vars => [Dag!Next]_(Dag!vars)
  BY NextRefines
<1>5. QED
  BY <1>1, <1>2, <1>3, <1>4, PTL DEF Spec, ImplementsDag, Dag!Spec

=============================================================================
