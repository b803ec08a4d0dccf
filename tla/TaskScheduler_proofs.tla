------------------------- MODULE TaskScheduler_proofs -------------------------
(***************************************************************************)
(* Tasks that are to run once do so at most once, for any ids, any number  *)
(* of calls and any collisions; without collisions none is lost.           *)
(***************************************************************************)
EXTENDS TaskScheduler, TLAPS

\* The scheduler or the event loop still knows the object.
Used(t) == tasks[task[t].id] = t \/ t \in armed \/ runs[t] > 0

ObjectOK(t) ==
  /\ t \in armed \cup ran => task[t].id \in Id
  /\ runs[t] > 0 => t \in ran /\ task[t].status = "running"
  /\ t \in ran /\ task[t].kind # "interval" /\ tasks[task[t].id] = t => runs[t] > 0
  /\ task[t].id \in Id /\ t \notin ran /\ tasks[task[t].id] # t =>
       t \in dismissed \/ "collide" \in client

\* Without collisions an id has one object at a time, whoever knows it.
OneAtATime ==
  "collide" \notin client =>
    \A t, u \in Task : /\ task[t].id \in Id /\ task[t].id = task[u].id
                       /\ Used(t) /\ Used(u)
                       => t = u

IInv ==
  /\ TypeOK
  /\ \A i \in Id : tasks[i] \in Task => task[tasks[i]].id = i
  /\ \A t \in Task : ObjectOK(t)
  /\ OneAtATime

LEMMA InitIInv == Init => IInv
BY NoneAssumption DEF Init, IInv, TypeOK, Object, Kind, ObjectOK, OneAtATime, Used

LEMMA ScheduleOK ==
  ASSUME IInv, NEW t \in Task, NEW i \in Id, NEW kind \in Kind, Schedule(t, i, kind)
  PROVE  IInv'
<1> DEFINE o == [id |-> i, kind |-> kind, status |-> "idle"]
<1>1. /\ task' = [task EXCEPT ![t] = o] /\ tasks' = [tasks EXCEPT ![i] = t]
      /\ armed' = armed \cup {t} /\ dismissed' = dismissed \cup Of(i)
      /\ timers' \in {timers, [timers EXCEPT ![i] = t]}
      /\ UNCHANGED <<runs, ran, client>>
      /\ task[t].id = None /\ (InUse(i) => "collide" \in client)
  BY DEF Schedule
<1>2. o \in Object /\ o.id = i /\ o.status = "idle"
  BY DEF Object
<1> HIDE DEF o
<1>3. /\ task'[t] = o /\ \A u \in Task \ {t} : task'[u] = task[u]
      /\ tasks'[i] = t /\ \A j \in Id \ {i} : tasks'[j] = tasks[j]
  BY <1>1 DEF IInv, TypeOK
<1>4. TypeOK'
  BY <1>1, <1>2 DEF IInv, TypeOK, Of
<1>5. t \notin ran /\ runs[t] = 0
  <2>1. t \notin ran
    BY <1>1, NoneAssumption DEF IInv, ObjectOK
  <2>2. ~(runs[t] > 0) /\ runs[t] \in 0 .. 1
    BY <2>1 DEF IInv, ObjectOK, TypeOK
  <2> QED
    BY <2>1, <2>2
<1>6. \A j \in Id : tasks'[j] \in Task => task'[tasks'[j]].id = j
  <2> TAKE j \in Id
  <2>1. CASE j = i
    BY <2>1, <1>2, <1>3
  <2>2. CASE j # i
    <3>1. tasks'[j] = tasks[j] /\ (tasks[j] \in Task => tasks[j] # t)
      BY <2>2, <1>1, <1>3, NoneAssumption DEF IInv
    <3> QED
      BY <3>1, <1>3 DEF IInv
  <2> QED
    BY <2>1, <2>2
<1>7. \A u \in Task : ObjectOK(u)'
  <2> TAKE u \in Task
  <2>1. CASE u = t
    BY <2>1, <1>1, <1>2, <1>3, <1>5 DEF ObjectOK
  <2>2. CASE u # t /\ task[u].id = i
    <3>1. u \in Of(i)
      BY <2>2 DEF Of
    <3> QED
      BY <2>2, <3>1, <1>1, <1>3 DEF IInv, ObjectOK
  <2>3. CASE u # t /\ task[u].id # i
    <3>1. ObjectOK(u) /\ task'[u] = task[u]
      BY <2>3, <1>3 DEF IInv
    <3>2. task[u].id \in Id => tasks'[task[u].id] = tasks[task[u].id]
      BY <2>3, <1>3
    <3> QED
      BY <2>3, <3>1, <3>2, <1>1 DEF ObjectOK
  <2> QED
    BY <2>1, <2>2, <2>3
<1>8. OneAtATime'
  <2> SUFFICES ASSUME "collide" \notin client, NEW u \in Task, NEW v \in Task,
                      task'[u].id \in Id, task'[u].id = task'[v].id, Used(u)', Used(v)'
               PROVE  u = v
    BY <1>1 DEF OneAtATime
  <2>1. \A w \in Of(i) : tasks[i] # w /\ w \notin armed /\ ~(runs[w] > 0)
    BY <1>1 DEF InUse
  <2>2. \A w \in Task \ {t} : task'[w].id = i => ~Used(w)'
    <3> TAKE w \in Task \ {t}
    <3>1. task'[w] = task[w]
      BY <1>3
    <3>2. task[w].id = i => w \in Of(i)
      BY DEF Of
    <3> QED
      BY <1>1, <1>3, <2>1, <3>1, <3>2 DEF Used
  <2>3. CASE task'[u].id = i
    BY <2>2, <2>3
  <2>4. CASE task'[u].id # i
    <3>1. u # t /\ v # t
      BY <2>4, <1>2, <1>3
    <3>2. Used(u) /\ Used(v) /\ task[u].id \in Id /\ task[u].id = task[v].id
      BY <2>4, <3>1, <1>1, <1>3 DEF Used
    <3> QED
      BY <3>2 DEF IInv, OneAtATime
  <2> QED
    BY <2>3, <2>4
<1> QED
  BY <1>4, <1>6, <1>7, <1>8 DEF IInv

LEMMA FireOK ==
  ASSUME IInv, NEW t \in Task, Fire(t)
  PROVE  IInv'
<1> DEFINE i == task[t].id
           u == tasks[i]
<1>1. /\ i \in Id /\ Run(i) /\ armed' \subseteq armed
      /\ timers' \in {timers, [timers EXCEPT ![i] = None]}
      /\ UNCHANGED <<tasks, dismissed, client>>
  BY DEF Fire, IInv, ObjectOK
<1>2. CASE UNCHANGED <<task, runs, ran>>
  <2>1. TypeOK'
    BY <1>1, <1>2 DEF IInv, TypeOK
  <2>2. \A v \in Task : ObjectOK(v)'
    BY <1>1, <1>2 DEF IInv, ObjectOK
  <2>3. OneAtATime'
    BY <1>1, <1>2 DEF IInv, OneAtATime, Used
  <2> QED
    BY <1>1, <1>2, <2>1, <2>2, <2>3 DEF IInv
<1>3. CASE ~UNCHANGED <<task, runs, ran>>
  <2>1. /\ u \in Task /\ task[u].status # "running"
        /\ task' = [task EXCEPT ![u].status = "running"]
        /\ runs' = [runs EXCEPT ![u] = @ + 1]
        /\ ran' = ran \cup {u}
    BY <1>1, <1>3 DEF Run, IInv, TypeOK
  <2>2. tasks[i] = u
    OBVIOUS
  <2> HIDE DEF u
  <2>3. task[u].id = i /\ runs[u] = 0
    BY <1>1, <2>1, <2>2 DEF IInv, ObjectOK, TypeOK
  <2> HIDE DEF i
  <2>4. /\ \A v \in Task : task'[v].id = task[v].id /\ task'[v].kind = task[v].kind
        /\ \A v \in Task \ {u} : task'[v] = task[v] /\ runs'[v] = runs[v]
        /\ task'[u].status = "running" /\ runs'[u] = 1
    BY <2>1, <2>3 DEF IInv, TypeOK, Object
  <2>5. TypeOK'
    BY <1>1, <2>1, <2>3 DEF IInv, TypeOK, Object
  <2>6. \A v \in Task : ObjectOK(v)'
    BY <1>1, <2>1, <2>2, <2>3, <2>4 DEF IInv, ObjectOK
  <2>7. OneAtATime'
    <3>1. \A v \in Task : Used(v)' => Used(v)
      BY <1>1, <2>2, <2>3, <2>4 DEF Used
    <3> QED
      BY <1>1, <2>4, <3>1 DEF IInv, OneAtATime
  <2>8. \A j \in Id : tasks'[j] \in Task => task'[tasks'[j]].id = j
    BY <1>1, <2>4 DEF IInv
  <2> QED
    BY <2>5, <2>6, <2>7, <2>8 DEF IInv
<1> QED
  BY <1>2, <1>3

LEMMA FinishOK ==
  ASSUME IInv, NEW t \in Task, Finish(t)
  PROVE  IInv'
<1> DEFINE i == task[t].id
<1>1. /\ runs[t] > 0 /\ runs' = [runs EXCEPT ![t] = @ - 1]
      /\ task' \in {task, [task EXCEPT ![t].status = "idle"]}
      /\ tasks' = IF task[t].kind # "interval" THEN [tasks EXCEPT ![i] = None] ELSE tasks
      /\ UNCHANGED <<timers, armed, ran, dismissed, client>>
  BY DEF Finish
<1>2. i \in Id /\ t \in ran /\ runs[t] = 1 /\ Used(t)
  BY <1>1 DEF IInv, ObjectOK, TypeOK, Used
<1>3. task[t].id = i
  OBVIOUS
<1> HIDE DEF i
<1>4. /\ \A v \in Task : task'[v].id = task[v].id /\ task'[v].kind = task[v].kind
      /\ \A v \in Task \ {t} : task'[v] = task[v] /\ runs'[v] = runs[v]
      /\ runs'[t] = 0
  BY <1>1, <1>2 DEF IInv, TypeOK, Object
<1>5. /\ \A j \in Id : tasks'[j] = tasks[j] \/ tasks'[j] = None
      /\ \A j \in Id : tasks'[j] # tasks[j] => j = i /\ task[t].kind # "interval"
      /\ task[t].kind # "interval" => tasks'[i] = None
  BY <1>1, <1>2 DEF IInv, TypeOK
<1>6. TypeOK'
  BY <1>1, <1>2 DEF IInv, TypeOK, Object
<1>7. \A v \in Task : ObjectOK(v)'
  <2> TAKE v \in Task
  <2>1. CASE v = t
    BY <2>1, <1>1, <1>2, <1>3, <1>4, <1>5, NoneAssumption DEF IInv, ObjectOK
  <2>2. CASE v # t /\ task[v].id = i
    <3>1. tasks[i] = v => "collide" \in client
      BY <2>2, <1>2, <1>3 DEF IInv, OneAtATime, Used
    <3> QED
      BY <2>2, <3>1, <1>1, <1>2, <1>4, <1>5, NoneAssumption DEF IInv, ObjectOK
  <2>3. CASE v # t /\ task[v].id # i
    BY <2>3, <1>1, <1>4, <1>5 DEF IInv, ObjectOK
  <2> QED
    BY <2>1, <2>2, <2>3
<1>8. OneAtATime'
  <2>1. \A v \in Task : task[v].id \in Id /\ Used(v)' => Used(v)
    BY <1>1, <1>4, <1>5, NoneAssumption DEF Used, IInv, TypeOK
  <2> QED
    BY <1>1, <1>4, <2>1 DEF IInv, OneAtATime
<1>9. \A j \in Id : tasks'[j] \in Task => task'[tasks'[j]].id = j
  BY <1>4, <1>5, NoneAssumption DEF IInv
<1> QED
  BY <1>6, <1>7, <1>8, <1>9 DEF IInv

LEMMA CancelOK ==
  ASSUME IInv, NEW i \in Id, Cancel(i)
  PROVE  IInv'
<1>1. /\ armed' \subseteq armed /\ timers' = [timers EXCEPT ![i] = None]
      /\ tasks' = [tasks EXCEPT ![i] = None]
      /\ dismissed' = dismissed \cup Of(i)
      /\ UNCHANGED <<task, runs, ran, client>>
  BY DEF Cancel
<1>2. tasks'[i] = None /\ \A j \in Id \ {i} : tasks'[j] = tasks[j]
  BY <1>1 DEF IInv, TypeOK
<1>3. TypeOK'
  BY <1>1 DEF IInv, TypeOK, Of
<1>4. \A v \in Task : ObjectOK(v)'
  <2> TAKE v \in Task
  <2>1. CASE task[v].id = i
    <3>1. v \in Of(i)
      BY <2>1 DEF Of
    <3> QED
      BY <2>1, <3>1, <1>1, <1>2, NoneAssumption DEF IInv, ObjectOK
  <2>2. CASE task[v].id # i
    BY <2>2, <1>1, <1>2 DEF IInv, ObjectOK
  <2> QED
    BY <2>1, <2>2
<1>5. OneAtATime'
  <2>1. \A v \in Task : task[v].id \in Id /\ Used(v)' => Used(v)
    BY <1>1, <1>2, NoneAssumption DEF Used
  <2> QED
    BY <1>1, <2>1 DEF IInv, OneAtATime
<1>6. \A j \in Id : tasks'[j] \in Task => task'[tasks'[j]].id = j
  BY <1>1, <1>2, NoneAssumption DEF IInv
<1> QED
  BY <1>3, <1>4, <1>5, <1>6 DEF IInv

LEMMA NextIInv == IInv /\ [Next]_vars => IInv'
<1> SUFFICES ASSUME IInv, [Next]_vars PROVE IInv'
  OBVIOUS
<1>1. CASE UNCHANGED vars
  <2> USE <1>1 DEF vars
  <2>1. TypeOK'
    BY DEF IInv, TypeOK
  <2>2. (\A t \in Task : ObjectOK(t)') /\ OneAtATime'
    BY DEF IInv, ObjectOK, OneAtATime, Used
  <2> QED
    BY <2>1, <2>2 DEF IInv
<1> QED
  BY <1>1, ScheduleOK, FireOK, FinishOK, CancelOK DEF Next

THEOREM SpecIInv == Spec => []IInv
BY InitIInv, NextIInv, PTL DEF Spec

\* For any ids, calls and callers, an object runs at most once at a time, however
\* many timers come due for its id (task_scheduler.ts:37).
THEOREM TasksTypeCorrect == Spec => []TypeOK
<1>1. IInv => TypeOK
  BY DEF IInv
<1> QED
  BY <1>1, SpecIInv, PTL

-----------------------------------------------------------------------------
(* The refinement of OneShots: what each action does to the phases.         *)

LEMMA PhaseFacts ==
  ASSUME IInv, NEW t \in Task
  PROVE  /\ PhaseOf(t) = "waiting" <=> /\ task[t].id \in Id /\ task[t].kind # "interval"
                                       /\ t \notin ran /\ tasks[task[t].id] = t
         /\ PhaseOf(t) = "running" <=> task[t].kind # "interval" /\ runs[t] > 0
         /\ PhaseOf(t) = "unknown" <=> task[t].id = None \/ task[t].kind = "interval"
         /\ PhaseOf(t) \in {"unknown", "waiting", "running", "done", "dropped"}
<1>1. /\ task[t].id \in Id \cup {None} /\ runs[t] \in 0 .. 1
      /\ runs[t] > 0 => t \in ran
      /\ t \in ran => task[t].id \in Id
      /\ task[t].id \in Id /\ t \notin ran /\ tasks[task[t].id] # t =>
           t \in dismissed \/ "collide" \in client
  BY DEF IInv, TypeOK, Object, ObjectOK
<1>2. runs[t] = 0 \/ runs[t] > 0
  BY <1>1
<1> QED
  BY <1>1, <1>2, NoneAssumption DEF PhaseOf

\* A step that leaves an object, and what the map has for its id, leaves its phase;
\* the map matters only to what has not run.
LEMMA SamePhase ==
  ASSUME IInv, IInv', NEW t \in Task, UNCHANGED client,
         task'[t].id = task[t].id, task'[t].kind = task[t].kind, runs'[t] = runs[t],
         t \in ran' <=> t \in ran, t \in dismissed => t \in dismissed',
         task[t].id \in Id /\ t \notin ran /\ task[t].kind # "interval" =>
           (tasks'[task[t].id] = t <=> tasks[task[t].id] = t)
  PROVE  PhaseOf(t)' = PhaseOf(t)
<1>1. task[t].id \in Id \cup {None} /\ runs[t] \in 0 .. 1
      /\ (task[t].id \in Id /\ t \notin ran /\ tasks[task[t].id] # t =>
           t \in dismissed \/ "collide" \in client)
  BY DEF IInv, TypeOK, Object, ObjectOK
<1>2. runs[t] = 0 \/ runs[t] > 0
  BY <1>1
<1> QED
  BY <1>1, <1>2 DEF PhaseOf

\* A waiting task that leaves the map without having run is dropped.
LEMMA Dropped ==
  ASSUME IInv', NEW t \in Task, task[t].id \in Id, t \notin ran', PhaseOf(t) = "waiting",
         task'[t].id = task[t].id, task'[t].kind = task[t].kind,
         tasks'[task[t].id] # t, IInv
  PROVE  PhaseOf(t)' = "dropped"
<1>1. task[t].kind # "interval"
  BY PhaseFacts
<1>2. t \in dismissed' \/ "collide" \in client'
  BY DEF IInv, ObjectOK
<1> QED
  BY <1>1, <1>2, NoneAssumption DEF PhaseOf

LEMMA CancelPhase ==
  ASSUME IInv, IInv', NEW i \in Id, Cancel(i)
  PROVE  [OneShot!Next]_Phases
<1>1. /\ tasks' = [tasks EXCEPT ![i] = None] /\ dismissed' = dismissed \cup Of(i)
      /\ UNCHANGED <<task, runs, ran, client>>
  BY DEF Cancel
<1>2. tasks'[i] = None /\ \A j \in Id \ {i} : tasks'[j] = tasks[j]
  BY <1>1 DEF IInv, TypeOK
<1>3. ASSUME NEW v \in Task, ~(tasks[i] = v /\ PhaseOf(v) = "waiting")
      PROVE  PhaseOf(v)' = PhaseOf(v)
  <2>1. CASE tasks[i] = v /\ task[v].id = i
    <3>1. PhaseOf(v) # "waiting" /\ (v \in ran \/ task[v].kind = "interval")
      BY <1>3, <2>1, PhaseFacts
    <3> QED
      BY <3>1, <1>1, SamePhase
  <2>2. CASE ~(tasks[i] = v /\ task[v].id = i)
    BY <2>2, <1>1, <1>2, SamePhase, NoneAssumption
  <2> QED
    BY <2>1, <2>2
<1>4. CASE \E u \in Task : tasks[i] = u /\ PhaseOf(u) = "waiting"
  <2> PICK u \in Task : tasks[i] = u /\ PhaseOf(u) = "waiting"
    BY <1>4
  <2>1. PhaseOf(u)' = "dropped"
    BY <1>1, <1>2, PhaseFacts, Dropped, NoneAssumption DEF IInv
  <2>2. Phases' = [Phases EXCEPT ![u] = "dropped"] /\ Phases[u] = "waiting"
    BY <1>3, <2>1 DEF Phases
  <2> QED
    BY <2>2 DEF OneShot!Next, OneShot!Drop
<1>5. CASE ~\E u \in Task : tasks[i] = u /\ PhaseOf(u) = "waiting"
  BY <1>3, <1>5 DEF Phases
<1> QED
  BY <1>4, <1>5

LEMMA SchedulePhase ==
  ASSUME IInv, IInv', NEW t \in Task, NEW i \in Id, NEW kind \in Kind, Schedule(t, i, kind)
  PROVE  [OneShot!Next]_Phases
<1> DEFINE o == [id |-> i, kind |-> kind, status |-> "idle"]
<1>1. /\ task' = [task EXCEPT ![t] = o] /\ tasks' = [tasks EXCEPT ![i] = t]
      /\ dismissed' = dismissed \cup Of(i)
      /\ UNCHANGED <<runs, ran, client>> /\ task[t].id = None
  BY DEF Schedule
<1>2. o.id = i /\ o.kind = kind
  OBVIOUS
<1> HIDE DEF o
<1>3. /\ task'[t] = o /\ \A v \in Task \ {t} : task'[v] = task[v]
      /\ tasks'[i] = t /\ \A j \in Id \ {i} : tasks'[j] = tasks[j]
  BY <1>1 DEF IInv, TypeOK
<1>4. t \notin ran
  BY <1>1, NoneAssumption DEF IInv, ObjectOK
<1>5. PhaseOf(t) = "unknown" /\ PhaseOf(t)' = IF kind = "interval" THEN "unknown" ELSE "waiting"
  BY <1>1, <1>2, <1>3, <1>4, NoneAssumption DEF PhaseOf
<1>6. ASSUME NEW v \in Task \ {t}, ~(tasks[i] = v /\ PhaseOf(v) = "waiting")
      PROVE  PhaseOf(v)' = PhaseOf(v)
  <2>1. CASE tasks[i] = v /\ task[v].id = i
    <3>1. PhaseOf(v) # "waiting" /\ (v \in ran \/ task[v].kind = "interval")
      BY <1>6, <2>1, PhaseFacts
    <3> QED
      BY <3>1, <1>1, <1>3, SamePhase
  <2>2. CASE ~(tasks[i] = v /\ task[v].id = i)
    <3>1. task[v].id \in Id => (tasks'[task[v].id] = v <=> tasks[task[v].id] = v)
      BY <2>2, <1>3
    <3> QED
      BY <3>1, <1>1, <1>3, SamePhase
  <2> QED
    BY <2>1, <2>2
<1>7. CASE \E u \in Task : tasks[i] = u /\ PhaseOf(u) = "waiting"
  <2> PICK u \in Task : tasks[i] = u /\ PhaseOf(u) = "waiting"
    BY <1>7
  <2>1. u # t
    BY <1>5
  <2>2. PhaseOf(u)' = "dropped"
    BY <1>1, <1>3, <2>1, PhaseFacts, Dropped DEF IInv
  <2>3. Phases[u] = "waiting" /\ Phases[t] = "unknown" /\ t \in Task \ {u}
    BY <1>5, <2>1 DEF Phases
  <2>4. CASE kind = "interval"
    <3>1. Phases' = [Phases EXCEPT ![u] = "dropped"]
      BY <1>5, <1>6, <2>2, <2>4 DEF Phases
    <3> QED
      BY <2>3, <3>1 DEF OneShot!Next, OneShot!Drop
  <2>5. CASE kind # "interval"
    <3>1. Phases' = [Phases EXCEPT ![u] = "dropped", ![t] = "waiting"]
      BY <1>5, <1>6, <2>1, <2>2, <2>5 DEF Phases
    <3> QED
      BY <2>3, <3>1 DEF OneShot!Next, OneShot!Drop
  <2> QED
    BY <2>4, <2>5
<1>8. CASE ~\E u \in Task : tasks[i] = u /\ PhaseOf(u) = "waiting"
  <2>1. CASE kind = "interval"
    BY <1>5, <1>6, <1>8, <2>1 DEF Phases
  <2>2. CASE kind # "interval"
    <3>1. Phases' = [Phases EXCEPT ![t] = "waiting"] /\ Phases[t] = "unknown"
      BY <1>5, <1>6, <1>8, <2>2 DEF Phases
    <3> QED
      BY <3>1 DEF OneShot!Next, OneShot!Accept, OneShot!Goes
  <2> QED
    BY <2>1, <2>2
<1> QED
  BY <1>7, <1>8

LEMMA FirePhase ==
  ASSUME IInv, IInv', NEW t \in Task, Fire(t)
  PROVE  [OneShot!Next]_Phases
<1> DEFINE i == task[t].id
<1>1. i \in Id /\ Run(i) /\ UNCHANGED <<tasks, dismissed, client>>
  BY DEF Fire, IInv, ObjectOK
<1>2. CASE UNCHANGED <<task, runs, ran>>
  BY <1>1, <1>2 DEF Phases, PhaseOf
<1>3. CASE ~UNCHANGED <<task, runs, ran>>
  <2> PICK u \in Task : u = tasks[i]
    BY <1>1, <1>3 DEF Run, IInv, TypeOK
  <2>1. /\ task[u].status # "running"
        /\ task' = [task EXCEPT ![u].status = "running"]
        /\ runs' = [runs EXCEPT ![u] = @ + 1]
        /\ ran' = ran \cup {u}
    BY <1>1, <1>3 DEF Run, IInv, TypeOK
  <2>2. tasks[i] = u
    OBVIOUS
  <2>3. task[u].id = i /\ runs[u] = 0
    BY <1>1, <2>1, <2>2 DEF IInv, ObjectOK, TypeOK
  <2> HIDE DEF i
  <2>4. /\ \A v \in Task : task'[v].id = task[v].id /\ task'[v].kind = task[v].kind
        /\ \A v \in Task \ {u} : task'[v] = task[v] /\ runs'[v] = runs[v]
        /\ runs'[u] = 1
    BY <2>1, <2>3 DEF IInv, TypeOK, Object
  <2>5. \A v \in Task \ {u} : PhaseOf(v)' = PhaseOf(v)
    BY <1>1, <2>1, <2>4, SamePhase
  <2>6. CASE task[u].kind = "interval"
    <3>1. PhaseOf(u)' = PhaseOf(u)
      BY <2>1, <2>4, <2>6 DEF PhaseOf
    <3> QED
      BY <2>1, <2>5, <3>1 DEF Phases
  <2>7. CASE task[u].kind # "interval"
    <3>1. u \notin ran
      BY <2>1, <2>2, <2>3, <2>7 DEF IInv, ObjectOK
    <3>2. PhaseOf(u) = "waiting"
      BY <1>1, <2>1, <2>2, <2>3, <2>7, <3>1, PhaseFacts
    <3>3. PhaseOf(u)' = "running"
      BY <1>1, <2>1, <2>3, <2>4, <2>7, NoneAssumption DEF PhaseOf
    <3>4. Phases' = [Phases EXCEPT ![u] = "running"] /\ Phases[u] = "waiting"
      BY <2>1, <2>5, <3>2, <3>3 DEF Phases
    <3> QED
      BY <2>1, <3>4 DEF OneShot!Next, OneShot!Start, OneShot!Goes
  <2> QED
    BY <2>6, <2>7
<1> QED
  BY <1>2, <1>3

LEMMA FinishPhase ==
  ASSUME IInv, IInv', NEW t \in Task, Finish(t)
  PROVE  [OneShot!Next]_Phases
<1> DEFINE i == task[t].id
<1>1. /\ runs[t] > 0 /\ runs' = [runs EXCEPT ![t] = @ - 1]
      /\ task' \in {task, [task EXCEPT ![t].status = "idle"]}
      /\ tasks' = IF task[t].kind # "interval" THEN [tasks EXCEPT ![i] = None] ELSE tasks
      /\ UNCHANGED <<timers, armed, ran, dismissed, client>>
  BY DEF Finish
<1>2. i \in Id /\ t \in ran /\ runs[t] = 1 /\ task[t].id = i
  BY <1>1 DEF IInv, ObjectOK, TypeOK
<1> HIDE DEF i
<1>3. /\ \A v \in Task : task'[v].id = task[v].id /\ task'[v].kind = task[v].kind
      /\ \A v \in Task \ {t} : runs'[v] = runs[v]
      /\ runs'[t] = 0
  BY <1>1, <1>2 DEF IInv, TypeOK, Object
<1>4. CASE task[t].kind = "interval"
  <2>1. \A v \in Task \ {t} : PhaseOf(v)' = PhaseOf(v)
    BY <1>1, <1>3, <1>4, SamePhase
  <2>2. PhaseOf(t)' = PhaseOf(t)
    BY <1>3, <1>4 DEF PhaseOf
  <2> QED
    BY <2>1, <2>2 DEF Phases
<1>5. CASE task[t].kind # "interval"
  <2>1. tasks'[i] = None /\ \A j \in Id \ {i} : tasks'[j] = tasks[j]
    BY <1>1, <1>2, <1>5 DEF IInv, TypeOK
  <2>2. PhaseOf(t) = "running"
    BY <1>1, <1>5, PhaseFacts
  <2>3. PhaseOf(t)' = "done"
    BY <1>1, <1>2, <1>3, <1>5, NoneAssumption DEF PhaseOf
  <2>4. ASSUME NEW v \in Task \ {t}, ~(tasks[i] = v /\ PhaseOf(v) = "waiting")
        PROVE  PhaseOf(v)' = PhaseOf(v)
    <3>1. CASE tasks[i] = v /\ task[v].id = i
      <4>1. PhaseOf(v) # "waiting" /\ (v \in ran \/ task[v].kind = "interval")
        BY <1>2, <2>4, <3>1, PhaseFacts
      <4> QED
        BY <4>1, <1>1, <1>3, SamePhase
    <3>2. CASE ~(tasks[i] = v /\ task[v].id = i)
      <4>1. task[v].id \in Id => (tasks'[task[v].id] = v <=> tasks[task[v].id] = v)
        BY <3>2, <2>1, NoneAssumption
      <4> QED
        BY <4>1, <1>1, <1>3, SamePhase
    <3> QED
      BY <3>1, <3>2
  <2>5. CASE \E u \in Task : tasks[i] = u /\ PhaseOf(u) = "waiting"
    <3> PICK u \in Task : tasks[i] = u /\ PhaseOf(u) = "waiting"
      BY <2>5
    <3>1. u # t
      BY <2>2
    <3>2. PhaseOf(u)' = "dropped"
      BY <1>1, <1>2, <1>3, <2>1, PhaseFacts, Dropped, NoneAssumption DEF IInv
    <3>3. Phases[u] = "waiting" /\ Phases[t] = "running" /\ t \in Task \ {u}
      BY <2>2, <3>1 DEF Phases
    <3>4. Phases' = [Phases EXCEPT ![u] = "dropped", ![t] = "done"]
      BY <2>3, <2>4, <3>1, <3>2 DEF Phases
    <3> QED
      BY <3>3, <3>4 DEF OneShot!Next, OneShot!Drop
  <2>6. CASE ~\E u \in Task : tasks[i] = u /\ PhaseOf(u) = "waiting"
    <3>1. Phases' = [Phases EXCEPT ![t] = "done"] /\ Phases[t] = "running"
      BY <2>2, <2>3, <2>4, <2>6 DEF Phases
    <3> QED
      BY <3>1 DEF OneShot!Next, OneShot!End, OneShot!Goes
  <2> QED
    BY <2>5, <2>6
<1> QED
  BY <1>4, <1>5

\* For any ids, calls and callers, the scheduler implements OneShots, its liveness
\* apart: what is to run once starts at most once and never after it was cancelled.
\* For callers whose ids do not collide it is not lost either; where they do, a task
\* that the end of another call takes away counts as dropped (task_scheduler.ts:48).
THEOREM SchedulesOneShots == Spec => OneShot!Safe
<1>1. Init => OneShot!Init
  BY DEF Init, OneShot!Init, Phases, PhaseOf
<1>2. IInv /\ IInv' /\ [Next]_vars => [OneShot!Next]_Phases
  <2> SUFFICES ASSUME IInv, IInv', [Next]_vars PROVE [OneShot!Next]_Phases
    OBVIOUS
  <2>1. CASE UNCHANGED vars
    BY <2>1 DEF vars, Phases, PhaseOf
  <2> QED
    BY <2>1, SchedulePhase, FirePhase, FinishPhase, CancelPhase DEF Next
<1> QED
  BY <1>1, <1>2, SpecIInv, PTL DEF Spec, OneShot!Safe

-----------------------------------------------------------------------------
(* Liveness.  What waits is armed, as long as it waits; so it is enough that *)
(* the event loop does not hold a timer for ever.                            *)

Waits(t) == /\ task[t].id \in Id /\ task[t].kind # "interval"
            /\ t \notin ran /\ tasks[task[t].id] = t

\* Whatever collides: cancel clears no timer but that of the id it is called for.
ArmedInv ==
  /\ \A i \in Id : timers[i] \in Task => task[timers[i]].id = i
  /\ \A t \in Task : task[t].status = "running" => t \in ran
  /\ \A t \in Task : Waits(t) => t \in armed

LEMMA InitArmedInv == Init => ArmedInv
BY NoneAssumption DEF Init, ArmedInv, Waits

LEMMA ScheduleArmed ==
  ASSUME IInv, ArmedInv, NEW t \in Task, NEW i \in Id, NEW kind \in Kind, Schedule(t, i, kind)
  PROVE  ArmedInv'
<1> DEFINE o == [id |-> i, kind |-> kind, status |-> "idle"]
<1>1. /\ task' = [task EXCEPT ![t] = o] /\ tasks' = [tasks EXCEPT ![i] = t]
      /\ armed' = armed \cup {t}
      /\ timers' \in {timers, [timers EXCEPT ![i] = t]}
      /\ UNCHANGED ran
      /\ task[t].id = None
  BY DEF Schedule
<1>2. o.id = i /\ o.status = "idle"
  OBVIOUS
<1> HIDE DEF o
<1>3. /\ task'[t] = o /\ \A u \in Task \ {t} : task'[u] = task[u]
      /\ tasks'[i] = t /\ \A j \in Id \ {i} : tasks'[j] = tasks[j]
  BY <1>1 DEF IInv, TypeOK
<1>4. ASSUME NEW j \in Id, timers'[j] \in Task PROVE task'[timers'[j]].id = j
  <2>1. timers'[j] = timers[j] \/ (j = i /\ timers'[j] = t)
    BY <1>1 DEF IInv, TypeOK
  <2>2. timers[j] \in Task => task[timers[j]].id = j /\ timers[j] # t
    BY <1>1, NoneAssumption DEF ArmedInv
  <2> QED
    BY <1>2, <1>3, <1>4, <2>1, <2>2
<1>5. ASSUME NEW u \in Task, task'[u].status = "running" PROVE u \in ran'
  BY <1>1, <1>2, <1>3, <1>5 DEF ArmedInv
<1>6. ASSUME NEW u \in Task, Waits(u)' PROVE u \in armed'
  <2>1. CASE u = t
    BY <1>1, <2>1
  <2>2. CASE u # t
    <3>1. task'[u] = task[u] /\ task[u].id # i /\ tasks'[task[u].id] = tasks[task[u].id]
      BY <1>3, <1>6, <2>2 DEF Waits
    <3>2. Waits(u)
      BY <1>1, <1>6, <3>1 DEF Waits
    <3> QED
      BY <1>1, <3>2 DEF ArmedInv
  <2> QED
    BY <2>1, <2>2
<1> QED
  BY <1>4, <1>5, <1>6 DEF ArmedInv

\* What comes due for its own id, and has not run, runs.
LEMMA FireStarts ==
  ASSUME IInv, ArmedInv, NEW t \in Task, Fire(t), Waits(t)
  PROVE  t \in ran'
<1>1. tasks[task[t].id] = t /\ t # None /\ task[t].status # "running"
  BY NoneAssumption DEF ArmedInv, Waits
<1> QED
  BY <1>1 DEF Fire, Run

LEMMA FireArmed ==
  ASSUME IInv, ArmedInv, NEW t \in Task, Fire(t)
  PROVE  ArmedInv'
<1> DEFINE i == task[t].id
<1>1. /\ i \in Id /\ Run(i) /\ armed \ {t} \subseteq armed'
      /\ timers' \in {timers, [timers EXCEPT ![i] = None]}
      /\ UNCHANGED tasks
  BY DEF Fire, IInv, ObjectOK
<1>2. /\ \A v \in Task : task'[v].id = task[v].id /\ task'[v].kind = task[v].kind
      /\ \A v \in Task : task'[v].status = "running" => task[v].status = "running" \/ v \in ran'
      /\ ran \subseteq ran'
  <2>1. CASE UNCHANGED <<task, runs, ran>>
    BY <2>1
  <2>2. CASE ~UNCHANGED <<task, runs, ran>>
    <3> DEFINE u == tasks[i]
    <3>1. /\ u \in Task /\ task' = [task EXCEPT ![u].status = "running"] /\ ran' = ran \cup {u}
      BY <1>1, <2>2 DEF Run, IInv, TypeOK
    <3> HIDE DEF u
    <3>2. /\ \A v \in Task : task'[v].id = task[v].id /\ task'[v].kind = task[v].kind
          /\ \A v \in Task \ {u} : task'[v] = task[v]
      BY <3>1 DEF IInv, TypeOK, Object
    <3> QED
      BY <3>1, <3>2
  <2> QED
    BY <2>1, <2>2
<1>3. ASSUME NEW j \in Id, timers'[j] \in Task PROVE task'[timers'[j]].id = j
  <2>1. timers'[j] = timers[j]
    BY <1>1, <1>3, NoneAssumption DEF IInv, TypeOK
  <2> QED
    BY <1>2, <1>3, <2>1 DEF ArmedInv
<1>4. ASSUME NEW u \in Task, Waits(u)' PROVE u \in armed'
  <2>1. Waits(u)
    BY <1>1, <1>2, <1>4 DEF Waits
  <2>2. u # t
    BY <1>4, <2>1, FireStarts DEF Waits
  <2> QED
    BY <1>1, <2>1, <2>2 DEF ArmedInv
<1> QED
  BY <1>2, <1>3, <1>4 DEF ArmedInv

LEMMA FinishArmed ==
  ASSUME IInv, ArmedInv, NEW t \in Task, Finish(t)
  PROVE  ArmedInv'
<1>1. /\ UNCHANGED <<timers, armed, ran>>
      /\ task' \in {task, [task EXCEPT ![t].status = "idle"]}
      /\ tasks' \in {tasks, [tasks EXCEPT ![task[t].id] = None]}
  BY DEF Finish
<1>2. \A v \in Task : /\ task'[v].id = task[v].id /\ task'[v].kind = task[v].kind
                      /\ task'[v].status = "running" => task[v].status = "running"
  BY <1>1 DEF IInv, TypeOK, Object
<1>3. \A j \in Id : tasks'[j] \in Task => tasks'[j] = tasks[j]
  BY <1>1, NoneAssumption DEF IInv, TypeOK
<1>4. \A v \in Task : Waits(v)' => Waits(v)
  BY <1>1, <1>2, <1>3 DEF Waits
<1> QED
  BY <1>1, <1>2, <1>4 DEF ArmedInv

LEMMA CancelArmed ==
  ASSUME IInv, ArmedInv, NEW i \in Id, Cancel(i)
  PROVE  ArmedInv'
<1>1. /\ armed' = armed \ {timers[i]} /\ timers' = [timers EXCEPT ![i] = None]
      /\ tasks' = [tasks EXCEPT ![i] = None]
      /\ UNCHANGED <<task, ran>>
  BY DEF Cancel
<1>2. /\ tasks'[i] = None /\ \A j \in Id \ {i} : tasks'[j] = tasks[j]
      /\ timers'[i] = None /\ \A j \in Id \ {i} : timers'[j] = timers[j]
  BY <1>1 DEF IInv, TypeOK
<1>3. ASSUME NEW u \in Task, Waits(u)' PROVE u \in armed'
  <2>1. task[u].id \in Id \ {i} /\ Waits(u)
    BY <1>1, <1>2, <1>3, NoneAssumption DEF Waits
  <2>2. timers[i] # u
    BY <2>1 DEF ArmedInv
  <2> QED
    BY <1>1, <2>1, <2>2 DEF ArmedInv
<1> QED
  BY <1>1, <1>2, <1>3, NoneAssumption DEF ArmedInv

LEMMA SpecArmedInv == Spec => []ArmedInv
<1>1. IInv /\ ArmedInv /\ [Next]_vars => ArmedInv'
  <2> SUFFICES ASSUME IInv, ArmedInv, [Next]_vars PROVE ArmedInv'
    OBVIOUS
  <2>1. CASE UNCHANGED vars
    BY <2>1 DEF vars, ArmedInv, Waits
  <2> QED
    BY <2>1, ScheduleArmed, FireArmed, FinishArmed, CancelArmed DEF Next
<1> QED
  BY <1>1, InitArmedInv, SpecIInv, PTL DEF Spec

\* The event loop does not hold a timer for ever: it comes due, or is cleared.  An
\* interval stays armed when it has come due, and is not spoken of.
Due(t) == t \in armed /\ task[t].kind # "interval"

TimerFires(t) == []<>~Due(t) \/ []<><<Fire(t)>>_vars

\* FairSpec says no less: what is due can come due, as Fire then takes it off.
LEMMA FairTimersFire ==
  ASSUME NEW t \in Task
  PROVE  WF_vars(Fire(t)) /\ [](Due(t) => ENABLED <<Fire(t)>>_vars) => TimerFires(t)
BY PTL DEF TimerFires

\* For any ids, calls and callers: what is to run once and waits does run, or leaves
\* the map (where ids collide, by the end of another call), once the timers that are
\* set do come due.  A waiting task always has one, which
\* neither the end of another call nor a cancel of another id takes away, also where
\* ids collide (task_scheduler.ts:48).
THEOREM OneShotsRun ==
  ASSUME NEW t \in Task
  PROVE  Spec /\ TimerFires(t) => (Phases[t] = "waiting" ~> Phases[t] # "waiting")
<1>1. IInv => /\ Phases[t] = "waiting" <=> Waits(t)
              /\ Phases[t] # "waiting" <=> ~Waits(t)
  BY PhaseFacts DEF Phases, Waits
<1>2. ArmedInv /\ Waits(t) => Due(t)
  BY DEF ArmedInv, Waits, Due
<1>3. IInv /\ ArmedInv /\ Waits(t) /\ <<Fire(t)>>_vars => ~Waits(t)'
  BY FireStarts DEF Waits
<1> QED
  BY <1>1, <1>2, <1>3, SpecIInv, SpecArmedInv, PTL DEF TimerFires

\* With that the scheduler implements OneShots, its liveness included, for any ids,
\* calls and callers (task_scheduler.ts:48).
THEOREM ImplementsAllOfOneShots ==
  Spec /\ (\A t \in Task : TimerFires(t)) => ImplementsOneShots
<1>1. ASSUME NEW t \in Task
      PROVE  Spec /\ TimerFires(t) => (Phases[t] = "waiting" ~> Phases[t] # "waiting")
  BY OneShotsRun
<1>2. Spec /\ (\A t \in Task : TimerFires(t)) =>
        \A t \in Task : (Phases[t] = "waiting" ~> Phases[t] # "waiting")
  BY <1>1
<1> QED
  BY <1>2, SchedulesOneShots DEF ImplementsOneShots, OneShot!Spec

=============================================================================
