----------------------------- MODULE TaskScheduler -----------------------------
(***************************************************************************)
(* The scheduler of timers: tasks that run once, at once or after a time,  *)
(* or again and again.  Two maps by id, of tasks and of timers; what the   *)
(* event loop still holds is a third thing, and follows neither.           *)
(***************************************************************************)
EXTENDS FiniteSets, Integers

CONSTANTS
  Id,      \* ids of tasks
  Task,    \* calls of schedule, and the objects that they put into the map (bound)
  None,    \* no entry
  Clients  \* the sets of optional behaviour of the callers

Kind == {"interval", "timeout", "immediate"}

ASSUME NoneAssumption   == None \notin Task \cup Id
ASSUME ClientAssumption == Clients \subseteq SUBSET {"collide"}

VARIABLES
  tasks,      \* this.tasks: id -> object
  timers,     \* this.timers: id -> the timer that the call set
  armed,      \* the timers and immediates that the event loop holds
  task,       \* the objects' ids, kinds and statuses
  runs,       \* calls of each object's action that are under way
  ran,        \* the objects whose action has been called
  dismissed,  \* objects that a cancel or another schedule of their id came after
  client      \* "collide": an id may be scheduled that is in use

vars == <<tasks, timers, armed, task, runs, ran, dismissed, client>>

Object == [id : Id \cup {None}, kind : Kind, status : {"idle", "running"}]

\* An object runs at most once at a time.
TypeOK ==
  /\ tasks \in [Id -> Task \cup {None}]
  /\ timers \in [Id -> Task \cup {None}]
  /\ armed \subseteq Task
  /\ task \in [Task -> Object]
  /\ runs \in [Task -> 0 .. 1]
  /\ ran \subseteq Task
  /\ dismissed \subseteq Task
  /\ client \in Clients

Init ==
  /\ tasks = [i \in Id |-> None]
  /\ timers = [i \in Id |-> None]
  /\ armed = {}
  /\ task = [t \in Task |-> [id |-> None, kind |-> "immediate", status |-> "idle"]]
  /\ runs = [t \in Task |-> 0]
  /\ ran = {}
  /\ dismissed = {}
  /\ client \in Clients

-----------------------------------------------------------------------------
(* A definition whose comment begins with "Faulty:" is a plausible bug in   *)
(* the one that follows it, and no action uses it.                          *)

Of(i) == {t \in Task : task[t].id = i}

\* Callers make ids from the clock: they collide when two fall into a millisecond.
InUse(i) == \E t \in Of(i) : tasks[i] = t \/ t \in armed \/ runs[t] > 0

\* A call with an id that is in the map forgets the timer, but does not clear it.
Schedule(t, i, kind) ==
  /\ task[t].id = None
  /\ InUse(i) => "collide" \in client
  /\ task' = [task EXCEPT ![t] = [id |-> i, kind |-> kind, status |-> "idle"]]
  /\ tasks' = [tasks EXCEPT ![i] = t]
  /\ timers' = IF kind = "immediate" THEN timers ELSE [timers EXCEPT ![i] = t]
  /\ armed' = armed \cup {t}
  /\ dismissed' = dismissed \cup Of(i)
  /\ UNCHANGED <<runs, ran, client>>

\* Faulty: overlap is not prevented.
RunAgain(i) ==
  IF tasks[i] = None THEN UNCHANGED <<task, runs, ran>>
  ELSE /\ task' = [task EXCEPT ![tasks[i]].status = "running"]
       /\ runs' = [runs EXCEPT ![tasks[i]] = @ + 1]
       /\ ran' = ran \cup {tasks[i]}

\* run, up to its await: whatever task the map has for the id.
Run(i) ==
  IF tasks[i] = None \/ task[tasks[i]].status = "running"
  THEN UNCHANGED <<task, runs, ran>>
  ELSE /\ task' = [task EXCEPT ![tasks[i]].status = "running"]
       /\ runs' = [runs EXCEPT ![tasks[i]] = @ + 1]
       /\ ran' = ran \cup {tasks[i]}

\* A timer or an immediate comes due.  A timeout then removes from the map the
\* timer that is there for its id, which may be another's.
Fire(t) ==
  /\ t \in armed
  /\ Run(task[t].id)
  /\ armed' = IF task[t].kind = "interval" THEN armed ELSE armed \ {t}
  /\ timers' = IF task[t].kind = "timeout" THEN [timers EXCEPT ![task[t].id] = None]
               ELSE timers
  /\ UNCHANGED <<tasks, dismissed, client>>

\* Faulty: a task that ran once stays in the map.
FinishAndKeep(t) ==
  /\ runs[t] > 0
  /\ runs' = [runs EXCEPT ![t] = @ - 1]
  /\ task' = [task EXCEPT ![t].status = "idle"]
  /\ UNCHANGED <<tasks, timers, armed, ran, dismissed, client>>

\* The action's promise settles.  What is removed is the task that the map has for
\* the id by now.
Finish(t) ==
  LET i == task[t].id
  IN /\ runs[t] > 0
     /\ runs' = [runs EXCEPT ![t] = @ - 1]
     /\ task' = IF tasks[i] # None THEN [task EXCEPT ![t].status = "idle"] ELSE task
     /\ tasks' = IF task[t].kind # "interval" THEN [tasks EXCEPT ![i] = None] ELSE tasks
     /\ UNCHANGED <<timers, armed, ran, dismissed, client>>

\* An immediate has no timer to be cleared: it comes due and finds no task.
Cancel(i) ==
  /\ armed' = armed \ {timers[i]}
  /\ timers' = [timers EXCEPT ![i] = None]
  /\ tasks' = [tasks EXCEPT ![i] = None]
  /\ dismissed' = dismissed \cup Of(i)
  /\ UNCHANGED <<task, runs, ran, client>>

Next ==
  \/ \E t \in Task : \/ \E i \in Id, kind \in Kind : Schedule(t, i, kind)
                     \/ Fire(t) \/ Finish(t)
  \/ \E i \in Id : Cancel(i)

Spec == Init /\ [][Next]_vars

\* Timers come due.  Nothing is assumed of the actions.
FairSpec == Spec /\ \A t \in Task : WF_vars(Fire(t))

-----------------------------------------------------------------------------
(* Properties                                                               *)

\* A task that goes missing without having run is lost, which is no phase of
\* OneShots, unless somebody asked for it.  Where ids collide, a call that ends
\* takes away the task that has been scheduled meanwhile: that is put down as
\* dropped.
PhaseOf(t) ==
  IF task[t].id = None \/ task[t].kind = "interval" THEN "unknown"
  ELSE CASE t \in ran /\ runs[t] > 0                    -> "running"
         [] t \in ran /\ runs[t] = 0                    -> "done"
         [] t \notin ran /\ tasks[task[t].id] = t       -> "waiting"
         [] t \notin ran /\ tasks[task[t].id] # t       ->
              IF t \in dismissed \/ "collide" \in client THEN "dropped" ELSE "lost"

Phases == [t \in Task |-> PhaseOf(t)]

OneShot == INSTANCE OneShots WITH phase <- Phases

\* A task that is to run once does not run twice, also when timers that cancel
\* cannot reach any more come due for its id, never runs after it was cancelled,
\* and does run if it was not.  Unless ids collide, it is not lost either
\* (task_scheduler.ts:48).
ImplementsOneShots == OneShot!Spec

=============================================================================
