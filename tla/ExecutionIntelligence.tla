------------------------ MODULE ExecutionIntelligence ------------------------
(***************************************************************************)
(* The Execution Intelligence Layer: one execution session, its task rows  *)
(* in SQLite, and the schedulers that startExecution creates for it.       *)
(*                                                                         *)
(* Every startExecution reads the rows once and hands the copy to a new    *)
(* TaskScheduler, which polls every 50 ms, launches ready tasks and keeps  *)
(* all of its bookkeeping in memory.  Nothing ties a scheduler to the      *)
(* session: pauses, resumes, retries, restored checkpoints and a crash     *)
(* reach it only through the status row that it polls, so several          *)
(* schedulers, and tasks that outlive theirs, may act on the same rows.    *)
(*                                                                         *)
(* Node runs one callback at a time and SQLite calls are synchronous, so   *)
(* an action is one macrotask: an API call, one turn of the polling loop,  *)
(* or the end of one task.                                                 *)
(***************************************************************************)
EXTENDS TaskGraph, Sequences

CONSTANTS
  Task,              \* task ids
  Edge,              \* the dependencies the client may add, <<task, dependsOn>>
  Priority,          \* [Task -> Int], higher launches first
  FailFast,          \* tasks whose action contains "fail": executeFn throws at once
  MayTimeOut,        \* tasks whose timeout is close to the time their work takes
  ConcurrencyLimit,  \* TaskScheduler.concurrencyLimit, 3 in the code
  Run,               \* slots for live schedulers (bound: at most that many at once)
  MaxRetries,        \* bound on a row's retries counter
  MaxCheckpoints,    \* bound on the stored checkpoints
  Enabled,           \* the API calls and faults of this instance
  Overlapping        \* may a start be issued while a scheduler still polls?

Operation == {"restart", "pause", "cancel", "resume", "retry", "skip",
              "checkpoint", "restore", "lateGraph", "crash"}

ASSUME TaskAssumption     == IsFiniteSet(Task)
ASSUME EdgeAssumption     == Edge \subseteq Task \X Task
ASSUME PriorityAssumption == Priority \in [Task -> Int]
ASSUME OutcomeAssumption  == FailFast \subseteq Task /\ MayTimeOut \subseteq Task
ASSUME LimitAssumption    == ConcurrencyLimit \in Nat \ {0}
ASSUME BoundAssumption    == MaxRetries \in Nat /\ MaxCheckpoints \in Nat
ASSUME EnvAssumption      == Enabled \subseteq Operation /\ Overlapping \in BOOLEAN

VARIABLES
  session,       \* execution_sessions.status
  row,           \* execution_tasks.status, per task
  retries,       \* execution_tasks.retries
  deps,          \* execution_dependencies
  checkpoints,   \* execution_checkpoints, oldest first
  run            \* the live TaskScheduler objects and their closures

db   == <<session, row, retries, deps, checkpoints>>
vars == <<session, row, retries, deps, checkpoints, run>>

SessionStatus == {"absent", "created", "running", "paused", "cancelled",
                  "completed", "failed"}
TaskStatus    == {"waiting", "running", "completed", "failed"}
RowStatus     == TaskStatus \cup {"absent"}
Halted        == {"paused", "cancelled"}

(***************************************************************************)
(* A scheduler.  "loop" says whether run() still polls; snap is the array  *)
(* of task objects it was given ("absent": not in the array), edges the    *)
(* dependencies it was given.  When its loop is over its closures may      *)
(* still be in flight (running); with none left it is garbage.             *)
(***************************************************************************)
Scheduler ==
  [loop      : {"none", "polling", "over"},
   snap      : [Task -> RowStatus],
   edges     : SUBSET Edge,
   inDegree  : [Task -> Int],
   runnable  : SUBSET Task,
   completed : SUBSET Task,
   failed    : SUBSET Task,
   running   : SUBSET Task]

NoRun ==
  [loop |-> "none", snap |-> [t \in Task |-> "absent"], edges |-> {},
   inDegree |-> [t \in Task |-> 0], runnable |-> {}, completed |-> {},
   failed |-> {}, running |-> {}]

TypeOK ==
  /\ session \in SessionStatus
  /\ row \in [Task -> RowStatus]
  /\ retries \in [Task -> 0 .. MaxRetries]
  /\ deps \subseteq Edge
  /\ checkpoints \in Seq([row : [Task -> RowStatus],
                          retries : [Task -> 0 .. MaxRetries]])
  /\ run \in [Run -> Scheduler]

-----------------------------------------------------------------------------
(* TaskScheduler: pure steps on one scheduler's record.  A definition whose  *)
(* comment begins with "Faulty:" is a plausible bug in the one that follows  *)
(* it; no action uses it, it shows that some property can tell the two apart. *)

Loaded(s) == {t \in Task : s.snap[t] # "absent"}

\* updateRunnableQueue.  The array is kept sorted by priority, so it is the
\* set of queued tasks that matters; Launchable takes the best of them.
UpdateRunnableQueue(s) ==
  [s EXCEPT !.runnable = @ \cup
     {t \in Task : /\ s.snap[t] = "waiting"
                   /\ s.inDegree[t] = 0
                   /\ t \notin s.running}]

\* Faulty: tasks left running by a dead process are taken for completed.
NewSchedulerTrustingRunning(rows, D) ==
  LET done == {t \in Task : rows[t] \in {"completed", "running"}}
  IN UpdateRunnableQueue(
       [loop |-> "polling", snap |-> rows, edges |-> D,
        inDegree  |-> [t \in Task |-> Cardinality(Prerequisites(D, t) \ done)],
        runnable  |-> {},
        completed |-> done,
        failed    |-> {t \in Task : rows[t] = "failed"},
        running   |-> {}])

\* The set-up of run(): in-degrees, minus the prerequisites already completed.
NewScheduler(rows, D) ==
  LET done == {t \in Task : rows[t] = "completed"}
  IN UpdateRunnableQueue(
       [loop      |-> "polling",
        snap      |-> rows,
        edges     |-> D,
        inDegree  |-> [t \in Task |-> Cardinality(Prerequisites(D, t) \ done)],
        runnable  |-> {},
        completed |-> done,
        failed    |-> {t \in Task : rows[t] = "failed"},
        running   |-> {}])

\* Faulty: off by one, a loop with nothing left to do polls on.
MoreThanAllSettled(s) ==
  Cardinality(s.completed) + Cardinality(s.failed) > Cardinality(Loaded(s))

\* The loop's condition is false: every task is in completed or in failed.
AllSettled(s) ==
  Cardinality(s.completed) + Cardinality(s.failed) >= Cardinality(Loaded(s))

\* Faulty: the limit is applied to each turn, not to what is in flight.
LaunchablePerTurn(s) ==
  {L \in SUBSET s.runnable : Cardinality(L) <= ConcurrencyLimit}

\* Faulty: one place under the limit is never given away.
LaunchableBelowLimit(s) ==
  {L \in SUBSET s.runnable :
     /\ \/ Cardinality(s.running) + Cardinality(L) = ConcurrencyLimit - 1
        \/ L = s.runnable /\ Cardinality(s.running) + Cardinality(L) < ConcurrencyLimit
     /\ \A a \in L, b \in s.runnable \ L : Priority[a] >= Priority[b]}

\* The sets of tasks the inner while loop may shift from the queue: as many
\* as fit under the limit, none of them passed over for one of lower priority.
Launchable(s) ==
  {L \in SUBSET s.runnable :
     /\ \/ Cardinality(s.running) + Cardinality(L) = ConcurrencyLimit
        \/ L = s.runnable /\ Cardinality(s.running) + Cardinality(L) < ConcurrencyLimit
     /\ \A a \in L, b \in s.runnable \ L : Priority[a] >= Priority[b]}

\* The tasks of L start; those that throw at once are failed by the time the
\* loop has gone back to sleep, and their finally block refreshes the queue.
Launch(s, L) ==
  LET thrown  == L \cap FailFast
      started == [s EXCEPT
        !.snap     = [t \in Task |-> IF t \in thrown THEN "failed"
                                     ELSE IF t \in L THEN "running" ELSE @[t]],
        !.runnable = @ \ L,
        !.failed   = @ \cup thrown,
        !.running  = @ \cup (L \ thrown)]
  IN IF thrown = {} THEN started ELSE UpdateRunnableQueue(started)

LaunchRows(rows, L) ==
  [t \in Task |-> IF t \in L \cap FailFast THEN "failed"
                  ELSE IF t \in L THEN "running" ELSE rows[t]]

\* Faulty: the queue is refreshed before the children's in-degrees drop.
CompleteRefreshingEarly(s, t) ==
  [UpdateRunnableQueue([s EXCEPT !.snap[t] = "completed", !.running = @ \ {t}])
     EXCEPT !.completed = @ \cup {t},
            !.inDegree  = [c \in Task |-> IF c \in Children(s.edges, t)
                                          THEN @[c] - 1 ELSE @[c]]]

\* The end of a closure: the try branch, the catch branch, and finally.
Complete(s, t) ==
  UpdateRunnableQueue(
    [s EXCEPT !.snap[t]   = "completed",
              !.completed = @ \cup {t},
              !.inDegree  = [c \in Task |-> IF c \in Children(s.edges, t)
                                            THEN @[c] - 1 ELSE @[c]],
              !.running   = @ \ {t}])

\* Faulty: a failed task frees its dependents like a completed one.
FailFreeingChildren(s, t) ==
  UpdateRunnableQueue(
    [s EXCEPT !.snap[t]  = "failed",
              !.failed   = @ \cup {t},
              !.inDegree = [c \in Task |-> IF c \in Children(s.edges, t)
                                           THEN @[c] - 1 ELSE @[c]],
              !.running  = @ \ {t}])

\* Faulty: a failed task is queued again at once.
FailRequeueing(s, t) ==
  UpdateRunnableQueue([s EXCEPT !.snap[t] = "waiting", !.running = @ \ {t}])

Fail(s, t) ==
  UpdateRunnableQueue(
    [s EXCEPT !.snap[t] = "failed",
              !.failed  = @ \cup {t},
              !.running = @ \ {t}])

\* A scheduler whose loop is over and that waits for no closure is garbage.
Collect(s) == IF s.loop = "over" /\ s.running = {} THEN NoRun ELSE s

-----------------------------------------------------------------------------
(* ExecutionIntelligenceLayer *)

Init ==
  /\ session = "absent"
  /\ row = [t \in Task |-> "absent"]
  /\ retries = [t \in Task |-> 0]
  /\ deps = {}
  /\ checkpoints = << >>
  /\ run = [r \in Run |-> NoRun]

CreateExecution ==
  /\ session = "absent"
  /\ session' = "created"
  /\ UNCHANGED <<row, retries, deps, checkpoints, run>>

\* The graph is built before the first start; later edits are "lateGraph".
GraphIsOpen == session = "created" \/ (session # "absent" /\ "lateGraph" \in Enabled)

\* "insert or replace": a task that exists is replaced by a waiting one, and
\* the delete cascades to the dependencies it had.
AddTask(t) ==
  /\ GraphIsOpen
  /\ row' = [row EXCEPT ![t] = "waiting"]
  /\ retries' = [retries EXCEPT ![t] = 0]
  /\ deps' = {e \in deps : e[1] # t}
  /\ UNCHANGED <<session, checkpoints, run>>

\* The foreign key demands a row for the dependent task only.
AddDependency(e) ==
  /\ GraphIsOpen
  /\ row[e[1]] # "absent"
  /\ deps' = deps \cup {e}
  /\ UNCHANGED <<session, row, retries, checkpoints, run>>

\* Faulty: a status that no reader of the session knows.
FinalStatusUnknown(rows) ==
  IF \E t \in Task : rows[t] = "failed" THEN "failed" ELSE "finished"

\* The status written when run() has returned: from the rows, whatever the
\* reason the loop ended for.
FinalStatus(rows) ==
  IF \E t \in Task : rows[t] = "failed" THEN "failed" ELSE "completed"

\* startExecution on the given rows, up to the first sleep of the polling
\* loop.  A caller that awaits its starts never has two loops polling.
StartOn(rows) ==
  LET D == {e \in deps : rows[e[1]] # "absent"}
      s == NewScheduler(rows, D)
  IN
  /\ session # "absent"
  /\ Overlapping \/ \A r \in Run : run[r].loop # "polling"
  /\ \/ /\ HasCycle({t \in Task : rows[t] # "absent"}, D)
        /\ session' = "failed"
        /\ row' = rows
        /\ UNCHANGED run
     \/ /\ ~HasCycle({t \in Task : rows[t] # "absent"}, D)
        /\ AllSettled(s)
        /\ session' = FinalStatus(rows)
        /\ row' = rows
        /\ UNCHANGED run
     \/ /\ ~HasCycle({t \in Task : rows[t] # "absent"}, D)
        /\ ~AllSettled(s)
        /\ session' = "running"
        /\ \E r \in Run, L \in Launchable(s) :
             /\ run[r].loop = "none"
             /\ run' = [run EXCEPT ![r] = Launch(s, L)]
             /\ row' = LaunchRows(rows, L)

\* "restart": a start of an execution that has been started (or halted) before.
StartExecution ==
  /\ session = "created" \/ "restart" \in Enabled
  /\ StartOn(row)
  /\ UNCHANGED <<retries, deps, checkpoints>>

PauseExecution ==
  /\ "pause" \in Enabled
  /\ session # "absent"
  /\ session' = "paused"
  /\ UNCHANGED <<row, retries, deps, checkpoints, run>>

\* resumeExecution sets 'running' and calls startExecution, whatever the
\* status was and whether or not the paused scheduler has stopped.
ResumeExecution ==
  /\ "resume" \in Enabled
  /\ StartOn(row)
  /\ UNCHANGED <<retries, deps, checkpoints>>

CancelExecution ==
  /\ "cancel" \in Enabled
  /\ session # "absent"
  /\ session' = "cancelled"
  /\ UNCHANGED <<row, retries, deps, checkpoints, run>>

\* Faulty: tasks that are still running are reset together with failed ones.
FailedOrRunning == {t \in Task : row[t] \in {"failed", "running"}}

Failed == {t \in Task : row[t] = "failed"}

\* retryExecution, and recoverExecution(_, "resume") which only calls it.
\* No code compares retries with max_retries; MaxRetries is a bound.
RetryExecution ==
  /\ "retry" \in Enabled
  /\ \A t \in Failed : retries[t] < MaxRetries
  /\ StartOn([t \in Task |-> IF t \in Failed THEN "waiting" ELSE row[t]])
  /\ retries' = [t \in Task |-> IF t \in Failed THEN retries[t] + 1 ELSE retries[t]]
  /\ UNCHANGED <<deps, checkpoints>>

\* Faulty: skipping marks everything unfinished completed.
SkipUnfinished ==
  /\ "skip" \in Enabled
  /\ StartOn([t \in Task |-> IF row[t] \in {"failed", "waiting"} THEN "completed"
                              ELSE row[t]])
  /\ UNCHANGED <<retries, deps, checkpoints>>

\* recoverExecution(_, "skip")
RecoverBySkip ==
  /\ "skip" \in Enabled
  /\ StartOn([t \in Task |-> IF t \in Failed THEN "completed" ELSE row[t]])
  /\ UNCHANGED <<retries, deps, checkpoints>>

CreateCheckpoint ==
  /\ "checkpoint" \in Enabled
  /\ session # "absent"
  /\ Len(checkpoints) < MaxCheckpoints
  /\ checkpoints' = Append(checkpoints, [row |-> row, retries |-> retries])
  /\ UNCHANGED <<session, row, retries, deps, run>>

\* restoreCheckpoint on any stored checkpoint; recoverExecution(_, "rollback")
\* restores the latest one.  Rows added since the checkpoint are left alone,
\* and neither the session nor a scheduler hears of it.
RestoreCheckpoint(i) ==
  /\ "restore" \in Enabled
  /\ LET saved == checkpoints[i]
         known == {t \in Task : saved.row[t] # "absent"}
     IN /\ row' = [t \in Task |-> IF t \in known THEN saved.row[t] ELSE row[t]]
        /\ retries' = [t \in Task |-> IF t \in known THEN saved.retries[t]
                                      ELSE retries[t]]
  /\ UNCHANGED <<session, deps, checkpoints, run>>

-----------------------------------------------------------------------------
(* The scheduler's own steps *)

\* Faulty: the turn does not look at the session's status.
PollIgnoringHalt(r) ==
  /\ run[r].loop = "polling"
  /\ ~AllSettled(run[r])
  /\ \E L \in Launchable(run[r]) :
       /\ run' = [run EXCEPT ![r] = Launch(run[r], L)]
       /\ row' = LaunchRows(row, L)
  /\ UNCHANGED <<session, retries, deps, checkpoints>>

\* One turn of the loop that finds work to do.
Poll(r) ==
  /\ run[r].loop = "polling"
  /\ ~AllSettled(run[r])
  /\ session \notin Halted
  /\ \E L \in Launchable(run[r]) :
       /\ run' = [run EXCEPT ![r] = Launch(run[r], L)]
       /\ row' = LaunchRows(row, L)
  /\ UNCHANGED <<session, retries, deps, checkpoints>>

\* The loop ends, because all is settled or because the session is halted;
\* either way startExecution goes on to write the final status.
Finish(r) ==
  /\ run[r].loop = "polling"
  /\ AllSettled(run[r]) \/ session \in Halted
  /\ session' = FinalStatus(row)
  /\ run' = [run EXCEPT ![r] = Collect([@ EXCEPT !.loop = "over"])]
  /\ UNCHANGED <<row, retries, deps, checkpoints>>

TaskCompletes(r, t) ==
  /\ t \in run[r].running
  /\ run' = [run EXCEPT ![r] = Collect(Complete(@, t))]
  /\ row' = [row EXCEPT ![t] = "completed"]
  /\ UNCHANGED <<session, retries, deps, checkpoints>>

\* Faulty: the timeout is noted in memory but not in the row.
TimeoutNotRecorded(r, t) ==
  /\ t \in run[r].running
  /\ t \in MayTimeOut
  /\ run' = [run EXCEPT ![r] = Collect(Fail(@, t))]
  /\ UNCHANGED db

\* The timeout wins the race; executeFn is not stopped, its result is dropped.
TaskTimesOut(r, t) ==
  /\ t \in run[r].running
  /\ t \in MayTimeOut
  /\ run' = [run EXCEPT ![r] = Collect(Fail(@, t))]
  /\ row' = [row EXCEPT ![t] = "failed"]
  /\ UNCHANGED <<session, retries, deps, checkpoints>>

\* The process dies: schedulers and closures are gone, the rows stay.
Crash ==
  /\ "crash" \in Enabled
  /\ run' = [r \in Run |-> NoRun]
  /\ UNCHANGED db

\* What the 50 ms timer of a loop does, and how a closure ends.
Turn(r) == Poll(r) \/ Finish(r)

TaskEnds(r, t) == TaskCompletes(r, t) \/ TaskTimesOut(r, t)

Next ==
  \/ CreateExecution
  \/ \E t \in Task : AddTask(t)
  \/ \E e \in Edge : AddDependency(e)
  \/ StartExecution
  \/ PauseExecution
  \/ ResumeExecution
  \/ CancelExecution
  \/ RetryExecution
  \/ RecoverBySkip
  \/ CreateCheckpoint
  \/ \E i \in DOMAIN checkpoints : RestoreCheckpoint(i)
  \/ \E r \in Run : Poll(r)
  \/ \E r \in Run : Finish(r)
  \/ \E r \in Run, t \in Task : TaskCompletes(r, t)
  \/ \E r \in Run, t \in Task : TaskTimesOut(r, t)
  \/ Crash

Spec == Init /\ [][Next]_vars

\* The loop's 50 ms timer always fires again, and every launched task ends:
\* its own 100 ms timer or its timeout settles the race.  Nobody owes an API
\* call, so no other action is fair.
Fairness ==
  /\ \A r \in Run : WF_vars(Turn(r))
  /\ \A r \in Run, t \in Task : WF_vars(TaskEnds(r, t))

FairSpec == Spec /\ Fairness

-----------------------------------------------------------------------------
(* Properties of every scheduler, whatever else acts on the session *)

PrerequisitesMet(s, t) == Prerequisites(s.edges, t) \subseteq s.completed

(* No wake-up is lost: while a scheduler lives, the queue that its closures *)
(* refresh in their finally blocks holds exactly the tasks that wait and    *)
(* whose prerequisites it has seen complete.                                *)
NoLostWakeup ==
  \A r \in Run : run[r].loop # "none" =>
    run[r].runnable = {t \in Task : /\ run[r].snap[t] = "waiting"
                                    /\ PrerequisitesMet(run[r], t)}

(* A task is in flight only when the scheduler that launched it has seen    *)
(* every prerequisite complete: failures and timeouts free no dependent.    *)
DependencyOrder ==
  \A r \in Run : \A t \in run[r].running : PrerequisitesMet(run[r], t)

(* concurrencyLimit bounds the closures of one scheduler.                   *)
ConcurrencyBound ==
  \A r \in Run : Cardinality(run[r].running) <= ConcurrencyLimit

\* A loop that polls on with tasks left, nothing queued and nothing in flight.
Stalled(s) ==
  /\ s.loop = "polling"
  /\ \E t \in Loaded(s) : t \notin s.completed \cup s.failed
  /\ s.runnable = {}
  /\ s.running = {}

(* hasCycle rules out every stall that the graph itself could cause: a      *)
(* scheduler polls on idly only if a task failed, or was loaded as running  *)
(* and belongs to some other scheduler or to a dead process.                *)
StallHasCause ==
  \A r \in Run : Stalled(run[r]) =>
    \E t \in Task : run[r].snap[t] \in {"failed", "running"}

(* Once a pause or a cancellation is in the row, no scheduler launches      *)
(* another task before some start has put the session back to running, or   *)
(* a loop that ends has overwritten the halt.                               *)
HaltStopsLaunching ==
  [][(session \in Halted /\ session' \in Halted) =>
       (\A r \in Run, t \in Task : run[r].snap[t] = "waiting" =>
          run'[r].snap[t] \notin {"running", "failed"})]_vars

(* A turn of a loop that has tasks left is never blocked, and launches      *)
(* something unless it waits for a closure of its own or is stalled: the    *)
(* limit is never used up by nothing (execution_intelligence.ts:167).       *)
LoopCanAct ==
  \A r \in Run : run[r].loop = "polling" /\ ~AllSettled(run[r]) =>
    /\ Launchable(run[r]) # {}
    /\ {} \in Launchable(run[r]) => run[r].running # {} \/ Stalled(run[r])

(* While a scheduler lives its view only goes forward, whoever rewrites the *)
(* rows, races it or starts others: it launches a task at most once, after  *)
(* everything the task depends on, ends only what it launched, and what it  *)
(* has noted of an end is final (execution_intelligence.ts:146).            *)
ViewGoesForward ==
  [][\A r \in Run : run[r].loop # "none" /\ run'[r].loop # "none" =>
       \A t \in Task :
         \/ run'[r].snap[t] = run[r].snap[t]
         \/ /\ run[r].snap[t] = "waiting" /\ PrerequisitesMet(run[r], t)
            /\ run'[r].snap[t] \in {"running", "failed"}
         \/ /\ run[r].snap[t] = "running" /\ t \in run[r].running
            /\ run'[r].snap[t] \in {"completed", "failed"}]_vars

-----------------------------------------------------------------------------
(* Properties under a serial client: one loop at a time, no rows rewritten  *)
(* behind a scheduler's back.  Closures of a halted loop, retries, skips    *)
(* and crashes remain.                                                      *)

SerialClient == ~Overlapping /\ Enabled \cap {"restore", "lateGraph"} = {}

(* The snapshot a polling scheduler decides on is not stale: a task it has  *)
(* as waiting, completed or failed is so in the database.                   *)
SnapshotCoherent ==
  \A r \in Run, t \in Task :
    run[r].loop = "polling" /\ run[r].snap[t] # "running" =>
      run[r].snap[t] = row[t]

(* No task is in flight twice, not even in a closure left behind by a       *)
(* paused loop and in the loop that a resume started.                       *)
NoDoubleExecution ==
  \A r, q \in Run : r # q => run[r].running \cap run[q].running = {}

(* No row leaves "waiting" before the rows of its prerequisites say         *)
(* completed, across retries, skips, resumed loops and restarts.            *)
RowsRespectDependencies ==
  \A t \in Task : row[t] \in {"running", "completed", "failed"} =>
    \A d \in Prerequisites(deps, t) : row[d] = "completed"

(* The rows of a serially driven execution behave as DagExecution promises. *)
Dag == INSTANCE DagExecution
ImplementsDag == Dag!Spec

\* A loop ends because of a pause or a cancellation.
HaltedLoopEnds ==
  /\ session \in Halted
  /\ \E r \in Run : run[r].loop = "polling" /\ run'[r].loop # "polling"

(* A session is marked completed only when every task row is completed, also *)
(* by starts after a crash, a retry or a skip; only the loop that a halt ends *)
(* writes completed over tasks that are not.                                 *)
HonestCompletion ==
  [][(session # "completed" /\ session' = "completed" /\ ~HaltedLoopEnds) =>
       \A t \in Task : row'[t] \in {"completed", "absent"}]_vars

-----------------------------------------------------------------------------
(* Liveness *)

\* The final session outcomes.
Final == {"completed", "failed", "cancelled"}

(* A polling loop ends, or stalls for one of the causes above.              *)
LoopEndsOrStalls ==
  \A r \in Run : run[r].loop = "polling" ~>
                   (run[r].loop # "polling" \/ Stalled(run[r]))

(* A running session reaches one of its final outcomes.                     *)
OutcomeIsReached == session = "running" ~> session \in Final

(* Cancelled is a final outcome: only another start leaves it.              *)
CancelledIsFinal == [][session = "cancelled" => session' = "cancelled"]_session

=============================================================================
