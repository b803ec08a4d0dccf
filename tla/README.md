# A verification of the agathi-cli core

The repository is *tu2pu* (`agathi-cli`), a TypeScript agent platform: a command
line, a local server, a dashboard and some sixty packages that plan, execute,
route and remember the work of language-model agents.  A CPython 3.8.10 source
tree is checked in beside it; nothing in the program builds or uses it, and it
is no part of this project.

This directory holds TLA+ models of the parts of the program in which order,
concurrency and failure matter, the TLC configurations that check them, and
TLAPS proofs of their main properties.  `PROJECT.json` is the index: components,
runs, mutants, the source lines of every definition, hazards, findings and
theorems.

* [How the program runs](#how-the-program-runs)
* [Inventory](#inventory)
* [The modules](#the-modules)
* [The runs](#the-runs)
* [Fairness](#fairness)
* [What is proved](#what-is-proved)
* [Findings](#findings)
* [What is not modelled](#what-is-not-modelled)
* [Plan](#plan)

## How the program runs

Everything that matters for interleavings follows from three facts.

* Node runs one callback at a time.  A function runs without interruption up to
  its next `await` of something that is not settled; between two macrotasks any
  timer, HTTP answer or other async function may run.  So an *action* of a model
  is one macrotask: an API call up to its first real wait, one turn of a polling
  loop, the end of one task.
* `better-sqlite3` is synchronous.  Reads and writes of the database are part of
  the macrotask that makes them; an `async` function that only touches the
  database runs to its end in one go.  Foreign keys are on, so `insert or replace`
  deletes the old row and cascades.
* The services are global singletons (`ExecutionIntelligence`, `resourceManager`,
  `executionSandbox`, `ContextOS.state`, ...).  Concurrent requests of a server or
  of two sessions share their state.

Components talk by direct calls of these singletons, by rows in the shared
database, and by the event bus (`packages/core/event_bus.ts`), which calls its
listeners synchronously, catches what they throw and keeps the last 1000 events.
No modelled component reads another's events, so publishing is left out.  A listener
may call a component, though, while a call of it is being made: where an `async`
function only waits for others that touch nothing but the database, this and calls
begun together are the only ways to get in between its awaits.

## Inventory

Lines are lines of TypeScript.  "Hard" names what makes the part difficult, "Right
when" what must hold of it.

### Execution

| Part | State | Operations | Hard | Right when |
|---|---|---|---|---|
| **Execution Intelligence Layer** `execution_intelligence` (835) | rows: sessions, tasks, dependencies, checkpoints; memory: one `TaskScheduler` per start | create, addTask, addDependency, start, pause, resume, cancel, retry, recover, checkpoint, restore, the 50 ms polling loop, the end of a task | several schedulers on the same rows, each with its own copy; closures that outlive their loop; task timeouts; crashes | tasks wait for their prerequisites, run once, within the limit; the outcome is reached and true |
| **DependencyResolver** (same file) | in-degrees, queue, counter | `hasCycle` | unknown ids, any order of rows | it answers yes exactly when some task can never be freed |
| **ResourceManager** `execution_layer` | pool, reservations, ledger, snapshots | register, validate, reserve, release, snapshot, restore | check before reserve; restore and resize under way | the pool is never overdrawn by a grant; every grant comes back |
| **ExecutionSandbox, UELPipeline** | sandboxes by session, audit | create, execute, timeout, rollback, cleanup, destroy | a timeout that stops nobody; error paths; two calls of a session | a call holds its reservation exactly while it executes, leaves no sandbox behind |
| **CapabilityNegotiator** | history of plans | analyze, resolveDependencies, validate, negotiate | dependency cycles | plans list dependencies first and only healthy capabilities |
| **CapabilityRegistry, ConnectorFramework** | capabilities, health, connectors | register, update health, connect, execute | health changes between plan and use | a plan uses what is available |
| **ExecutionManager** | execution sessions in a map | start, transition, record | any transition is accepted | a terminal state is final |

### Sessions and memory

| Part | State | Operations | Hard | Right when |
|---|---|---|---|---|
| **Context OS state machine** `context_engine` (888) | current and previous state, pause flag, ids of one session | startExecution, transition, pause, resume, complete, cancel, fail, rollback, recover | one global machine for all sessions; state in memory and in rows | only tabled transitions; memory, row and history agree |
| **Memory** `memory` (1591) | contexts, sessions, history, facts | create, update, log, prune | cascades of `insert or replace`; pruning at 50 | no live session is lost |
| **SessionManager, WorkflowManager** `session_manager`, `tool_router` | none of their own | update metadata, legacy transitions | re-creates sessions, forces states | as above |
| **ToolRouter** `tool_router` (1147), **AgentRuntime** `agent_runtime` (848) | messages, workflow state, retry counters | the tool loop (20 iterations, 3 retries without a tool), three validation retries | limits, aborts, errors between two states | every request ends in a terminal state with an answer |
| **Workflow Intelligence Layer** `workflow_intelligence` (948) | workflows, nodes, edges, checkpoints, branches | start, pause, resume, approve, reject, branch, merge, rollback | approvals that race schedulers | nothing behind an approval runs before it |
| **Agent Orchestration Layer** (1198), **Cognitive Engine** (2379) | sessions, assignments, goals | plan, assign, merge, track goals | long sequences of row updates | goals close when their children do |

### Services

| Part | State | Operations | Hard | Right when |
|---|---|---|---|---|
| **ModelRouter** `router` (191) and model processes | active model, `ensuringPromise` | ensure, chat, stream | check, await, act | one model start at a time |
| **Plugin SDK** (306) | plugins, states, subscriptions | load, execute, reload, enable, disable | late failures of an old instance, dependencies | running plugins have running dependencies |
| **TaskScheduler** `task_scheduler` (88) | tasks, timers | schedule, run, cancel | re-scheduling an id | a cancelled task never runs |
| **UnifiedRuntime, BootManager, core** (614) | engines, start order, event history | initialize, start, stop, dispose | order | dependencies start first, stop last |
| **Builder Engine** (558) | incremental snapshots | build, fix loop, snapshot, restore | numbering, deletions | restore gives back what was saved |

### The rest

Text and scoring (`prompt_intelligence`, `reasoning_intelligence`,
`knowledge_intelligence`, `skills_layer`, `prompt_planner`, ...), wrappers of files,
processes and remote services (`project_manager`, `git`, `filesystem`, `browser`,
`deployment_engine`, `download_manager`, ...), one-step engine shells
(`execution_engine`, `validation_engine`, `workflows`, ...), terminals and logging,
and the applications (`apps/cli`, `apps/server`, `apps/dashboard`,
`apps/vscode-extension`) keep no state whose order could go wrong beyond the parts
above.  They are listed with their reasons in `PROJECT.json`.

## The modules

```
TaskGraph ──────────┬── DagExecution                (abstract: task rows)
                    ├── ExecutionIntelligence ── MCExecutionIntelligence
                    │      └─ _proofs ── _serial_proofs
                    ├── DependencyResolver ── _proofs
                    └── WorkflowIntelligence ── MCWorkflowIntelligence
                           └─ _proofs

ResourceLeases (abstract) ── UniversalExecution ── MCUniversalExecution
                                └─ _proofs
SessionLifecycle (abstract) ── ContextStateMachine ── MCContextStateMachine
                                  └─ _proofs
AgentRuntime ── MCAgentRuntime
   └─ _proofs
OneShots (abstract) ── TaskScheduler ── MCTaskScheduler
                          └─ _proofs
```

**TaskGraph** has the graph operators the others share, `HasCycle` among them: what
`hasCycle` answers, without saying how; `Schedulable` is what its caller wants to know.

**ExecutionIntelligence** is one execution.  `session`, `row`, `retries`, `deps` and
`checkpoints` are its rows in SQLite; `run` holds the live schedulers, each a record
with the fields of `TaskScheduler` and of the local variables of its `run()`: the
copy of the rows it was given (`snap`), the edges, `inDegree`, `runnable`,
`completed`, `failed`, and the tasks whose closures are in flight (`running`).  The
steps of a scheduler are operators on this record (`NewScheduler`, `Launch`,
`Complete`, `Fail`, `UpdateRunnableQueue`) that the actions apply to a slot of `run`;
the action changes the rows in the same step, as the code does.  There is one action
for each API call and three for the scheduler: a turn of the loop that launches
(`Poll`), one that leaves the loop and writes the outcome (`Finish`), and the end of
a closure (`TaskCompletes`, `TaskTimesOut`).  `Crash` is the death of the process.
What the client may do is a constant, so that a run can name the client it checks:
`Overlapping` says whether it starts an execution whose loop still polls, `Enabled`
lists the calls it makes.  Several points are easily got wrong:

* the queue is kept sorted by priority in the code; the model keeps the set and takes
  from it any best tasks (`Launchable`), which leaves ties open;
* a task whose action contains `fail` throws before its first wait, so it has failed,
  and its `finally` has refreshed the queue, when the launching turn goes to sleep;
* `recoverExecution` with *resume*, *skip* and *rollback* are `RetryExecution`,
  `RecoverBySkip` and `RestoreCheckpoint`;
* `addTask` on a task that exists replaces the row and thereby deletes its
  dependencies.

**DagExecution** says what the rows of an execution promise, without schedulers or
sessions.  `ExecutionIntelligence` implements it by the identity mapping on `row` and
`deps`, with a *serial* client: one that awaits its starts, does not edit a graph that
has started and restores no checkpoint.

**DependencyResolver** is Kahn's algorithm as `hasCycle` runs it, an iteration a step,
on any graph and in any order of its rows.

**UniversalExecution** is any number of concurrent calls of `runUELPipeline` on the
global resource manager and sandbox.  `pool`, `reservation`, `history` and `snapshot`
are `ResourceManager`'s; reservations are named by the call that made them (the code
draws a random id).  `owner` is the sandbox map, with the call that created each entry.
`stage` is where a call waits: for the capability or its timeout (`executing`), for
`rollback()`, for `cleanup()`.  Negotiation, sandbox creation, validation, reservation
and the start of the capability are one macrotask, hence one action (`Begin`, or
`Refuse` and `Reject` on its error paths).  `work` is the capability itself, which a
timeout does not stop.  The amounts of a pool are a set `Resource` with any demands, so
cpu, memory, gpu, disk, tokens and cost are all instances.

**ResourceLeases** says what the manager promises: a call is granted its whole demand or
nothing, grants fit what the pool has left, and each is returned once.  The refinement
maps `leased` to the reservations that are held and `returned` to the released ones.

**ContextStateMachine** is the one global `ExecutionStateMachine` of Context OS with the
rows that `SessionMemory` keeps for it, for `SessionManager` and for the chats of
`AgentRuntime`.  `machine` has its fields, `row` is `sessions.current_state`, `last` the
latest entry of `state_history`, `older` the order of `started_at` that pruning goes by.
Memory moves before the rows do, so the error paths matter: without a row the update
changes nothing, the entry is refused by its foreign key and the caller gets an error,
but the machine has moved.  `Replace` is `createSession` with all its cascades.  The
optional calls are constants of the client: *legacy* transitions (`WorkflowManager`
forces what the table refuses, in memory only), *rollback*, and *sessions* (rows
written by others than the machine).

**SessionLifecycle** says what the rows of sessions promise to who reads them: what has
ended stays ended and what has failed comes back by a recovery only, until the session is
started anew or removed.  The refinement maps a row to its phase, for clients that neither
force nor roll back.

**WorkflowIntelligence** is one workflow.  `status`, `row`, `edges` and `checkpoint` are
its rows, `call` holds the calls of `startWorkflow` under way, each with the nodes and the
edges it has read (`view`, `links`) and the nodes it has run (`ran`).  A start waits five
times, each time for a function that only touches the database; between these awaits others
may come, in the loop they may not.  The loop works on its copy and writes the nodes it ran in one
transaction at its end, and only those, which is what a stale copy could do harm by.  `Turn` is one
iteration, `Leave` and `Turn` on an approval end the loop, `Check` and `Finish` are what
`startWorkflow` does then.  The clients: *overlap* does not await its calls, *decide*
approves and rejects approvals that are open, *force* does so with any node, *rewrite*
restarts, restores and recompiles, *merge* takes statuses from a branch, which is a
workflow of its own and may be in any state.  `compileWorkflow` checks nothing.  What a
client with care compiles is in `Recompilable`: once the workflow has been started, a
definition of at least the nodes there are, which all begin anew, and none while it holds a
checkpoint of the old one; `ForgetCheckpoint` lets it give up a checkpoint.  The client
*patch* has no such care and compiles anything at any time.  `Orderly` names the clients
for which the nodes keep their order.

**AgentRuntime** composes three components: the requests of `AgentRuntime` (`req`), the
loop of `ToolRouter` that each runs (`loop`), and `ExecutionManager`'s record of it
(`session` in `req`); `state` is what `WorkflowManager.getCurrentState` tells all of them.
`Begin` to `AskDirectly` lead to the loop, `Enter` to `GiveUp` are the loop, `Verified`,
`Retry` and `Fail` follow it.  `chat` and `chat_stream` have the same control and
differ in what they do with an analysis of files.  The model's answers, the results of
tools and whether files are modified are nondeterministic; `told` is the state that the
conversation last named.  `ensure`, which starts a model, is one await that never rejects:
it catches everything.  Its legacy transitions are never refused here, as nobody outside
tests pauses the machine; what they do to rows is in ContextStateMachine.

**TaskScheduler** is the scheduler of timers.  `tasks` and `timers` are its two maps by
id; `armed` is what the event loop holds, which follows neither: a call with an id that is
in use forgets the earlier timer without clearing it, an immediate cannot be cleared
at all, and a timer that comes due runs whatever task the map has for the id.  Objects
(`Task`) stand for calls of `schedule`.  The client option *collide* lets ids be in use,
as callers make them from the clock.

**OneShots** says what such a scheduler promises of a task that is to run once: it starts,
once, unless it is dropped before.  The refinement maps an object that left the map
without having run to *dropped* if a cancel or another schedule of its id came after it,
and otherwise to no phase at all, which would refute it; only where ids collide, a task that goes
missing is put down as dropped, so that there the refinement does not say that none is lost.

Definitions whose comment begins with "Faulty:" are plausible bugs in the definition
after them.  No action uses them; for each property one of them shows that the
property would catch it (`mutants` in `PROJECT.json`).

## The runs

| Run | States | What it shows |
|---|---:|---|
| `ei_overlap` | 113,642 | two schedulers that may poll at once, three tasks on all subgraphs of a cycle; pauses, resumes, cancellations, retries, skips, crashes: no wake-up is lost, order and limit hold, a stall has a cause, a halt stops launches |
| `ei_edits` | 171,413 | rows and edges rewritten under a polling scheduler (late addTask and addDependency, restored checkpoints): a loop that is not stalled can act, its view only goes forward, and it ends or stalls |
| `ei_serial` | 20,662 | a serial client with pauses, resumes, retries, skips, cancellations, crashes: the scheduler's view is not stale, nothing runs twice, rows respect the graph and implement `DagExecution`, completed is honest |
| `resolver` | 5,033 | every graph on three ids, with edges to ids that are no tasks: the answer is exact, and yes exactly when the tasks cannot be put in order |
| `uel_leases` | 255,160 | four calls, two to a session, in a pool that shrinks and grows: reservations, ledger and sandboxes on every path, no capacity lost, `ResourceLeases` implemented, every reservation returned |
| `uel_snapshot` | 4,576,923 | four calls in a pool where slots or amounts may run out first, snapshots taken and restored while calls are in flight: neither slots nor amounts are exceeded |
| `context` | 356,292 | three sessions where one is kept, under each combination of optional calls: row and history agree always, memory and row where nobody writes behind the machine, pruning keeps up, `SessionLifecycle` is implemented |
| `workflow` | 157,123 | a workflow with an approval and a failing node on all subgraphs of five edges, for overlapping, deciding, forcing, rewriting and patching clients: gates hold for the orderly ones, completed is honest, a halt stops the nodes, running ends |
| `tool_loop` | 570,416 | two requests, in turn or at once: loop and attempts end, the record tells the outcome, an answer is judged by the state the model was told |
| `timers` | 208,528 | three calls of schedule with two ids that may collide: no overlap, `OneShots` implemented, its liveness included |
| `ei_cancel_final`, `ei_failed_prereq` | | the [findings](#findings): TLC finds the property violated |

Deadlock is checked in `timers` only, where a cancel is always possible.  Elsewhere a
client may stop calling, or all requests are over, and then nothing is left to do.

**Bounds.**  Three tasks are enough for a chain, a join, a fork, a cycle, a cycle with a
tail and an edge to a task that does not exist; since the client adds tasks and edges one
by one and may start at any time, a run explores *all* subgraphs of its `Edge`.  Two
schedulers are one that polls beside one that polls, or beside the closures of a loop
that has ended; a third adds no new kind of neighbour, as schedulers meet only in the
rows.  The limit of 2 (3 in the code) is reached by two tasks and makes a third wait.
`MaxRetries` and `MaxCheckpoints` bound counters that the code does not bound; one
retry resets failed tasks among others, and one checkpoint is restored over later rows.
`ei_edits` has two tasks and one slot, since here rows, edges and schedules all vary.
In the execution layer, four calls with two resources and two slots have pairs that fit,
pairs that fail on one resource, calls that need none of a resource, a plan that asks
for more than its capability, and, in `uel_snapshot`, a triple that fails on slots alone; the pool can lose
each resource or gain enough for all.

Three sessions with room for one are the machine's, one that others write and one that
pruning takes, in every order of age.  In `workflow` the edges are a chain, a cycle
and one from a node that does not exist, two starts overlap, and one checkpoint is held at a
time.  A definition has one edge at most, since several lead to the same rows and edges; the
clients that patch have three definitions, which make a line, a cycle, and an edge from a
node that does not exist, of all nodes or of one.  In `tool_loop` the limits
are 3 iterations, 1 refused text and 2 attempts instead of 20, 3 and 3: three answers
let a call be repeated and the text that follows be judged, and each limit is reached.
A message makes one call or two of which the first is *finish*; what longer messages do is
the same step again, and the proofs have any messages.  Three calls of `schedule` on two
ids are one that is replaced while armed or running, the one that replaces it, and a
bystander.

What does not depend on the size is
[proved](#what-is-proved) for every size.

## Fairness

* *The polling loop*: `WF(Turn(r))`.  `run()` awaits a 50 ms timer while its condition
  holds; a Node timer always fires.
* *A task*: `WF(TaskEnds(r, t))`.  The closure races a 100 ms timer (the work, which the
  code simulates) with the task's own timeout; one of them fires.
* *A capability*: `WF(Settle(e))`.  `enforceTimeout` races it with a timer.
* *A start of a workflow*: `WF(Step(c))`.  All it awaits is settled already, so its
  continuation is a microtask, which Node runs before anything else.
* *A request*: `WF(Step(r))`.  What is awaited settles: a model or a tool answers or
  rejects.  Requests to models time out after 30 s (`model_router.ts:13`), but a streamed
  answer only until it begins, and tools have no timeout here, so `Settles` is relative to
  streams and tools that do not stay silent.  The loop's steps between awaits
  are plain code.
* *A timer*: `WF(Fire(t))`.  Timers and immediates come due; of the tasks' actions, which
  may never settle, nothing is assumed.

Nothing else is fair.  Nobody owes an API call; nor does anybody approve; `rollback()` and `cleanup()` of a
capability have no timeout, so a call may stay in them for ever, and the reservation is
returned before they begin.  Liveness is checked without symmetry and without state
constraints.

## What is proved

Every theorem holds for every value of the constants that satisfies the named
assumptions of its module: types of the constants, finite sets of tasks and calls, a
positive limit, nonnegative demands and pools.

**ExecutionIntelligence, any client** (`ExecutionIntelligence_proofs`): `TypeCorrect`,
`WakeupsKept`, `DependenciesKept`, `LimitKept`, `LoopsCanAct`, `StallsExplained`, and for
steps `HaltsHold`, `ViewsGoForward` and `SchedulersRunDown`.  The invariant is `TypeOK` with `SchedulerOK` of every
scheduler: `completed`, `failed` and `runnable` are determined by `snap` and the
in-degrees, an in-degree counts the prerequisites that are not completed, what is in
flight was ready, and the graph that was loaded has no cycle.  None of the properties
is inductive alone: that the queue is complete needs the in-degrees, whose
decrement at the end of a task needs that this task was not yet completed, which needs
that what is in flight is `running` in the snapshot.  It is a property of one
scheduler's record, so each step's lemma (`NewSchedulerOK`, `LaunchOK`, `CompleteOK`,
`FailOK`, `CollectOK`) does not mention the rest of the state, and rows that anybody
rewrites cannot disturb it.  `StallsExplained` shows that the tasks left waiting in an
uncaused stall would be the witness of `HasCycle`.

**ExecutionIntelligence, serial client** (`ExecutionIntelligence_serial_proofs`):
`ViewsStayFresh`, `TasksRunOnce`, `RowsKeepOrder`, `CompletionIsHonest` and `ImplementsDagExecution`.  To `IInv` it adds `SInv`:
the rows of what is in flight anywhere, closures of ended loops included, are
`running`; one loop polls at most, on the current edges; nothing lives before the first
start.  Then a start never takes a task in flight for waiting, a failed task has no
dependent that has begun, and so retries and skips may reset it.

**DependencyResolver** (`DependencyResolver_proofs`): `ResolverTypeCorrect`,
`HasCycleIsExact`, for every finite graph and every order.  The
invariant says that in-degrees count unvisited prerequisites, that a task is queued when
all of its own are visited (`VisitsInOrder`), and that a *knot*, a set of
tasks each of which waits for another or for no task at all, is never entered; the
tasks left unvisited at the end are a knot.  That a graph without a knot can be put in order
(`AcyclicMeansOrdered`) takes a smallest set of tasks that has no place in an order of the
rest: it has a task that waits for no other of it, which can go last.

**UniversalExecution** (`UniversalExecution_proofs`): `ExecutionTypeCorrect` and
`NoSandboxLeft` for everything; `LeasesKept`, `RefusalsExplained` and
`ImplementsResourceLeases` unless snapshots are restored; `SlotsKept` and `AmountsKept`
unless the pool is resized, restores included.  The invariant has the snapshot carry the
bound of the pool (what is restored fitted the same pool), and idle calls unreserved.
Amounts are sums over the held reservations, by a fold of the community modules whose
order of elements `CHOOSE` picks.  `TotalIsUnits` shows that the sum is the number of
units demanded, a set that depends on no order, by a minimal counterexample among the
finite subsets (their strict inclusion is well founded); with it adding a reservation
adds its demand.

**ContextStateMachine** (`ContextStateMachine_proofs`): `ContextTypeCorrect`,
`HistoryAgrees`, `MemoryAgrees`, `PruningKeepsUp` and `ImplementsSessionLifecycle`.  The
bound needs that ages are a strict total order of the sessions there are (`AgeOrdered`):
then all but the `MaxSessions` youngest have at least that many younger ones, shown by
well-founded induction on the subsets that are left.  The lifecycle needs `RowBehind`: what the
machine next writes goes over a row that is missing, fresh or its own state.

**WorkflowIntelligence** (`WorkflowIntelligence_proofs`): `WorkflowTypeCorrect`,
`GatesHold` for the orderly clients and any number of overlapping starts,
`WorkflowCompletionIsHonest` for clients that await their calls, `HaltedWorkflowsRest` for
all.  The invariant is about what a call has read: its copy respects the graph by itself and
everything it takes for completed is so in the rows or run by itself (`ViewOrdered`),
however old it is; with calls that are awaited it is the rows but for the nodes that were run
(`ViewFresh`), and the loop has left nothing that could still run (`Settled`), from which,
without a cycle, a first unfinished node is picked that would have been runnable.  That a
draft can be compiled freely needs that no call has read it and nothing of it has begun
(`DraftCalls`, `DraftRows`).  Without the care of `Recompilable` `GatesHold` is false, as the
behaviours below show.

**AgentRuntime** (`AgentRuntime_proofs`): `RequestsTypeCorrect`, `SessionsTellOutcomes`
for requests that overlap, `ConversationsNameTheState` for requests that do not.  The
invariant ties each stage of a request to its record (`StageOK`) and, where only one request is
active, the state to what was told, but for the wait for a build, when the state has moved
and the conversation has not (`ToldOK`).

**TaskScheduler** (`TaskScheduler_proofs`): `TasksTypeCorrect`, `SchedulesOneShots`,
the safety part of the refinement, and `ImplementsAllOfOneShots`, all of it (below).  An object that runs is marked running, a one-shot that
has run and is still in the map is running now, one that has gone missing was dismissed,
and without collisions an id has one object at a time, whoever still knows it
(`OneAtATime`); the last is why the end of a task cannot take another away.

### Progress and liveness

That something eventually happens takes three facts: nothing blocks what is under way, each
step uses up something of which there is finitely much, and the scheduling goes on.  Each is
proved where the prover can state it.

| | nothing blocks | every step uses up | something moves, if scheduling is fair |
|---|---|---|---|
| a polling loop | `LoopsCanAct` | `SchedulersRunDown`: tasks waiting, tasks in flight, the loop itself (`Fuel`) | `LoopsMoveOn` |
| a request | `RequestsNeverBlock` | `RequestsRunDown`: attempts, stages, turns of the tool loop, calls of a message, in lexicographic order | `RequestsMoveOn` |
| a start of a workflow | `CallsNeverBlock` | `CallsRunDown`: stages, nodes of the copy that are waiting | `CallsMoveOn` |
| a one-shot | `ArmedInv`: what waits has a timer | its phase | `OneShotsRun` |
| a reservation | it is held only while the call races its timeout | its state | `ReservationsComeBack` |

The last two need one step only, so there the liveness property itself is proved:
`ReservationsComeBack` is `ReservationsReturned`, and `ImplementsAllOfOneShots` is the whole
refinement, its liveness included.  `RunningWorkflowsHaveCalls` ties `RunningEnds` to the
calls.

Fairness is a hypothesis of these theorems and written out: infinitely often the action is
taken, or infinitely often its condition does not hold (`TimerFires`, `RaceSettles`,
`LoopTurns`, `ClosureEnds`, `StepTaken`).  The condition is a state predicate of the module
(`Due`, `MustTurn`, `CanGoOn`, ...).  The lemmas `FairTimersFire`, `FairRacesSettle`,
`FairSchedulers`, `FairRequests` and `FairCalls` prove that the weak fairness of the
specifications gives this, as far as the condition implies that the action is enabled.

*Only model-checked.*

* `LoopEndsOrStalls`, `Settles` and `RunningEnds`: what is left of them is the induction from
  one move to the end, over fuel or over the lexicographic order.  It would be an induction
  over a temporal formula, and the prover's induction theorems take an operator, which its
  backends do not instantiate.
* That the conditions above imply `ENABLED`, on which the prover cannot reason.  The runs do not
  state it either: the liveness properties they check under `WF_` rest on it.

The findings are counterexamples and need no proof.

## Findings

* `ei_cancel_final`: a cancelled session does not stay cancelled.  The loop sees the
  status, leaves, and `startExecution` goes on to write `completed` or `failed` over it.
  The same happens to a pause; this is why `HonestCompletion` excepts the loop that a
  halt ends.
* `ei_failed_prereq`: when a task that others wait for fails, its dependents are neither
  launched nor failed, the loop's condition stays true, and the session runs for ever.

Other behaviours that a reader of the code should know of, and that the models have:

* A resume while closures of the paused loop are in flight starts a scheduler that loads
  their tasks as running, never hears of their end and polls for ever, although every
  task succeeds.  `StallHasCause` and `LoopEndsOrStalls` together say that this and a failed
  task are the only ways in which a loop fails to end.
* Sandboxes are named by session; of two calls of one session the first to end destroys
  the sandbox that the other executes in.  A timeout settles the call and releases its
  reservation; the capability executes on while it is rolled back.
* Forced transitions and rows that others re-create leave memory and row of a session
  apart (`MemoryMatchesRow` excepts them); the next transition brings them together.
* `startWorkflow` writes its outcome over a pause or a cancellation made while its
  calls overlap, although these do stop its nodes (`HaltStopsNodes`); an approval of a node
  that has not been reached lets what is behind it run (`NoNodeEarly` excepts clients that
  force).
* `compileWorkflow` and `restoreCheckpoint` do not look at each other or at what has run.
  Compile and run a node, take a checkpoint, compile it anew behind another node, restore
  the checkpoint: the node is completed and its prerequisite is waiting.  A later definition
  that puts a finished node behind a new one, without naming the finished one among its
  nodes, does the same without a checkpoint.  `NoNodeEarly` excepts clients that do so
  (*patch*); `CompletedMeansAll` holds for them.
* A tool loop that reaches its limit returns nothing, and the runtime throws on it: the
  record stays in *Verifying*, and no further attempt is made.  `SessionTellsOutcome`
  counts this as an error told to the caller.
* With overlapping requests one's transition changes how another's text is judged.
* Where ids of timers collide, a task that ends takes away the one scheduled meanwhile,
  which then never runs.  `OneShots` puts it down as dropped, so `ImplementsOneShots` shows
  that no task is lost only for callers whose ids do not collide.

## What is not modelled

* Of the Execution Intelligence Layer: metrics and history rows, which no code reads back
  to decide; the duration and the text of a task.
* Of the execution layer: `sandbox_sessions` and the audit log, which follow the sandbox
  map; `resource_statistics`; a crash, since no code reads the ledger after one; the
  choice of capabilities by words of the goal and the health of capabilities, which are
  inputs (`Plannable`, `Permitted`, `PlanDemand`).  Token and cost budgets are amounts
  like the others: they bound what is in flight, not what has been spent.
* A restored snapshot may hold reservations that no call will return.  The tests of the
  resource manager expect restored reservations to count, so this is taken as intended.
* Exhaustion of `MaxRetries`: the code compares `retries` with no maximum.
* Of Context OS: sessions of the same second, which pruning takes in any order
  (`started_at` counts seconds; no property depends on which is taken); facts, messages and tool records, which are inserts and selects; the
  execution id; the contexts, which come and go with their sessions.
* Of the Workflow Intelligence Layer: events, metrics and artifacts; a branch beyond what
  a merge may bring; a definition that gives a node another type or action, which belong to
  its id here; the death of the process during a start, which leaves the row *running*
  (nothing resumes it by itself).  "skipped" is a status that nothing writes.
* Of the tool loop: how tool calls are parsed from text; progress and tokens; the abort
  signal, which the runtime never passes.  Of the callers of timers, only their ids.
* The components under "planned" below, and those listed as not modelled in
  `PROJECT.json`.

## Plan

The order is by how much of the program depends on the part and how hard it is to test.

1. *Done.*  ExecutionIntelligence with DagExecution and DependencyResolver.
2. *Done.*  UniversalExecution with ResourceLeases.  Left: `resolveDependencies` of the
   negotiator (a depth-first search, as a recursive function against a reference order)
   and the health of capabilities between plan and use.
3. *Done.*  ContextStateMachine with SessionLifecycle.
4. *Done.*  WorkflowIntelligence.  Left: branches as workflows of their own.
5. *Done.*  AgentRuntime with ToolRouter and ExecutionManager.  Left: its composition with
   the rows of ContextStateMachine.
6. *Done.*  TaskScheduler with OneShots.  Left: **PluginManager** and **ModelRouter**, small
   concurrent services with the timeouts, reloads and re-checks listed under hazards.
7. If room is left: the goal tree, start and stop order of UnifiedRuntime, incremental
   snapshots of the builder.
