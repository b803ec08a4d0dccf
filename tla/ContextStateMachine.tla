-------------------------- MODULE ContextStateMachine --------------------------
(***************************************************************************)
(* Context OS: the one global ExecutionStateMachine, and the rows that it  *)
(* and everyone else keep about sessions.  WorkflowManager drives it with  *)
(* legacy transitions on the session "sess-default"; SessionManager and    *)
(* AgentRuntime create, re-create and delete rows of sessions without      *)
(* telling it.  Every method runs to its end without giving up the thread. *)
(***************************************************************************)
EXTENDS FiniteSets, Integers

CONSTANTS
  Session,     \* ids of sessions
  Default,     \* "sess-default", started when workflow_manager.ts is loaded
  None,        \* no row, no entry, no previous state
  MaxSessions, \* sessions kept when another is created (50 in the code)
  Clients      \* the sets of optional calls that the callers may make

State == {"ContextCreated", "SessionStarted", "Task", "Investigation", "Planning",
          "Execution", "ToolExecution", "Verification", "Summary", "Completed",
          "Cancelled", "Failed", "Recovered"}

\* WorkflowStateLegacy, and the calls that not every client makes.
Legacy == {"Task", "Investigation", "Execution", "Verification", "Summary"}

Call == {"legacy", "rollback", "sessions"}

ASSUME SessionAssumption == Default \in Session /\ IsFiniteSet(Session)
ASSUME NoneAssumption    == None \notin State
ASSUME MaxAssumption     == MaxSessions \in Nat
ASSUME ClientAssumption  == Clients \subseteq SUBSET Call

VARIABLES
  machine,  \* the fields of the global ExecutionStateMachine
  row,      \* sessions.current_state
  last,     \* current_state of the session's latest row of state_history
  older,    \* <<s, u>>: s was started before u (sessions.started_at)
  client    \* the optional calls made in this behaviour; it never changes

vars == <<machine, row, last, older, client>>

\* A started machine has a previous state: a rollback has somewhere to go.
Machine == [session : Session, current : State, previous : State,
            paused : BOOLEAN]

TypeOK ==
  /\ machine \in Machine
  /\ row \in [Session -> State \cup {None}]
  /\ last \in [Session -> State \cup {None}]
  /\ older \subseteq Session \X Session
  /\ client \in Clients

\* validTransitions.
Table ==
  [s \in State |->
     CASE s = "ContextCreated" -> {"SessionStarted", "Cancelled", "Failed"}
       [] s = "SessionStarted" -> {"Task", "Cancelled", "Failed"}
       [] s = "Task"           -> {"Investigation", "Planning", "Execution",
                                   "Cancelled", "Failed"}
       [] s = "Investigation"  -> {"Planning", "Execution", "Verification",
                                   "Summary", "Cancelled", "Failed"}
       [] s = "Planning"       -> {"Execution", "Cancelled", "Failed"}
       [] s = "Execution"      -> {"ToolExecution", "Verification", "Summary",
                                   "Failed", "Cancelled"}
       [] s = "ToolExecution"  -> {"Execution", "Verification", "Failed", "Cancelled"}
       [] s = "Verification"   -> {"Summary", "Failed", "Execution", "Cancelled"}
       [] s = "Summary"        -> {"Completed", "Failed", "Cancelled"}
       [] s = "Failed"         -> {"Recovered", "Cancelled"}
       [] s = "Recovered"      -> {"Investigation", "Planning", "Execution",
                                   "Verification", "Summary", "Cancelled", "Failed"}
       [] OTHER                -> {}]

\* Faulty: the fields are reset after the two transitions.
StartedAnew(s) == [session |-> s, current |-> "Task", previous |-> None, paused |-> FALSE]

Started(s) == [session |-> s, current |-> "Task", previous |-> "SessionStarted",
               paused |-> FALSE]

\* An empty database, and WorkflowManager's constructor.
Init ==
  /\ machine = Started(Default)
  /\ row = [s \in Session |-> IF s = Default THEN "Task" ELSE None]
  /\ last = [s \in Session |-> IF s = Default THEN "Task" ELSE None]
  /\ older = {}
  /\ client \in Clients

-----------------------------------------------------------------------------
(* The rows of sessions.  A definition whose comment begins with "Faulty:"  *)
(* is a plausible bug in the one that follows it, and no action uses it.    *)

Existing == {s \in Session : row[s] # None}

Mine == machine.session

\* Faulty: off by one.
PrunedLate ==
  {s \in Existing : Cardinality({u \in Existing : <<s, u>> \in older}) > MaxSessions}

\* pruneSessions: all but the latest MaxSessions of the sessions there are.
Pruned ==
  {s \in Existing :
     Cardinality({u \in Existing : <<s, u>> \in older}) >= MaxSessions}

\* Faulty: the old row is updated, and its history stays.
ReplaceKeepingHistory(s, entry) ==
  LET kept == Existing \ (Pruned \cup {s})
  IN /\ row' = [u \in Session |-> IF u = s THEN "Task"
                                  ELSE IF u \in kept THEN row[u] ELSE None]
     /\ last' = [u \in Session |-> IF u = s /\ entry # None THEN entry
                                   ELSE IF u \in kept \cup {s} THEN last[u] ELSE None]
     /\ older' = {e \in older : e[1] \in kept /\ e[2] \in kept}
                 \cup {<<u, s>> : u \in kept}

\* createSession prunes first; "insert or replace" then deletes the session's
\* old row and its history with it.  entry is what is logged right after.
Replace(s, entry) ==
  LET kept == Existing \ (Pruned \cup {s})
  IN /\ row' = [u \in Session |-> IF u = s THEN "Task"
                                  ELSE IF u \in kept THEN row[u] ELSE None]
     /\ last' = [u \in Session |-> IF u = s THEN entry
                                   ELSE IF u \in kept THEN last[u] ELSE None]
     /\ older' = {e \in older : e[1] \in kept /\ e[2] \in kept}
                 \cup {<<u, s>> : u \in kept}

\* updateSessionState and logStateTransition.  Without a row the update changes
\* nothing and the entry is refused by the foreign key.
Record(state) ==
  /\ IF Mine \in Existing
     THEN /\ row' = [row EXCEPT ![Mine] = state]
          /\ last' = [last EXCEPT ![Mine] = state]
     ELSE UNCHANGED <<row, last>>
  /\ UNCHANGED <<older, client>>

\* Memory moves first: also when the rows then refuse.
Move(from, to) ==
  /\ machine' = [machine EXCEPT !.previous = from, !.current = to]
  /\ Record(to)

-----------------------------------------------------------------------------
(* ExecutionStateMachine                                                    *)

\* Its two transitions, to SessionStarted and to Task, are logged.
StartExecution(s) ==
  /\ machine' = Started(s)
  /\ Replace(s, "Task")
  /\ UNCHANGED client

\* transition, and cancel and fail, which do nothing else to the state.
Transition(next) ==
  /\ ~machine.paused
  /\ next \in Table[machine.current]
  /\ Move(machine.current, next)

\* WorkflowManager.transition forces what the table refuses, in memory only.
LegacyTransition(next) ==
  /\ "legacy" \in client
  /\ \/ Transition(next)
     \/ /\ ~machine.paused
        /\ next \notin Table[machine.current]
        /\ machine' = [machine EXCEPT !.current = next]
        /\ UNCHANGED <<row, last, older, client>>

\* Neither the table nor a pause is looked at, and previousState stays.
Rollback ==
  /\ "rollback" \in client
  /\ machine.previous # None
  /\ machine' = [machine EXCEPT !.current = machine.previous]
  /\ Record(machine.previous)

\* Faulty: what is to be recovered need not have failed.
RecoverFromAnywhere(target) ==
  IF Mine \in Existing /\ ~machine.paused /\ target \in Table["Recovered"]
  THEN Move("Recovered", target)
  ELSE /\ machine' = [machine EXCEPT !.current = "Recovered"]
       /\ Record("Recovered")

\* Faulty: a target that is refused leaves the machine failed, the row not.
RecoverRowFirst(target) ==
  /\ machine.current = "Failed"
  /\ IF Mine \in Existing /\ ~machine.paused /\ target \in Table["Recovered"]
     THEN Move("Recovered", target)
     ELSE Record("Recovered") /\ UNCHANGED machine

\* recover enters Recovered whether or not it can leave it again: a pause, a
\* target that the table refuses or a missing row throws in between.
Recover(target) ==
  /\ machine.current = "Failed"
  /\ IF Mine \in Existing /\ ~machine.paused /\ target \in Table["Recovered"]
     THEN Move("Recovered", target)
     ELSE /\ machine' = [machine EXCEPT !.current = "Recovered"]
          /\ Record("Recovered")

\* The stages that complete() walks through.
Toward == [s \in {"Task", "Planning", "Execution", "Verification", "Summary"} |->
             CASE s = "Task"         -> "Planning"
               [] s = "Planning"     -> "Execution"
               [] s = "Execution"    -> "Verification"
               [] s = "Verification" -> "Summary"
               [] s = "Summary"      -> "Completed"]

\* The whole walk is one call; without a row its first entry throws.
Complete ==
  /\ machine.current \in DOMAIN Toward
  /\ ~machine.paused
  /\ IF Mine \in Existing THEN Move("Summary", "Completed")
                          ELSE Move(machine.current, Toward[machine.current])

Pause ==
  /\ machine' = [machine EXCEPT !.paused = TRUE]
  /\ UNCHANGED <<row, last, older, client>>

Resume ==
  /\ machine' = [machine EXCEPT !.paused = FALSE]
  /\ UNCHANGED <<row, last, older, client>>

-----------------------------------------------------------------------------
(* SessionManager, and the createSession of a chat in AgentRuntime          *)

CreateSession(s) ==
  /\ "sessions" \in client
  /\ Replace(s, None)
  /\ UNCHANGED <<machine, client>>

UpdateMetadata(s) == s \in Existing /\ CreateSession(s)

DeleteSession(s) ==
  /\ "sessions" \in client
  /\ row' = [row EXCEPT ![s] = None]
  /\ last' = [last EXCEPT ![s] = None]
  /\ older' = {e \in older : s \notin {e[1], e[2]}}
  /\ UNCHANGED <<machine, client>>

\* The process dies and starts again: the rows stay, the constructor of
\* WorkflowManager takes the machine to the default session.
Restart == StartExecution(Default)

Next ==
  \/ \E s \in Session : \/ StartExecution(s) \/ CreateSession(s)
                        \/ UpdateMetadata(s) \/ DeleteSession(s)
  \/ \E state \in State : Transition(state) \/ Recover(state)
  \/ \E state \in Legacy : LegacyTransition(state)
  \/ Rollback \/ Complete \/ Pause \/ Resume \/ Restart

Spec == Init /\ [][Next]_vars

-----------------------------------------------------------------------------
(* Properties                                                               *)

\* The two tables tell the same story: a session that has a history is where its
\* latest entry says, one without is at Task, whatever is forced, rolled back,
\* re-created, pruned or refused half-way (state_machine.ts:81, session_memory.ts:56).
RowMatchesHistory ==
  \A s \in Session :
    row[s] = IF s \notin Existing THEN last[s]
             ELSE IF last[s] = None THEN "Task" ELSE last[s]

\* Pruning keeps up with every kind of creation, re-creations and deletions
\* included: one session more than the limit at most (session_memory.ts:43).
SessionsBounded == Cardinality(Existing) <= MaxSessions + 1

\* Unless rows are written behind its back or transitions are forced, memory and
\* row of the machine's session agree, also after a recovery that stopped half-way
\* or a rollback (state_machine.ts:115 and 139).
MemoryMatchesRow ==
  {"legacy", "sessions"} \cap client = {} => row[Mine] = machine.current

\* What the rows say of a session, in the terms of SessionLifecycle; it says
\* nothing of clients that force or roll back.
PhaseOf(state) ==
  CASE state = None -> "absent"
    [] state \in {"Completed", "Cancelled"} -> "ended"
    [] state = "Failed" -> "failed"
    [] OTHER -> "active"

Orderly == {"legacy", "rollback"} \cap client = {}

Lifecycle == INSTANCE SessionLifecycle
  WITH phase <- [s \in Session |-> IF Orderly THEN PhaseOf(row[s])
                                   ELSE IF s = Default THEN "active" ELSE "absent"]

\* Without legacy transitions and rollbacks the rows implement SessionLifecycle:
\* an ended session stays so until it is started again, one that failed comes back
\* by a recovery only, although rows are re-created, deleted and pruned while the
\* machine keeps its own idea of them (state_machine.ts:71 and 126).
ImplementsLifecycle == Lifecycle!Spec

=============================================================================
