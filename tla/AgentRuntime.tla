----------------------------- MODULE AgentRuntime -----------------------------
(***************************************************************************)
(* AgentRuntime, ToolRouter and ExecutionManager: requests that a model    *)
(* and its tools carry out.  A request plans, runs the router's loop and   *)
(* verifies, at most three times over.  All requests share one state of    *)
(* the workflow, and run between their awaits without giving up the        *)
(* thread.                                                                 *)
(***************************************************************************)
EXTENDS Sequences, FiniteSets, Integers

CONSTANTS
  Request,        \* calls of chat or chat_stream, the ids of their executions
  Tool,           \* tool signatures: a name with its arguments
  Edits,          \* those whose name is one of the five that edit files
  Finish,         \* the signature of finish
  Message,        \* the tool calls that one message of the model may hold (bound)
  MaxIterations,  \* MAX_ITERATIONS (20)
  MaxRetries,     \* answers without a tool call that are refused (3)
  MaxAttempts,    \* attempts until verification has failed for good (3)
  Clients         \* the sets of optional behaviour of the callers

ASSUME ToolAssumption    == Edits \subseteq Tool /\ Finish \notin Tool
ASSUME MessageAssumption == Message \subseteq Seq(Tool \cup {Finish}) \ {<<>>}
ASSUME LimitAssumption   == /\ MaxIterations \in Nat \ {0}
                            /\ MaxRetries \in Nat
                            /\ MaxAttempts \in Nat \ {0}
ASSUME ClientAssumption  == Clients \subseteq SUBSET {"overlap"}

VARIABLES
  state,    \* WorkflowManager.getCurrentState()
  req,      \* the requests: their locals and their ExecutionSession
  loop,     \* the locals of the router's loop, while it runs
  client    \* "overlap": requests begin while others are under way

vars == <<state, req, loop, client>>

\* Nothing leads the router to "Investigation" or "Execution".
State == {"Task", "Verification", "Summary"}

\* talk: an intent that needs no execution; analyse: files were found for it;
\* generate: an intent that must leave files modified; act: any other.
Kind == {"talk", "analyse", "act", "generate"}

Session == {"none", "Pending", "Planning", "Executing", "Verifying", "Completed",
            "Failed"}

\* preparing: awaits the prompt's context; planning: awaits the model's start;
\* talking: awaits one answer; asking, tool, building: in the loop; routing,
\* verifying: has the thread; thrown: the caller gets an error.
Stage == {"idle", "preparing", "planning", "talking", "asking", "routing", "tool",
          "building", "verifying", "answered", "thrown"}

OfRequest ==
  [at       : Stage,
   kind     : Kind,
   session  : Session,
   attempts : 0 .. MaxAttempts,  \* validator_retries
   worked   : BOOLEAN]           \* toolsExecutedCount > 0

OfLoop ==
  [iteration : 0 .. MaxIterations,
   retries   : 0 .. MaxRetries,         \* no_tool_retry_count
   seen      : SUBSET Tool,             \* executedTools
   todo      : Seq(Tool \cup {Finish}), \* the message's calls still to be routed
   told      : State]                   \* the state last named in the conversation

NoLoop == [iteration |-> 0, retries |-> 0, seen |-> {}, todo |-> <<>>, told |-> "Task"]

TypeOK ==
  /\ state \in State
  /\ req \in [Request -> OfRequest]
  /\ loop \in [Request -> OfLoop]
  /\ client \in Clients

Init ==
  /\ state = "Task"
  /\ req = [r \in Request |->
              [at |-> "idle", kind |-> "talk", session |-> "none", attempts |-> 0,
               worked |-> FALSE]]
  /\ loop = [r \in Request |-> NoLoop]
  /\ client \in Clients

-----------------------------------------------------------------------------
(* A definition whose comment begins with "Faulty:" is a plausible bug in   *)
(* the one that follows it, and no action uses it.                          *)

Over == {"answered", "thrown"}

\* Nobody else has the thread.
Has(r) == \A q \in Request \ {r} : req[q].at \notin {"routing", "verifying"}

At(r, stage) == req[r].at = stage /\ Has(r)

\* The requests when r goes on to a stage and its execution to a state, which
\* ExecutionManager.transition never refuses.
Moved(r, stage, session) == [req EXCEPT ![r] = [@ EXCEPT !.at = stage, !.session = session]]

\* Faulty: modified files are enough.
PassedByFiles(r, modified) == req[r].worked \/ modified

\* verifyExecutionSuccess.  Whether git status has changed since the request began
\* depends on everybody who works on the tree.
Passed(r, modified) ==
  /\ req[r].worked
  /\ req[r].kind = "generate" => modified

-----------------------------------------------------------------------------
(* agent_runtime.ts, up to the loop                                         *)

\* startSession; an intent without execution is in Planning before the first await.
Begin(r) ==
  /\ At(r, "idle")
  /\ "overlap" \in client \/ \A q \in Request : req[q].at \in Over \cup {"idle"}
  /\ \E kind \in Kind :
       req' = [req EXCEPT ![r] =
                 [@ EXCEPT !.at = "preparing", !.kind = kind,
                           !.session = IF kind = "talk" THEN "Planning" ELSE "Pending"]]
  /\ UNCHANGED <<state, loop, client>>

Prepare(r) ==
  /\ At(r, "preparing")
  /\ req' = Moved(r, IF req[r].kind = "talk" THEN "talking" ELSE "planning", "Planning")
  /\ UNCHANGED <<state, loop, client>>

\* Without a stream, the answer about files is one request to the model.
AskDirectly(r) ==
  /\ At(r, "planning") /\ req[r].kind = "analyse"
  /\ req' = [req EXCEPT ![r].at = "talking"]
  /\ UNCHANGED <<state, loop, client>>

\* Without verification.
Talked(r) ==
  /\ At(r, "talking")
  /\ req' = Moved(r, "answered", "Completed")
  /\ UNCHANGED <<state, loop, client>>

\* What an await rejects with passes through all of it, and the session stays as it
\* is.  Starting a model swallows its errors: in a later attempt nothing before the
\* loop throws.
Throw(r) ==
  /\ Has(r)
  /\ \/ req[r].at \in {"preparing", "talking", "asking"}
     \/ req[r].at = "planning" /\ req[r].attempts = 0
  /\ req' = [req EXCEPT ![r].at = "thrown"]
  /\ loop' = [loop EXCEPT ![r] = NoLoop]
  /\ UNCHANGED <<state, client>>

-----------------------------------------------------------------------------
(* tool_router.ts                                                           *)

\* A new loop, in Summary if the prompt calls for the model "chat", which each
\* attempt may here decide anew.  Its first request to the model is made at once.
Enter(r) ==
  /\ At(r, "planning")
  /\ state' \in {"Task", "Summary"}
  /\ loop' = [loop EXCEPT ![r] = [iteration |-> 1, retries |-> 0, seen |-> {},
                                  todo |-> <<>>, told |-> state']]
  /\ req' = [req EXCEPT ![r] =
       [@ EXCEPT !.at = "asking", !.worked = FALSE,
                 !.session = IF req[r].kind = "analyse" THEN "Planning" ELSE "Executing"]]
  /\ UNCHANGED client

ToolCalls(r) ==
  /\ At(r, "asking")
  /\ req' = [req EXCEPT ![r].at = "routing"]
  /\ \E message \in Message : loop' = [loop EXCEPT ![r].todo = message]
  /\ UNCHANGED <<state, client>>

\* Text where a call is due, as the state is by now.
RefuseText(r) ==
  /\ At(r, "asking")
  /\ state = "Task" /\ loop[r].retries < MaxRetries
  /\ req' = [req EXCEPT ![r].at = "routing"]
  /\ loop' = [loop EXCEPT ![r].retries = @ + 1]
  /\ UNCHANGED <<state, client>>

\* The loop returns the text.  An analysis is not verified.
AcceptText(r) ==
  /\ At(r, "asking")
  /\ state # "Task" \/ loop[r].retries = MaxRetries
  /\ state' = "Summary"
  /\ loop' = [loop EXCEPT ![r] = NoLoop]
  /\ req' = IF req[r].kind = "analyse" THEN Moved(r, "answered", "Completed")
                                       ELSE Moved(r, "verifying", "Verifying")
  /\ UNCHANGED client

\* Faulty: the model is told, and nothing else.
SkipSilently(r) ==
  /\ At(r, "routing") /\ loop[r].todo # <<>>
  /\ Head(loop[r].todo) \in loop[r].seen \cup {Finish}
  /\ loop' = [loop EXCEPT ![r] = [@ EXCEPT !.todo = Tail(loop[r].todo), !.told = "Summary"]]
  /\ UNCHANGED <<state, req, client>>

\* finish, or a call made before: both end in Summary.
Skip(r) ==
  /\ At(r, "routing") /\ loop[r].todo # <<>>
  /\ Head(loop[r].todo) \in loop[r].seen \cup {Finish}
  /\ state' = "Summary"
  /\ loop' = [loop EXCEPT ![r] = [@ EXCEPT !.todo = Tail(loop[r].todo), !.told = "Summary"]]
  /\ UNCHANGED <<req, client>>

Execute(r) ==
  /\ At(r, "routing") /\ loop[r].todo # <<>>
  /\ Head(loop[r].todo) \in Tool \ loop[r].seen
  /\ req' = [req EXCEPT ![r].at = "tool"]
  /\ loop' = [loop EXCEPT ![r].seen = @ \cup {Head(loop[r].todo)}]
  /\ UNCHANGED <<state, client>>

\* A tool fails by its result.  Failed edits are verified too.
Executed(r) ==
  /\ At(r, "tool") /\ Head(loop[r].todo) \notin Edits
  /\ \E success \in BOOLEAN :
       req' = [req EXCEPT ![r] = [@ EXCEPT !.at = "routing", !.worked = req[r].worked \/ success]]
  /\ loop' = [loop EXCEPT ![r].todo = Tail(@)]
  /\ UNCHANGED <<state, client>>

Edited(r) ==
  /\ At(r, "tool") /\ Head(loop[r].todo) \in Edits
  /\ \E success \in BOOLEAN :
       req' = [req EXCEPT ![r] = [@ EXCEPT !.at = "building", !.worked = req[r].worked \/ success]]
  /\ state' = "Verification"
  /\ UNCHANGED <<loop, client>>

\* verifyAll is through, and the model is told the state that brought it about.
Built(r) ==
  /\ At(r, "building")
  /\ req' = [req EXCEPT ![r].at = "routing"]
  /\ loop' = [loop EXCEPT ![r] = [@ EXCEPT !.todo = Tail(loop[r].todo), !.told = "Verification"]]
  /\ UNCHANGED <<state, client>>

\* Faulty: one more than MAX_ITERATIONS.
AskOnceMore(r) ==
  /\ At(r, "routing") /\ loop[r].todo = <<>>
  /\ loop[r].iteration <= MaxIterations
  /\ req' = [req EXCEPT ![r].at = "asking"]
  /\ loop' = [loop EXCEPT ![r].iteration = @ + 1]
  /\ UNCHANGED <<state, client>>

Ask(r) ==
  /\ At(r, "routing") /\ loop[r].todo = <<>>
  /\ loop[r].iteration < MaxIterations
  /\ req' = [req EXCEPT ![r].at = "asking"]
  /\ loop' = [loop EXCEPT ![r].iteration = @ + 1]
  /\ UNCHANGED <<state, client>>

\* The loop returns nothing.  The runtime verifies it nevertheless and throws on
\* reading toolsExecutedCount; the analysis makes do with nothing.
GiveUp(r) ==
  /\ At(r, "routing") /\ loop[r].todo = <<>>
  /\ loop[r].iteration = MaxIterations
  /\ state' = "Summary"
  /\ loop' = [loop EXCEPT ![r] = NoLoop]
  /\ req' = IF req[r].kind = "analyse" THEN Moved(r, "answered", "Completed")
                                       ELSE Moved(r, "thrown", "Verifying")
  /\ UNCHANGED client

-----------------------------------------------------------------------------
(* agent_runtime.ts, after the loop                                         *)

Verified(r) ==
  /\ At(r, "verifying")
  /\ \E modified \in BOOLEAN : Passed(r, modified)
  /\ req' = Moved(r, "answered", "Completed")
  /\ UNCHANGED <<state, loop, client>>

\* Faulty: the attempt is not counted.
RetryUncounted(r) ==
  /\ At(r, "verifying")
  /\ \E modified \in BOOLEAN : ~Passed(r, modified)
  /\ req[r].attempts + 1 < MaxAttempts
  /\ req' = Moved(r, "planning", "Planning")
  /\ UNCHANGED <<state, loop, client>>

Retry(r) ==
  /\ At(r, "verifying")
  /\ \E modified \in BOOLEAN : ~Passed(r, modified)
  /\ req[r].attempts + 1 < MaxAttempts
  /\ req' = [req EXCEPT ![r] = [@ EXCEPT !.at = "planning", !.session = "Planning",
                                       !.attempts = req[r].attempts + 1]]
  /\ UNCHANGED <<state, loop, client>>

Fail(r) ==
  /\ At(r, "verifying")
  /\ \E modified \in BOOLEAN : ~Passed(r, modified)
  /\ req[r].attempts + 1 = MaxAttempts
  /\ req' = [req EXCEPT ![r] = [@ EXCEPT !.at = "answered", !.session = "Failed",
                                       !.attempts = req[r].attempts + 1]]
  /\ UNCHANGED <<state, loop, client>>

Step(r) ==
  \/ Prepare(r) \/ AskDirectly(r) \/ Talked(r) \/ Throw(r)
  \/ Enter(r) \/ ToolCalls(r) \/ RefuseText(r) \/ AcceptText(r)
  \/ Skip(r) \/ Execute(r) \/ Executed(r) \/ Edited(r) \/ Built(r)
  \/ Ask(r) \/ GiveUp(r) \/ Verified(r) \/ Retry(r) \/ Fail(r)

Next == \E r \in Request : Begin(r) \/ Step(r)

Spec == Init /\ [][Next]_vars

\* What is awaited settles: the model and the tools answer or reject.
FairSpec == Spec /\ \A r \in Request : WF_vars(Step(r))

-----------------------------------------------------------------------------
(* Properties                                                               *)

\* When a model is asked, the state by which its answer is judged is the one that
\* the conversation names to it, if requests do not overlap: whatever the requests
\* before, the attempts before and the calls of its messages did to the one state
\* that all share (tool_router.ts:199).
ToldStateHolds ==
  "overlap" \notin client =>
    \A r \in Request : req[r].at = "asking" => loop[r].told = state

\* An execution is recorded as Completed or Failed exactly when its caller has an
\* answer, as Failed only after the last attempt, and as Completed, where it had to
\* be verified, only when a tool worked in the very attempt that was answered.
\* This holds with requests overlapping (agent_runtime.ts:371).
SessionTellsOutcome ==
  \A r \in Request :
    /\ req[r].at = "answered" <=> req[r].session \in {"Completed", "Failed"}
    /\ req[r].session = "Failed" => req[r].attempts = MaxAttempts
    /\ req[r].session = "Completed" /\ req[r].kind \in {"act", "generate"} => req[r].worked

\* Every request comes to an end, also while others keep changing the state under
\* it: neither the loop nor the attempts go on for ever (tool_router.ts:84).
Settles == \A r \in Request : req[r].at # "idle" ~> req[r].at \in Over

=============================================================================
