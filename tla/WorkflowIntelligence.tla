------------------------- MODULE WorkflowIntelligence -------------------------
(***************************************************************************)
(* One workflow of the Workflow Intelligence Layer: its status, its nodes, *)
(* and the calls that start, pause, decide and rewrite it.                 *)
(*                                                                         *)
(* A call waits only for other async functions of the layer, which touch   *)
(* nothing but the database.  A client that awaits each call therefore     *)
(* never sees one half done; calls that were begun together, or by a       *)
(* listener of the event bus, interleave at the awaits.  The scheduler's   *)
(* loop has none: once in it, a call keeps the thread.                     *)
(***************************************************************************)
EXTENDS TaskGraph

CONSTANTS
  Node,       \* ids of nodes
  Approval,   \* the nodes of type "approval"
  Failing,    \* the nodes whose action contains "fail"
  Edge,       \* edges that a definition may have: <<n, p>> says from p to n
  Slot,       \* calls of startWorkflow that may be under way at a time (bound)
  Clients,    \* the sets of optional calls that the callers may make
  Definition  \* for each of them, the definitions that are compiled

\* overlap:  start, pause, resume, cancel without awaiting the calls before
\* decide:   approve and reject an approval node that is running
\* force:    approve and reject any node
\* rewrite:  restart, checkpoints, and after the start a definition that names at
\*           least the nodes there are, but none while a checkpoint is held
\* patch:    any definition, at any time
\* merge:    rows taken from a branch
Call == {"overlap", "decide", "force", "rewrite", "patch", "merge"}

ASSUME NodeAssumption   == IsFiniteSet(Node) /\ Approval \subseteq Node
ASSUME EdgeAssumption   == \A e \in Edge : e = <<e[1], e[2]>>
ASSUME ClientAssumption == Clients \subseteq SUBSET Call
ASSUME DefinitionAssumption ==
  \A k \in Clients : Definition[k] \subseteq [nodes : SUBSET Node, edges : SUBSET Edge]

VARIABLES
  status,      \* workflow_sessions.status
  row,         \* workflow_nodes.status ("absent": no row)
  edges,       \* workflow_edges
  checkpoint,  \* the node statuses of a checkpoint whose id a client holds ({}: none)
  call,        \* the calls of startWorkflow under way
  client       \* the optional calls made in this behaviour; it never changes

vars == <<status, row, edges, checkpoint, call, client>>

Status == {"draft", "validated", "running", "paused", "waiting_approval",
           "completed", "cancelled", "failed"}

\* Nothing ever writes "skipped".
NodeStatus == {"absent", "waiting", "running", "completed", "failed"}

\* called: awaits getWorkflow; reading: has its rows; linked: has its edges too;
\* loop: in the scheduler; left: it has written; checking: has read the rows.
Stage == {"idle", "called", "reading", "linked", "loop", "left", "checking"}

\* What a call knows: the rows and edges that it has read, the nodes it has taken.
Calls == [at : Stage, view : [Node -> NodeStatus], links : SUBSET Edge, ran : SUBSET Node]

Idle == [at |-> "idle", view |-> [n \in Node |-> "absent"], links |-> {}, ran |-> {}]

\* Every node that is no approval begins and ends in one transaction.
TypeOK ==
  /\ status \in Status
  /\ row \in [Node -> NodeStatus]
  /\ \A n \in Node : row[n] = "running" => n \in Approval
  /\ edges \subseteq Edge
  /\ \A s \in checkpoint : s \in [Node -> NodeStatus]
  /\ call \in [Slot -> Calls]
  /\ client \in Clients

Init ==
  /\ status = "draft"
  /\ row = [n \in Node |-> "absent"]
  /\ edges = {}
  /\ checkpoint = {}
  /\ call = [c \in Slot |-> Idle]
  /\ client \in Clients

-----------------------------------------------------------------------------
(* A definition whose comment begins with "Faulty:" is a plausible bug in   *)
(* the one that follows it, and no action uses it.                          *)

Existing == {n \in Node : row[n] # "absent"}

Halting == {"paused", "cancelled", "waiting_approval"}

\* An edge from a node that does not exist: adj[...] is undefined, push throws.
Dangling(rows, links) == \E e \in links : e[2] \notin {n \in Node : rows[n] # "absent"}

\* Faulty: a failed node lets its successors go on.
RunnableAfterFailure(rows, links) ==
  {n \in Node : /\ rows[n] = "waiting"
                /\ \A p \in Prerequisites(links, n) : rows[p] \in {"completed", "failed"}}

\* Nodes with an in-degree of zero, which counts the prerequisites that are not
\* completed.
Runnable(rows, links) ==
  {n \in Node : /\ rows[n] = "waiting"
                /\ \A p \in Prerequisites(links, n) : rows[p] = "completed"}

\* Faulty: the update that completes a node is not pushed.
ResultStillRunning(n) ==
  IF n \notin Approval /\ n \in Failing THEN "failed" ELSE "running"

\* What becomes of a node that the loop takes: an approval waits for a decision.
Result(n) == IF n \in Approval THEN "running"
             ELSE IF n \in Failing THEN "failed" ELSE "completed"

\* The transaction after the loop.
Write(rows, ran) ==
  row' = [n \in Node |-> IF n \in ran /\ row[n] # "absent" THEN rows[n] ELSE row[n]]

Awaiting(rows) == \E n \in Approval : rows[n] = "running"

\* Faulty: the node on which the loop breaks is forgotten.
OutcomeForgettingApprovals(rows) ==
  IF \E n \in Node : rows[n] = "failed" THEN "failed" ELSE "completed"

Outcome(rows) ==
  IF \E n \in Node : rows[n] = "failed" THEN "failed"
  ELSE IF Awaiting(rows) THEN "waiting_approval" ELSE "completed"

Quiet == \A c \in Slot : call[c].at = "idle"

\* When a call may be made: no call is half done, or the client does not care.
Free == Quiet \/ ("overlap" \in client /\ \A c \in Slot : call[c].at # "loop")

\* Nobody else has the thread.
Has(c) == \A d \in Slot \ {c} : call[d].at # "loop"

Enter(c) ==
  /\ call[c].at = "idle"
  /\ call' = [call EXCEPT ![c] = [Idle EXCEPT !.at = "called"]]

-----------------------------------------------------------------------------
(* The calls                                                                *)

\* Nothing is checked: nodes that are there begin anew, edges are added, and what
\* has run and what a checkpoint holds may not fit the new definition.  When to
\* compile is up to the client.
Recompilable(def) ==
  \/ "patch" \in client
  \/ /\ status = "draft" \/ ("rewrite" \in client /\ Existing \subseteq def.nodes)
     /\ checkpoint = {}

CompileWorkflow(def) ==
  /\ Free
  /\ Recompilable(def)
  /\ row' = [n \in Node |-> IF n \in def.nodes THEN "waiting" ELSE row[n]]
  /\ edges' = edges \cup def.edges
  /\ UNCHANGED <<status, checkpoint, call, client>>

ValidateWorkflow ==
  /\ Free
  /\ \A e \in edges : e[1] \in Existing /\ e[2] \in Existing
  /\ ~HasCycle(Existing, edges)
  /\ status' = "validated"
  /\ UNCHANGED <<row, edges, checkpoint, call, client>>

StartWorkflow(c) ==
  /\ Free
  /\ Enter(c)
  /\ UNCHANGED <<status, row, edges, checkpoint, client>>

PauseWorkflow ==
  /\ Free
  /\ status' = "paused"
  /\ UNCHANGED <<row, edges, checkpoint, call, client>>

CancelWorkflow ==
  /\ Free
  /\ status' = "cancelled"
  /\ UNCHANGED <<row, edges, checkpoint, call, client>>

\* Its update, and startWorkflow up to its first await.
ResumeWorkflow(c) ==
  /\ Free
  /\ status' = "running"
  /\ Enter(c)
  /\ UNCHANGED <<row, edges, checkpoint, client>>

RestartWorkflow(c) ==
  /\ Free /\ "rewrite" \in client
  /\ row' = [n \in Node |-> IF n \in Existing THEN "waiting" ELSE "absent"]
  /\ Enter(c)
  /\ UNCHANGED <<status, edges, checkpoint, client>>

\* Neither approveWorkflow nor rejectWorkflow looks at the node: whether it is an
\* approval that has been reached is up to the client.
Decidable(n) ==
  \/ "decide" \in client /\ n \in Approval /\ row[n] = "running"
  \/ "force" \in client /\ row[n] # "absent"

\* It resumes the workflow at once.
ApproveWorkflow(c, n) ==
  /\ Free
  /\ Decidable(n)
  /\ row' = [row EXCEPT ![n] = "completed"]
  /\ status' = "running"
  /\ Enter(c)
  /\ UNCHANGED <<edges, checkpoint, client>>

RejectWorkflow(n) ==
  /\ Free
  /\ Decidable(n)
  /\ row' = [row EXCEPT ![n] = "failed"]
  /\ status' = "paused"
  /\ UNCHANGED <<edges, checkpoint, call, client>>

CreateCheckpoint ==
  /\ Free /\ "rewrite" \in client
  /\ checkpoint' = {row}
  /\ UNCHANGED <<status, row, edges, call, client>>

\* The client will not restore it any more.
ForgetCheckpoint ==
  /\ Free /\ checkpoint # {}
  /\ checkpoint' = {}
  /\ UNCHANGED <<status, row, edges, call, client>>

RestoreCheckpoint ==
  /\ Free /\ "rewrite" \in client
  /\ \E saved \in checkpoint :
       row' = [n \in Node |-> IF saved[n] # "absent" /\ row[n] # "absent"
                              THEN saved[n] ELSE row[n]]
  /\ UNCHANGED <<status, edges, checkpoint, call, client>>

\* The statuses of some nodes are replaced by those that a branch, a workflow
\* of its own, has for them.
MergeWorkflow(N) ==
  /\ Free /\ "merge" \in client
  /\ \E branch \in [N -> NodeStatus \ {"absent"}] :
       /\ \A n \in N : branch[n] = "running" => n \in Approval
       /\ row' = [n \in Node |-> IF n \in N THEN branch[n] ELSE row[n]]
  /\ UNCHANGED <<status, edges, checkpoint, call, client>>

-----------------------------------------------------------------------------
(* startWorkflow, from each await to the next                               *)

\* Status running, then runScheduler reads the nodes.
Begin(c) ==
  /\ call[c].at = "called" /\ Has(c)
  /\ status' = "running"
  /\ call' = [call EXCEPT ![c] = [@ EXCEPT !.at = "reading", !.view = row]]
  /\ UNCHANGED <<row, edges, checkpoint, client>>

ReadEdges(c) ==
  /\ call[c].at = "reading" /\ Has(c)
  /\ call' = [call EXCEPT ![c] = [@ EXCEPT !.at = "linked", !.links = edges]]
  /\ UNCHANGED <<status, row, edges, checkpoint, client>>

\* Faulty: what the scheduler throws is not caught.
ThrowUncaught(c) ==
  /\ call[c].at = "linked" /\ Has(c)
  /\ Dangling(call[c].view, call[c].links)
  /\ call' = [call EXCEPT ![c] = Idle]
  /\ UNCHANGED <<status, row, edges, checkpoint, client>>

\* The scheduler throws, startWorkflow catches.
Throw(c) ==
  /\ call[c].at = "linked" /\ Has(c)
  /\ Dangling(call[c].view, call[c].links)
  /\ status' = "failed"
  /\ call' = [call EXCEPT ![c] = Idle]
  /\ UNCHANGED <<row, edges, checkpoint, client>>

InLoop(c) ==
  /\ Has(c)
  /\ \/ call[c].at = "loop"
     \/ call[c].at = "linked" /\ ~Dangling(call[c].view, call[c].links)

Ready(c) == Runnable(call[c].view, call[c].links)

\* What the call knew is of no use after the loop.
Exit(c) == call' = [call EXCEPT ![c] = [Idle EXCEPT !.at = "left"]]

\* The node is taken.  An approval ends the loop.
Take(c, n) ==
  LET view == [call[c].view EXCEPT ![n] = Result(n)]
      ran  == call[c].ran \cup {n}
  IN /\ IF n \in Approval
        THEN Exit(c) /\ Write(view, ran)
        ELSE /\ call' = [call EXCEPT ![c] = [@ EXCEPT !.at = "loop", !.view = view, !.ran = ran]]
             /\ UNCHANGED row
     /\ UNCHANGED <<status, edges, checkpoint, client>>

\* Faulty: the status is that which the call has written itself.
TurnIgnoringHalt(c, n) == InLoop(c) /\ n \in Ready(c) /\ Take(c, n)

\* One iteration of the loop on a node whose prerequisites are completed, by the
\* status that the workflow has then.
Turn(c, n) ==
  /\ InLoop(c)
  /\ status \notin Halting
  /\ n \in Ready(c)
  /\ Take(c, n)

\* The loop ends by itself: the workflow is halted or nothing is runnable, because
\* all is done, an approval is open or what is left can never run.
Leave(c) ==
  /\ InLoop(c)
  /\ status \in Halting \/ Ready(c) = {}
  /\ status' = IF status \notin Halting /\ Awaiting(call[c].view)
               THEN "waiting_approval" ELSE status
  /\ Write(call[c].view, call[c].ran)
  /\ Exit(c)
  /\ UNCHANGED <<edges, checkpoint, client>>

Check(c) ==
  /\ call[c].at = "left" /\ Has(c)
  /\ call' = [call EXCEPT ![c] = [@ EXCEPT !.at = "checking", !.view = row]]
  /\ UNCHANGED <<status, row, edges, checkpoint, client>>

\* The outcome is written over whatever the status is by now.
Finish(c) ==
  /\ call[c].at = "checking" /\ Has(c)
  /\ status' = Outcome(call[c].view)
  /\ call' = [call EXCEPT ![c] = Idle]
  /\ UNCHANGED <<row, edges, checkpoint, client>>

Step(c) == \/ Begin(c) \/ ReadEdges(c) \/ Throw(c) \/ Leave(c) \/ Check(c) \/ Finish(c)
           \/ \E n \in Node : Turn(c, n)

Next ==
  \/ \E def \in Definition[client] : CompileWorkflow(def)
  \/ ValidateWorkflow \/ PauseWorkflow \/ CancelWorkflow
  \/ CreateCheckpoint \/ ForgetCheckpoint \/ RestoreCheckpoint
  \/ \E n \in Node : RejectWorkflow(n)
  \/ \E N \in SUBSET Node : MergeWorkflow(N)
  \/ \E c \in Slot : \/ StartWorkflow(c) \/ ResumeWorkflow(c) \/ RestartWorkflow(c)
                     \/ \E n \in Node : ApproveWorkflow(c, n)
                     \/ Step(c)

Spec == Init /\ [][Next]_vars

\* A pending promise continuation is run before anything else.
FairSpec == Spec /\ \A c \in Slot : WF_vars(Step(c))

-----------------------------------------------------------------------------
(* Properties                                                               *)

\* Clients that keep the nodes in order: they decide on running approvals only,
\* merge nothing, compile what fits the rows and the checkpoint they hold, and let
\* no decision or rewrite overlap with other calls.
Orderly == /\ client \cap {"force", "merge", "patch"} = {}
           /\ "overlap" \in client => client = {"overlap"}

\* For these clients no node has begun, and in particular no approval is open and
\* nothing behind an approval has run, before everything it waits for is completed:
\* not with starts that work on rows they have read before another start wrote them,
\* not across rejections, restarts, recompilations and restored checkpoints
\* (workflow_intelligence.ts:651).
NoNodeEarly ==
  Orderly => \A n \in Node : row[n] \notin {"absent", "waiting"} =>
               \A p \in Prerequisites(edges, n) : p \in Node /\ row[p] = "completed"

\* The outcome completed means that every node is: unless calls overlap, whatever
\* is approved, rejected, recompiled, restored, merged or left over from earlier
\* starts, and provided the graph has no cycle (workflow_intelligence.ts:333).
CompletedMeansAll ==
  [][ /\ status # "completed" /\ status' = "completed"
      /\ "overlap" \notin client /\ ~HasCycle(Existing, edges)
      => \A n \in Existing : row[n] = "completed" ]_vars

\* A pause or a cancellation that is written while a start is between its awaits
\* stops its nodes: as long as it stands, no call writes what a node has come to
\* (workflow_intelligence.ts:693).
HaltStopsNodes ==
  [][ \A c \in Slot : status \in Halting /\ Step(c) => UNCHANGED row ]_vars

\* A workflow does not stay running: its scheduler ends or throws, and either is
\* written, whatever happens meanwhile (workflow_intelligence.ts:344).
RunningEnds == status = "running" ~> status # "running"

=============================================================================
