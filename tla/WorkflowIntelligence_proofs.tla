---------------------- MODULE WorkflowIntelligence_proofs ----------------------
(***************************************************************************)
(* Workflows are gated by their dependencies and completed when they say   *)
(* so, for any nodes, edges, approvals, failures and number of calls.      *)
(***************************************************************************)
EXTENDS WorkflowIntelligence, FiniteSetTheorems, TLAPS

Alone == "overlap" \notin client

Typed(rows) ==
  /\ rows \in [Node -> NodeStatus]
  /\ \A n \in Node : rows[n] = "running" => n \in Approval

\* Nothing has begun before what it waits for is completed.
Respects(rows) ==
  \A n \in Node : rows[n] \notin {"absent", "waiting"} =>
    \A p \in Prerequisites(edges, n) : p \in Node /\ rows[p] = "completed"

SameNodes(rows, others) ==
  \A n \in Node : rows[n] = "absent" <=> others[n] = "absent"

Unbegun(rows) == \A n \in Node : rows[n] \in {"absent", "waiting"}

\* A call in the scheduler: what it knows, against what the rows and edges say.
ViewTyped(k) ==
  /\ Typed(k.view)
  /\ \A n \in k.ran : n \notin Approval /\ k.view[n] = Result(n)
  /\ k.at \in {"reading", "linked"} => k.ran = {}
  /\ k.at = "loop" => ~Dangling(k.view, k.links)

ViewOrdered(k) ==
  /\ Respects(k.view)
  /\ SameNodes(k.view, row)
  /\ \A n \in Node : k.view[n] = "completed" => row[n] = "completed" \/ n \in k.ran

ViewFresh(k) ==
  /\ status = "running"
  /\ \A n \in Node : IF n \in k.ran THEN row[n] = "waiting" ELSE k.view[n] = row[n]

LinksFresh(k) == k.at \in {"linked", "loop"} => k.links = edges

\* The scheduler has done what could be done.
Settled(rows) ==
  /\ ~Dangling(rows, edges)
  /\ Runnable(rows, edges) = {} \/ Awaiting(rows)

CallOK(k) ==
  /\ k.at \in {"idle", "called"} => k.ran = {}
  /\ k.at \in {"reading", "linked", "loop"} => /\ ViewTyped(k)
                                               /\ Orderly => ViewOrdered(k)
                                               /\ Alone => ViewFresh(k)
  /\ Orderly \/ Alone => LinksFresh(k)
  /\ Alone /\ k.at \in {"left", "checking"} => Settled(row)
  /\ Alone /\ k.at = "checking" => k.view = row

OneCall ==
  Alone => \A c, d \in Slot : call[c].at # "idle" /\ call[d].at # "idle" => c = d

\* What a checkpoint holds is as good as the rows are.
CheckpointOK ==
  \A s \in checkpoint : /\ Typed(s)
                        /\ Orderly => SameNodes(s, row) /\ Respects(s)

\* With starts alone a row is written once, and to what it must become.
RowsOnce ==
  client = {"overlap"} => \A n \in Node : row[n] \in {"absent", "waiting", Result(n)}

\* A draft has not been run: what is compiled then cannot come too late.
DraftCalls == status = "draft" => \A c \in Slot : call[c].at \in {"idle", "called"}

DraftRows ==
  status = "draft" /\ Orderly => Unbegun(row) /\ \A s \in checkpoint : Unbegun(s)

IInv ==
  /\ TypeOK
  /\ \A c \in Slot : CallOK(call[c])
  /\ OneCall
  /\ CheckpointOK
  /\ Orderly => Respects(row)
  /\ RowsOnce
  /\ DraftCalls
  /\ DraftRows

LEMMA InitIInv == Init => IInv
<1> SUFFICES ASSUME Init PROVE IInv
  OBVIOUS
<1>1. TypeOK
  BY DEF Init, TypeOK, Calls, Idle, Stage, Status, NodeStatus
<1>2. \A c \in Slot : CallOK(call[c])
  BY DEF Init, CallOK, LinksFresh, Idle
<1>3. OneCall
  BY DEF Init, OneCall, Idle
<1>4. CheckpointOK /\ Respects(row) /\ RowsOnce /\ DraftCalls /\ DraftRows
  BY DEF Init, CheckpointOK, Respects, RowsOnce, DraftCalls, DraftRows, Unbegun, Idle
<1> QED
  BY <1>1, <1>2, <1>3, <1>4 DEF IInv

-----------------------------------------------------------------------------
(* The calls of the client                                                  *)

\* At most one slot is entered.
Entered == call' = call \/ \E c \in Slot : Enter(c)

LEMMA EnteredCalls ==
  ASSUME TypeOK, Entered
  PROVE  /\ call' \in [Slot -> Calls]
         /\ \A d \in Slot : \/ call'[d] = call[d]
                            \/ /\ call[d].at = "idle"
                               /\ call'[d].at = "called" /\ call'[d].ran = {}
<1>1. CASE call' = call
  BY <1>1 DEF TypeOK
<1>2. ASSUME NEW c \in Slot, Enter(c)
      PROVE  /\ call' \in [Slot -> Calls]
             /\ \A d \in Slot : \/ call'[d] = call[d]
                                \/ /\ call[d].at = "idle"
                                   /\ call'[d].at = "called" /\ call'[d].ran = {}
  <2>1. [Idle EXCEPT !.at = "called"]
          = [at |-> "called", view |-> [n \in Node |-> "absent"], links |-> {}, ran |-> {}]
    BY DEF Idle
  <2>2. [Idle EXCEPT !.at = "called"] \in Calls
    BY <2>1 DEF Calls, Stage, NodeStatus
  <2>3. call' = [call EXCEPT ![c] = [Idle EXCEPT !.at = "called"]] /\ call \in [Slot -> Calls]
    BY <1>2 DEF Enter, TypeOK
  <2>4. call[c].at = "idle"
    BY <1>2 DEF Enter
  <2> QED
    BY <2>1, <2>2, <2>3, <2>4
<1> QED
  BY <1>1, <1>2 DEF Entered

\* A client that awaits its calls enters one when nobody is in.
LEMMA EnteredOne ==
  ASSUME IInv, Entered, Free, client' = client
  PROVE  OneCall'
<1> SUFFICES ASSUME Alone PROVE \A c, d \in Slot :
               call'[c].at # "idle" /\ call'[d].at # "idle" => c = d
  BY DEF OneCall, Alone
<1>1. \A d \in Slot : call[d].at = "idle"
  BY DEF Free, Quiet, Alone
<1>2. CASE call' = call
  BY <1>1, <1>2
<1>3. ASSUME NEW e \in Slot, Enter(e)
      PROVE  \A c, d \in Slot : call'[c].at # "idle" /\ call'[d].at # "idle" => c = d
  BY <1>1, <1>3 DEF Enter, IInv, TypeOK
<1> QED
  BY <1>2, <1>3 DEF Entered

\* A draft stays one only if nothing of it is run.
LEMMA EnteredDraft ==
  ASSUME IInv, Entered, status' = status \/ status' # "draft"
  PROVE  DraftCalls'
BY EnteredCalls DEF IInv, DraftCalls

\* Calls that write the status only.
LEMMA StatusCall ==
  ASSUME IInv, Free, Entered, status' \in Status, status' = status \/ status' # "draft",
         UNCHANGED <<row, edges, checkpoint, client>>
  PROVE  IInv'
<1>1. TypeOK'
  BY EnteredCalls DEF IInv, TypeOK
<1>2. ASSUME NEW d \in Slot PROVE CallOK(call[d])'
  <2>0. (Alone <=> Alone') /\ (Orderly <=> Orderly')
    BY DEF Alone, Orderly
  <2>1. CASE call'[d] = call[d]
    <3>1. CallOK(call[d])
      BY DEF IInv
    <3>2. Alone => call[d].at = "idle"
      BY DEF Free, Quiet, Alone
    <3> QED
      BY <2>0, <2>1, <3>1, <3>2
         DEF CallOK, ViewTyped, ViewOrdered, LinksFresh, Typed, Respects, SameNodes
  <2>2. CASE call'[d].at = "called" /\ call'[d].ran = {}
    BY <2>2 DEF CallOK, LinksFresh
  <2> QED
    BY <2>1, <2>2, EnteredCalls DEF IInv
<1>3. OneCall'
  BY EnteredOne
<1>4. CheckpointOK' /\ (Orderly => Respects(row))' /\ RowsOnce'
  BY DEF IInv, CheckpointOK, Orderly, Respects, RowsOnce, SameNodes, Typed
<1>5. DraftRows'
  BY DEF IInv, DraftRows, Orderly, Unbegun
<1> QED
  BY <1>1, <1>2, <1>3, <1>4, <1>5, EnteredDraft DEF IInv

\* Calls that write rows or edges: nobody has read them, or the client keeps no order.
NobodyKnows == \/ \A c \in Slot : call[c].at \in {"idle", "called"}
               \/ ~Alone /\ ~Orderly

LEMMA RewriteCall ==
  ASSUME IInv, Free, Entered, status' \in Status, client' = client,
         status' = status \/ status' # "draft",
         Typed(row'), edges' \subseteq Edge, NobodyKnows,
         CheckpointOK', (Orderly => Respects(row))', RowsOnce', DraftRows',
         \A s \in checkpoint' : s \in [Node -> NodeStatus]
  PROVE  IInv'
<1>1. TypeOK'
  BY EnteredCalls DEF IInv, TypeOK, Typed
<1>2. ASSUME NEW d \in Slot PROVE CallOK(call[d])'
  <2>0. (Alone <=> Alone') /\ (Orderly <=> Orderly')
    BY DEF Alone, Orderly
  <2>1. CASE call'[d] = call[d]
    <3>1. CallOK(call[d])
      BY DEF IInv
    <3>2. CASE call[d].at \in {"idle", "called"}
      BY <2>1, <3>1, <3>2 DEF CallOK, LinksFresh
    <3>3. CASE ~Alone /\ ~Orderly
      BY <2>0, <2>1, <3>1, <3>3 DEF CallOK, ViewTyped, Typed
    <3> QED
      BY <3>2, <3>3 DEF NobodyKnows
  <2>2. CASE call'[d].at = "called" /\ call'[d].ran = {}
    BY <2>2 DEF CallOK, LinksFresh
  <2> QED
    BY <2>1, <2>2, EnteredCalls DEF IInv
<1>3. OneCall'
  BY EnteredOne
<1> QED
  BY <1>1, <1>2, <1>3, EnteredDraft DEF IInv

LEMMA ClientStep ==
  ASSUME IInv,
         \/ \E def \in Definition[client] : CompileWorkflow(def)
         \/ ValidateWorkflow \/ PauseWorkflow \/ CancelWorkflow
         \/ CreateCheckpoint \/ ForgetCheckpoint \/ RestoreCheckpoint
         \/ \E n \in Node : RejectWorkflow(n)
         \/ \E N \in SUBSET Node : MergeWorkflow(N)
         \/ \E c \in Slot : \/ StartWorkflow(c) \/ ResumeWorkflow(c) \/ RestartWorkflow(c)
                            \/ \E n \in Node : ApproveWorkflow(c, n)
  PROVE  IInv'
<1>0. /\ Typed(row) /\ status \in Status /\ edges \subseteq Edge
      /\ \A s \in checkpoint : s \in [Node -> NodeStatus]
  BY DEF IInv, TypeOK, Typed
<1>1. ASSUME NEW def \in Definition[client], CompileWorkflow(def)
      PROVE  IInv'
  <2>1. /\ Free /\ Entered /\ UNCHANGED <<status, checkpoint, client>>
        /\ row' = [n \in Node |-> IF n \in def.nodes THEN "waiting" ELSE row[n]]
        /\ edges' = edges \cup def.edges
    BY <1>1 DEF CompileWorkflow, Entered
  <2>2. def.nodes \subseteq Node /\ def.edges \subseteq Edge
    BY DefinitionAssumption DEF IInv, TypeOK
  <2>3. Typed(row') /\ edges' \subseteq Edge
    BY <1>0, <2>1, <2>2 DEF Typed, NodeStatus
  <2>4. Orderly => checkpoint = {} /\ Unbegun(row)'
    <3> SUFFICES ASSUME Orderly PROVE checkpoint = {} /\ Unbegun(row)'
      OBVIOUS
    <3>1. /\ checkpoint = {}
          /\ status = "draft" \/ Existing \subseteq def.nodes
      BY <1>1 DEF CompileWorkflow, Recompilable, Orderly
    <3>2. CASE status = "draft"
      BY <2>1, <3>1, <3>2 DEF IInv, DraftRows, Unbegun
    <3>3. CASE Existing \subseteq def.nodes
      BY <2>1, <3>1, <3>3 DEF Existing, Unbegun
    <3> QED
      BY <3>1, <3>2, <3>3
  <2>5. CheckpointOK' /\ (Orderly => Respects(row))' /\ DraftRows'
    BY <2>1, <2>4 DEF IInv, CheckpointOK, Respects, DraftRows, Unbegun, Orderly, Typed
  <2>6. RowsOnce'
    BY <2>1 DEF IInv, RowsOnce
  <2>7. NobodyKnows
    <3>1. CASE Quiet
      BY <3>1 DEF Quiet, NobodyKnows
    <3>2. CASE ~Alone /\ ~Orderly
      BY <3>2 DEF NobodyKnows
    <3>3. CASE ~Alone /\ Orderly
      <4>1. status = "draft"
        BY <1>1, <3>3 DEF CompileWorkflow, Recompilable, Orderly, Alone
      <4> QED
        BY <4>1 DEF IInv, DraftCalls, NobodyKnows
    <3> QED
      BY <2>1, <3>1, <3>2, <3>3 DEF Free, Alone
  <2> QED
    BY <1>0, <2>1, <2>3, <2>5, <2>6, <2>7, RewriteCall
<1>2. CASE ValidateWorkflow \/ PauseWorkflow \/ CancelWorkflow
  BY <1>2, StatusCall
     DEF ValidateWorkflow, PauseWorkflow, CancelWorkflow, Entered, Status
<1>3. ASSUME NEW c \in Slot, StartWorkflow(c) \/ ResumeWorkflow(c) PROVE IInv'
  BY <1>0, <1>3, StatusCall DEF StartWorkflow, ResumeWorkflow, Entered, Status
\* What rewrites rows and is not awaited makes the client disorderly.
<1>4. ASSUME Free, client \cap {"decide", "force", "rewrite", "merge"} # {}
      PROVE  NobodyKnows
  BY <1>4 DEF Free, Quiet, NobodyKnows, Alone, Orderly
<1>5. ASSUME NEW c \in Slot, RestartWorkflow(c) PROVE IInv'
  <2>1. /\ Free /\ Entered /\ "rewrite" \in client
        /\ UNCHANGED <<status, edges, checkpoint, client>>
    BY <1>5 DEF RestartWorkflow, Entered
  <2>2. /\ row' \in [Node -> NodeStatus]
        /\ \A n \in Node : row'[n] \in {"absent", "waiting"}
        /\ SameNodes(row', row)
    BY <1>0, <1>5 DEF RestartWorkflow, Existing, Typed, NodeStatus, SameNodes
  <2>3. Typed(row') /\ (Orderly => Respects(row))' /\ RowsOnce'
    BY <2>1, <2>2 DEF Typed, Respects, RowsOnce
  <2>4. CheckpointOK' /\ DraftRows'
    BY <2>1, <2>2 DEF IInv, CheckpointOK, DraftRows, Unbegun, SameNodes, Respects,
       Orderly, Typed
  <2>5. NobodyKnows
    BY <2>1, <1>4
  <2> QED
    BY <1>0, <2>1, <2>3, <2>4, <2>5, RewriteCall
<1>6. ASSUME NEW n \in Node, Free, Decidable(n), Entered, status' \in Status \ {"draft"},
             NEW s \in {"completed", "failed"}, row' = [row EXCEPT ![n] = s],
             UNCHANGED <<edges, checkpoint, client>>
      PROVE  IInv'
  <2>1. client \cap {"decide", "force", "rewrite", "merge"} # {} /\ row[n] # "absent"
    BY <1>6 DEF Decidable
  <2>2. Typed(row') /\ SameNodes(row', row)
    BY <1>0, <1>6, <2>1 DEF Typed, NodeStatus, SameNodes
  <2>3. (Orderly => Respects(row))'
    <3> SUFFICES ASSUME Orderly PROVE Respects(row)'
      BY <1>6 DEF Orderly
    <3>1. n \in Approval /\ row[n] = "running" /\ Respects(row)
      BY <1>6 DEF Decidable, Orderly, IInv
    <3> QED
      BY <1>0, <1>6, <3>1 DEF Respects, Typed
  <2>4. CheckpointOK'
    BY <1>6, <2>2 DEF IInv, CheckpointOK, SameNodes, Respects, Orderly, Typed
  <2>5. RowsOnce' /\ DraftRows'
    BY <1>6, <2>1 DEF RowsOnce, DraftRows
  <2>6. NobodyKnows
    BY <1>4, <1>6, <2>1
  <2> QED
    BY <1>0, <1>6, <2>2, <2>3, <2>4, <2>5, <2>6, RewriteCall
<1>7. ASSUME NEW c \in Slot, NEW n \in Node, ApproveWorkflow(c, n) PROVE IInv'
  BY <1>6, <1>7 DEF ApproveWorkflow, Entered, Status
<1>8. ASSUME NEW n \in Node, RejectWorkflow(n) PROVE IInv'
  BY <1>6, <1>8 DEF RejectWorkflow, Entered, Status
<1>9. CASE CreateCheckpoint
  <2>1. /\ Free /\ Entered /\ "rewrite" \in client /\ checkpoint' = {row}
        /\ UNCHANGED <<status, row, edges, client>>
    BY <1>9 DEF CreateCheckpoint, Entered
  <2>2. CheckpointOK' /\ (Orderly => Respects(row))' /\ RowsOnce' /\ DraftRows'
    BY <1>0, <2>1 DEF IInv, CheckpointOK, SameNodes, Respects, Orderly, Typed, RowsOnce,
       DraftRows, Unbegun
  <2>3. NobodyKnows
    BY <2>1, <1>4
  <2>4. \A s \in checkpoint' : s \in [Node -> NodeStatus]
    BY <1>0, <2>1 DEF Typed
  <2>5. Typed(row') /\ edges' \subseteq Edge /\ status' \in Status
    BY <1>0, <2>1
  <2> QED
    BY <2>1, <2>2, <2>3, <2>4, <2>5, RewriteCall
<1>10. CASE RestoreCheckpoint
  <2>1. /\ Free /\ Entered /\ "rewrite" \in client
        /\ UNCHANGED <<status, edges, checkpoint, client>>
    BY <1>10 DEF RestoreCheckpoint, Entered
  <2>2. PICK s \in checkpoint :
          row' = [n \in Node |-> IF s[n] # "absent" /\ row[n] # "absent"
                                 THEN s[n] ELSE row[n]]
    BY <1>10 DEF RestoreCheckpoint
  <2>3. Typed(s) /\ (Orderly => SameNodes(s, row) /\ Respects(s))
    BY DEF IInv, CheckpointOK
  <2>4. Typed(row') /\ SameNodes(row', row)
    BY <1>0, <2>2, <2>3 DEF Typed, SameNodes
  <2>5. (Orderly => Respects(row))'
    <3> SUFFICES ASSUME Orderly PROVE Respects(row)'
      BY <2>1 DEF Orderly
    <3>1. \A n \in Node : row'[n] = s[n]
      BY <2>2, <2>3 DEF SameNodes
    <3> QED
      BY <2>1, <2>3, <3>1 DEF Respects
  <2>6. CheckpointOK'
    BY <2>1, <2>4 DEF IInv, CheckpointOK, SameNodes, Respects, Orderly, Typed
  <2>7. RowsOnce' /\ DraftRows'
    BY <2>1, <2>2 DEF IInv, RowsOnce, DraftRows, Unbegun, Orderly
  <2>8. NobodyKnows
    BY <2>1, <1>4
  <2> QED
    BY <1>0, <2>1, <2>4, <2>5, <2>6, <2>7, <2>8, RewriteCall
<1>11. ASSUME NEW N \in SUBSET Node, MergeWorkflow(N) PROVE IInv'
  <2>1. /\ Free /\ Entered /\ "merge" \in client
        /\ UNCHANGED <<status, edges, checkpoint, client>>
    BY <1>11 DEF MergeWorkflow, Entered
  <2>2. PICK branch \in [N -> NodeStatus \ {"absent"}] :
          /\ \A n \in N : branch[n] = "running" => n \in Approval
          /\ row' = [n \in Node |-> IF n \in N THEN branch[n] ELSE row[n]]
    BY <1>11 DEF MergeWorkflow
  <2>3. Typed(row')
    BY <1>0, <2>2 DEF Typed
  <2>4. ~Orderly /\ ~Orderly'
    BY <2>1 DEF Orderly
  <2>5. CheckpointOK' /\ (Orderly => Respects(row))' /\ RowsOnce' /\ DraftRows'
    BY <2>1, <2>4 DEF IInv, CheckpointOK, Typed, RowsOnce, DraftRows
  <2>6. NobodyKnows
    BY <2>1, <1>4
  <2> QED
    BY <1>0, <2>1, <2>3, <2>5, <2>6, RewriteCall
<1>12. CASE ForgetCheckpoint
  <2>1. /\ TypeOK' /\ Entered /\ checkpoint' = {}
        /\ UNCHANGED <<status, row, edges, call, client>>
    BY <1>12 DEF ForgetCheckpoint, IInv, TypeOK, Entered
  <2>2. \A c \in Slot : CallOK(call[c])'
    BY <2>1 DEF IInv, CallOK, ViewTyped, ViewOrdered, ViewFresh, LinksFresh, Typed,
       SameNodes, Respects, Settled, Orderly, Alone
  <2>3. OneCall' /\ CheckpointOK' /\ (Orderly => Respects(row))' /\ RowsOnce'
    BY <2>1 DEF IInv, OneCall, CheckpointOK, RowsOnce, Respects, Orderly, Alone
  <2>4. DraftCalls' /\ DraftRows'
    BY <2>1 DEF IInv, DraftCalls, DraftRows, Unbegun, Orderly
  <2> QED
    BY <2>1, <2>2, <2>3, <2>4 DEF IInv
<1> QED
  BY <1>1, <1>2, <1>3, <1>5, <1>7, <1>8, <1>9, <1>10, <1>11, <1>12

-----------------------------------------------------------------------------
(* The steps of a call of startWorkflow                                     *)

\* A step of c that leaves the rows alone keeps every other call in order.  With a
\* client that awaits its calls there is none.
LEMMA OtherCalls ==
  ASSUME IInv, NEW c \in Slot, call[c].at # "idle",
         UNCHANGED <<row, edges, checkpoint, client>>,
         \A d \in Slot \ {c} : call'[d] = call[d]
  PROVE  /\ \A d \in Slot \ {c} : CallOK(call[d])'
         /\ CheckpointOK' /\ (Orderly => Respects(row))' /\ RowsOnce'
<1>0. (Alone <=> Alone') /\ (Orderly <=> Orderly')
  BY DEF Alone, Orderly
<1>1. ASSUME NEW d \in Slot \ {c} PROVE CallOK(call[d])'
  <2>1. CallOK(call[d]) /\ call'[d] = call[d]
    BY DEF IInv
  <2>2. Alone => call[d].at = "idle"
    BY DEF IInv, OneCall
  <2> QED
    BY <1>0, <2>1, <2>2
       DEF CallOK, ViewTyped, ViewOrdered, LinksFresh, Typed, Respects, SameNodes
<1>2. CheckpointOK' /\ (Orderly => Respects(row))' /\ RowsOnce'
  BY DEF IInv, CheckpointOK, Orderly, Respects, RowsOnce, SameNodes, Typed
<1> QED
  BY <1>1, <1>2

\* The slot that moves is the only one in use, or calls overlap.
LEMMA OneCallStays ==
  ASSUME IInv, NEW c \in Slot, call[c].at # "idle", client' = client,
         \A d \in Slot \ {c} : call'[d] = call[d]
  PROVE  OneCall'
  BY DEF IInv, OneCall, Alone

\* A workflow on which a call works is no draft.
LEMMA NoDraft ==
  ASSUME IInv, NEW c \in Slot,
         \/ status' # "draft"
         \/ status' = status /\ call[c].at \notin {"idle", "called"}
  PROVE  DraftCalls' /\ DraftRows'
BY DEF IInv, DraftCalls, DraftRows

LEMMA BeginOK ==
  ASSUME IInv, NEW c \in Slot, Begin(c)
  PROVE  IInv'
<1>1. /\ call[c].at = "called" /\ status' = "running"
      /\ call' = [call EXCEPT ![c] = [@ EXCEPT !.at = "reading", !.view = row]]
      /\ UNCHANGED <<row, edges, checkpoint, client>>
  BY DEF Begin
<1>2. TypeOK'
  BY <1>1 DEF IInv, TypeOK, Calls, Stage, Status
<1>3. /\ call'[c].at = "reading" /\ call'[c].view = row /\ call'[c].ran = {}
      /\ \A d \in Slot \ {c} : call'[d] = call[d]
  BY <1>1 DEF IInv, TypeOK, Calls, CallOK
<1>4. CallOK(call[c])'
  BY <1>1, <1>3 DEF IInv, TypeOK, CallOK, ViewTyped, ViewOrdered, ViewFresh, LinksFresh,
     Typed, SameNodes, Respects, Orderly
<1>5. status' # "draft"
  BY <1>1
<1> QED
  BY <1>1, <1>2, <1>3, <1>4, <1>5, OtherCalls, OneCallStays, NoDraft DEF IInv

LEMMA ReadEdgesOK ==
  ASSUME IInv, NEW c \in Slot, ReadEdges(c)
  PROVE  IInv'
<1>1. /\ call[c].at = "reading"
      /\ call' = [call EXCEPT ![c] = [@ EXCEPT !.at = "linked", !.links = edges]]
      /\ UNCHANGED <<status, row, edges, checkpoint, client>>
  BY DEF ReadEdges
<1>2. TypeOK'
  BY <1>1 DEF IInv, TypeOK, Calls, Stage
<1>3. /\ call'[c].at = "linked" /\ call'[c].links = edges
      /\ call'[c].view = call[c].view /\ call'[c].ran = call[c].ran
      /\ \A d \in Slot \ {c} : call'[d] = call[d]
  BY <1>1 DEF IInv, TypeOK, Calls
<1>4. CallOK(call[c])
  BY DEF IInv
<1>5. CallOK(call[c])'
  BY <1>1, <1>3, <1>4 DEF CallOK, ViewTyped, ViewOrdered, ViewFresh, LinksFresh, Typed,
     SameNodes, Respects, Orderly, Alone
<1> QED
  BY <1>1, <1>2, <1>3, <1>5, OtherCalls, OneCallStays, NoDraft DEF IInv

LEMMA ThrowOrFinishOK ==
  ASSUME IInv, NEW c \in Slot, Throw(c) \/ Finish(c)
  PROVE  IInv'
<1>1. /\ call[c].at # "idle" /\ status' \in Status \ {"draft"}
      /\ call' = [call EXCEPT ![c] = Idle]
      /\ UNCHANGED <<row, edges, checkpoint, client>>
  BY DEF Throw, Finish, Outcome, Status
<1>2. Idle \in Calls
  BY DEF Calls, Idle, Stage, NodeStatus
<1>3. TypeOK'
  BY <1>1, <1>2 DEF IInv, TypeOK
<1>4. call'[c] = Idle /\ \A d \in Slot \ {c} : call'[d] = call[d]
  BY <1>1 DEF IInv, TypeOK
<1>5. CallOK(call[c])'
  BY <1>4 DEF CallOK, LinksFresh, Idle
<1> QED
  BY <1>1, <1>3, <1>4, <1>5, OtherCalls, OneCallStays, NoDraft DEF IInv

LEMMA CheckOK ==
  ASSUME IInv, NEW c \in Slot, Check(c)
  PROVE  IInv'
<1>1. /\ call[c].at = "left"
      /\ call' = [call EXCEPT ![c] = [@ EXCEPT !.at = "checking", !.view = row]]
      /\ UNCHANGED <<status, row, edges, checkpoint, client>>
  BY DEF Check
<1>2. TypeOK'
  BY <1>1 DEF IInv, TypeOK, Calls, Stage
<1>3. /\ call'[c].at = "checking" /\ call'[c].view = row
      /\ \A d \in Slot \ {c} : call'[d] = call[d]
  BY <1>1 DEF IInv, TypeOK, Calls
<1>4. CallOK(call[c])'
  BY <1>1, <1>3 DEF IInv, CallOK, LinksFresh, Settled, Alone
<1> QED
  BY <1>1, <1>2, <1>3, <1>4, OtherCalls, OneCallStays, NoDraft DEF IInv

\* What a call that has left the loop has written, given what it knew.
LEMMA WriteOK ==
  ASSUME IInv, NEW c \in Slot, call[c].at \in {"linked", "loop"},
         NEW view, NEW ran \in SUBSET Node,
         Typed(view),
         \A n \in ran : view[n] = Result(n),
         Orderly => ViewOrdered([view |-> view, ran |-> ran]),
         Orderly => \A n \in ran : row[n] = "completed" => view[n] = "completed",
         Alone => \A n \in Node : n \notin ran => view[n] = row[n],
         Alone => SameNodes(view, row),
         Alone => Settled(view),
         status' \in Status, status' = status \/ status' # "draft",
         Exit(c), Write(view, ran),
         UNCHANGED <<edges, checkpoint, client>>
  PROVE  IInv'
<1>0. (Alone <=> Alone') /\ (Orderly <=> Orderly')
  BY DEF Alone, Orderly
<1>1. /\ row' = [n \in Node |-> IF n \in ran /\ row[n] # "absent" THEN view[n] ELSE row[n]]
      /\ row \in [Node -> NodeStatus]
  BY DEF Write, IInv, TypeOK
<1>2. \A n \in ran : view[n] # "absent"
  BY DEF Result
<1>3. Typed(row') /\ SameNodes(row', row)
  <2>1. row' \in [Node -> NodeStatus] /\ SameNodes(row', row)
    BY <1>1, <1>2 DEF Typed, SameNodes
  <2>2. \A n \in Node : row'[n] = "running" => n \in Approval
    BY <1>1 DEF Typed, IInv, TypeOK
  <2> QED
    BY <2>1, <2>2 DEF Typed
<1>4. [Idle EXCEPT !.at = "left"] \in Calls
  BY DEF Idle, Calls, Stage, NodeStatus
<1>5. /\ TypeOK'
      /\ call'[c].at = "left"
      /\ \A d \in Slot \ {c} : call'[d] = call[d]
  BY <1>3, <1>4 DEF IInv, TypeOK, Typed, Exit, Idle
<1>6. OneCall'
  BY <1>5, OneCallStays
<1>7. CheckpointOK'
  BY <1>0, <1>3 DEF IInv, CheckpointOK, SameNodes, Respects, Typed
<1>8. (Orderly => Respects(row))'
  <2> SUFFICES ASSUME Orderly PROVE Respects(row)'
    BY <1>0
  <2> DEFINE k == [view |-> view, ran |-> ran]
  <2>1. Respects(view) /\ Respects(row) /\ SameNodes(view, row)
        /\ \A n \in Node : view[n] = "completed" => row[n] = "completed" \/ n \in ran
    BY DEF ViewOrdered, IInv
  <2>2. ASSUME NEW n \in Node, row'[n] \notin {"absent", "waiting"},
               NEW p \in Prerequisites(edges, n)
        PROVE  p \in Node /\ row'[p] = "completed"
    <3>1. CASE n \in ran /\ row[n] # "absent"
      <4>1. p \in Node /\ view[p] = "completed"
        BY <1>1, <2>1, <2>2, <3>1 DEF Respects
      <4>2. row[p] # "absent"
        BY <2>1, <4>1 DEF SameNodes
      <4> QED
        BY <1>1, <2>1, <4>1, <4>2
    <3>2. CASE ~(n \in ran /\ row[n] # "absent")
      <4>1. p \in Node /\ row[p] = "completed"
        BY <1>1, <2>1, <2>2, <3>2 DEF Respects
      <4> QED
        BY <1>1, <4>1
    <3> QED
      BY <3>1, <3>2
  <2> QED
    BY <2>2 DEF Respects
<1>9. RowsOnce'
  BY <1>1 DEF IInv, RowsOnce
<1>10. Alone => row' = view
  <2> SUFFICES ASSUME Alone PROVE row' = view
    OBVIOUS
  <2>1. view \in [Node -> NodeStatus]
    BY DEF Typed
  <2>2. \A n \in Node : row'[n] = view[n]
    BY <1>1, <1>2 DEF SameNodes
  <2> QED
    BY <1>1, <2>1, <2>2
<1>11. CallOK(call[c])'
  <2>1. Alone => Settled(row)'
    BY <1>10 DEF Settled
  <2> QED
    BY <1>0, <1>5, <2>1 DEF CallOK, LinksFresh
<1>12. ASSUME NEW d \in Slot \ {c} PROVE CallOK(call[d])'
  <2>1. CallOK(call[d]) /\ call'[d] = call[d]
    BY <1>5 DEF IInv
  <2>2. Alone => call[d].at = "idle"
    BY DEF IInv, OneCall
  <2>3. ASSUME Orderly, NEW n \in Node, row[n] = "completed" PROVE row'[n] = "completed"
    BY <1>1, <2>3
  <2>4. ASSUME Orderly, ViewOrdered(call[d]) PROVE ViewOrdered(call[d])'
    BY <1>3, <2>1, <2>3, <2>4 DEF ViewOrdered, Respects, SameNodes
  <2>5. ViewTyped(call[d]) => ViewTyped(call[d])'
    BY <2>1 DEF ViewTyped, Typed
  <2> QED
    BY <1>0, <2>1, <2>2, <2>4, <2>5 DEF CallOK, LinksFresh
<1>13. DraftCalls' /\ DraftRows'
  BY NoDraft
<1> QED
  BY <1>5, <1>6, <1>7, <1>8, <1>9, <1>11, <1>12, <1>13 DEF IInv

\* A call whose view is true enough may take a runnable node.
LEMMA TurnOK ==
  ASSUME IInv, NEW c \in Slot, NEW n \in Node, Turn(c, n)
  PROVE  IInv'
<1> DEFINE k == call[c]
           view == [k.view EXCEPT ![n] = Result(n)]
           ran == k.ran \cup {n}
<1>0. (Alone <=> Alone') /\ (Orderly <=> Orderly')
  BY DEF Turn, Take, Alone, Orderly
<1>1. /\ k.at \in {"linked", "loop"} /\ ~Dangling(k.view, k.links)
      /\ k \in Calls /\ k.view \in [Node -> NodeStatus] /\ k.ran \in SUBSET Node
      /\ ViewTyped(k) /\ (Orderly => ViewOrdered(k)) /\ (Alone => ViewFresh(k))
      /\ Orderly \/ Alone => k.links = edges
  BY DEF Turn, InLoop, IInv, TypeOK, Calls, CallOK, LinksFresh, ViewTyped
<1>2. /\ k.view[n] = "waiting"
      /\ \A p \in Prerequisites(k.links, n) : k.view[p] = "completed" /\ p \in Node
  BY <1>1 DEF Turn, Ready, Runnable, Dangling, Prerequisites
<1>3. /\ IF n \in Approval
         THEN Exit(c) /\ Write(view, ran)
         ELSE /\ call' = [call EXCEPT ![c] = [k EXCEPT !.at = "loop", !.view = view, !.ran = ran]]
              /\ UNCHANGED row
      /\ UNCHANGED <<status, edges, checkpoint, client>>
  BY DEF Turn, Take
<1>4. /\ view[n] = Result(n) /\ \A m \in Node : m # n => view[m] = k.view[m]
      /\ ran \in SUBSET Node /\ n \notin k.ran
  BY <1>1, <1>2 DEF ViewTyped, Result
<1>5. Typed(view)
  BY <1>1 DEF ViewTyped, Typed, Result, NodeStatus
<1>6. Orderly => ViewOrdered([view |-> view, ran |-> ran])
  <2> SUFFICES ASSUME Orderly
               PROVE  ViewOrdered([view |-> view, ran |-> ran])
    OBVIOUS
  <2>1. /\ Respects(k.view) /\ SameNodes(k.view, row) /\ k.links = edges
        /\ \A m \in Node : k.view[m] = "completed" => row[m] = "completed" \/ m \in k.ran
    BY <1>1 DEF ViewOrdered
  <2> HIDE DEF view, k
  <2>2. Respects(view)
    BY <1>2, <1>4, <2>1 DEF Respects
  <2>3. SameNodes(view, row)
    BY <1>2, <1>4, <2>1 DEF SameNodes, Result
  <2>4. \A m \in Node : view[m] = "completed" => row[m] = "completed" \/ m \in ran
    BY <1>4, <2>1
  <2> HIDE DEF ran
  <2> QED
    BY <2>2, <2>3, <2>4 DEF ViewOrdered
<1>7. Alone => /\ \A m \in Node : m \notin ran => view[m] = row[m]
               /\ \A m \in ran : row[m] = "waiting"
               /\ SameNodes(view, row) /\ status = "running"
  <2> SUFFICES ASSUME Alone PROVE /\ \A m \in Node : m \notin ran => view[m] = row[m]
                                  /\ \A m \in ran : row[m] = "waiting"
                                  /\ SameNodes(view, row) /\ status = "running"
    OBVIOUS
  <2>1. /\ status = "running"
        /\ \A m \in Node : IF m \in k.ran THEN row[m] = "waiting" ELSE k.view[m] = row[m]
        /\ \A m \in k.ran : k.view[m] = Result(m)
    BY <1>1 DEF ViewFresh, ViewTyped
  <2>2. \A m \in ran : row[m] = "waiting" /\ view[m] = Result(m)
    BY <1>1, <1>2, <1>4, <2>1
  <2>3. \A m \in Node : m \notin ran => view[m] = row[m]
    BY <1>4, <2>1
  <2> HIDE DEF view, ran
  <2> QED
    BY <2>1, <2>2, <2>3 DEF SameNodes, Result
<1>8. \A m \in ran : view[m] = Result(m)
  BY <1>1, <1>4 DEF ViewTyped
<1>9. \A m \in Node : view[m] = "absent" <=> k.view[m] = "absent"
  BY <1>2, <1>4 DEF Result
<1>10. ~Dangling(view, k.links)
  <2> HIDE DEF view, k
  <2> QED
    BY <1>1, <1>9 DEF Dangling, k
<1>11. CASE n \in Approval
  <2>1. Orderly => \A m \in ran : row[m] = "completed" => view[m] = "completed"
    <3> SUFFICES ASSUME Orderly, NEW m \in ran, row[m] = "completed"
                 PROVE  view[m] = "completed"
      OBVIOUS
    <3>1. CASE Alone
      BY <1>7, <3>1
    <3>2. CASE ~Alone
      <4>1. row[m] = Result(m)
        BY <1>4, <3>2 DEF Alone, Orderly, IInv, RowsOnce
      <4> QED
        BY <1>8, <4>1
    <3> QED
      BY <3>1, <3>2
  <2>2. Alone => Settled(view)
    BY <1>1, <1>4, <1>10, <1>11 DEF Settled, Awaiting, Result
  <2>3. status' \in Status
    BY <1>3 DEF IInv, TypeOK
  <2>4. Exit(c) /\ Write(view, ran) /\ UNCHANGED <<status, edges, checkpoint, client>>
    BY <1>3, <1>11
  <2>5. Alone => \A m \in Node : m \notin ran => view[m] = row[m]
    BY <1>7
  <2>6. Alone => SameNodes(view, row)
    BY <1>7
  <2> HIDE DEF view, ran
  <2>7. ran \in SUBSET Node /\ call[c].at \in {"linked", "loop"}
    BY <1>1, <1>4
  <2> QED
    BY <1>5, <1>6, <1>8, <2>1, <2>2, <2>3, <2>4, <2>5, <2>6, <2>7, WriteOK
<1>12. CASE n \notin Approval
  <2> DEFINE new == [k EXCEPT !.at = "loop", !.view = view, !.ran = ran]
  <2>1. /\ call' = [call EXCEPT ![c] = new]
        /\ UNCHANGED <<row, status, edges, checkpoint, client>>
    BY <1>3, <1>12
  <2>2. call'[c] = new /\ \A d \in Slot \ {c} : call'[d] = call[d]
    BY <2>1 DEF IInv, TypeOK
  <2>3. TypeOK'
    <3>1. new \in Calls
      BY <1>1, <1>4, <1>5 DEF Calls, Typed, Stage
    <3> QED
      BY <2>1, <3>1 DEF IInv, TypeOK
  <2>4. /\ call'[c].at = "loop" /\ call'[c].view = view /\ call'[c].ran = ran
        /\ call'[c].links = k.links
    BY <1>1, <2>2 DEF Calls
  <2>5. ViewTyped(call[c])'
    <3>1. \A m \in ran : m \notin Approval
      BY <1>1, <1>12 DEF ViewTyped
    <3> HIDE DEF view, ran, new, k
    <3> QED
      BY <1>5, <1>8, <1>10, <2>1, <2>4, <3>1 DEF ViewTyped, Typed
  <2>6. Orderly => ViewOrdered(call[c])'
    <3> HIDE DEF view, ran, new, k
    <3> QED
      BY <1>6, <2>1, <2>4 DEF ViewOrdered, Respects, SameNodes
  <2>7. Alone => ViewFresh(call[c])'
    <3>1. Alone => \A m \in Node : IF m \in ran THEN row[m] = "waiting" ELSE view[m] = row[m]
      BY <1>7
    <3>2. Alone => status = "running"
      BY <1>7
    <3> HIDE DEF view, ran, new, k
    <3> QED
      BY <2>1, <2>4, <3>1, <3>2 DEF ViewFresh
  <2>8. CallOK(call[c])'
    <3>1. (Orderly \/ Alone => LinksFresh(call[c]))'
      BY <1>0, <1>1, <2>1, <2>4 DEF LinksFresh
    <3> QED
      BY <1>0, <2>4, <2>5, <2>6, <2>7, <3>1 DEF CallOK
  <2>9. call[c].at \notin {"idle", "called"}
    BY <1>1
  <2> QED
    BY <2>1, <2>2, <2>3, <2>8, <2>9, OtherCalls, OneCallStays, NoDraft DEF IInv
<1> QED
  BY <1>11, <1>12

LEMMA LeaveOK ==
  ASSUME IInv, NEW c \in Slot, Leave(c)
  PROVE  IInv'
<1> DEFINE k == call[c]
<1>1. /\ k.at \in {"linked", "loop"} /\ ~Dangling(k.view, k.links)
      /\ k \in Calls /\ k.view \in [Node -> NodeStatus] /\ k.ran \in SUBSET Node
      /\ ViewTyped(k) /\ (Orderly => ViewOrdered(k)) /\ (Alone => ViewFresh(k))
      /\ Orderly \/ Alone => k.links = edges
  BY DEF Leave, InLoop, IInv, TypeOK, Calls, CallOK, LinksFresh, ViewTyped
<1>2. /\ status \in Halting \/ Runnable(k.view, k.links) = {}
      /\ status' \in {status, "waiting_approval"} /\ Exit(c) /\ Write(k.view, k.ran)
      /\ UNCHANGED <<edges, checkpoint, client>>
  BY DEF Leave, Ready
<1>4. status' \in Status
  BY <1>2 DEF IInv, TypeOK, Status
<1>5. Orderly => ViewOrdered([view |-> k.view, ran |-> k.ran])
  BY <1>1 DEF ViewOrdered
<1>6. Alone => /\ \A m \in Node : m \notin k.ran => k.view[m] = row[m]
               /\ SameNodes(k.view, row)
               /\ Settled(k.view)
  <2> SUFFICES ASSUME Alone PROVE /\ \A m \in Node : m \notin k.ran => k.view[m] = row[m]
                                  /\ SameNodes(k.view, row)
                                  /\ Settled(k.view)
    OBVIOUS
  <2>1. /\ status = "running"
        /\ \A m \in Node : IF m \in k.ran THEN row[m] = "waiting" ELSE k.view[m] = row[m]
        /\ \A m \in k.ran : k.view[m] = Result(m)
    BY <1>1 DEF ViewFresh, ViewTyped
  <2>2. SameNodes(k.view, row)
    BY <1>1, <2>1 DEF SameNodes, Result
  <2>3. Runnable(k.view, k.links) = {} /\ k.links = edges
    BY <1>1, <1>2, <2>1 DEF Halting
  <2> QED
    BY <1>1, <2>1, <2>2, <2>3 DEF Settled
<1>7. Orderly => \A m \in k.ran : row[m] = "completed" => k.view[m] = "completed"
  <2> SUFFICES ASSUME Orderly, NEW m \in k.ran, row[m] = "completed"
               PROVE  k.view[m] = "completed"
    OBVIOUS
  <2>1. k.view[m] = Result(m) /\ m \in Node
    BY <1>1 DEF ViewTyped
  <2>2. CASE Alone
    BY <1>1, <2>1, <2>2 DEF ViewFresh
  <2>3. CASE ~Alone
    BY <2>1, <2>3 DEF Alone, Orderly, IInv, RowsOnce
  <2> QED
    BY <2>2, <2>3
<1>8. Typed(k.view) /\ \A m \in k.ran : k.view[m] = Result(m)
  BY <1>1 DEF ViewTyped
<1> HIDE DEF k
<1>9. call[c].at \in {"linked", "loop"} /\ k.ran \in SUBSET Node
  BY <1>1 DEF k
<1> QED
  BY <1>2, <1>4, <1>5, <1>6, <1>7, <1>8, <1>9, WriteOK

LEMMA NextIInv == IInv /\ [Next]_vars => IInv'
<1> SUFFICES ASSUME IInv, [Next]_vars PROVE IInv'
  OBVIOUS
<1>1. ASSUME NEW c \in Slot, Step(c) PROVE IInv'
  BY <1>1, BeginOK, ReadEdgesOK, ThrowOrFinishOK, CheckOK, LeaveOK, TurnOK DEF Step
<1>2. CASE UNCHANGED vars
  BY <1>2 DEF vars, IInv, TypeOK, CallOK, OneCall, CheckpointOK, RowsOnce, Orderly,
     Alone, ViewTyped, ViewOrdered, ViewFresh, LinksFresh, Typed, Respects, SameNodes,
     Settled, DraftCalls, DraftRows, Unbegun
<1> QED
  BY <1>1, <1>2, ClientStep DEF Next

THEOREM SpecIInv == Spec => []IInv
  BY InitIInv, NextIInv, PTL DEF Spec

\* Every reachable state of a workflow is well typed, whatever calls are made and
\* however they overlap; only an approval is ever left running.
THEOREM WorkflowTypeCorrect == Spec => []TypeOK
  BY SpecIInv, PTL DEF IInv

\* Nothing behind an approval, or behind anything else, has begun before it is
\* completed (workflow_intelligence.ts:651), for every graph and every client that
\* keeps the nodes in order: that forces no decision, merges no rows, recompiles a
\* workflow that has been started only with all its nodes and while it holds no
\* checkpoint, and overlaps nothing or nothing but start, pause, resume and cancel.
THEOREM GatesHold == Spec => []NoNodeEarly
<1>1. IInv => NoNodeEarly
  BY DEF IInv, Respects, NoNodeEarly
<1> QED
  BY <1>1, SpecIInv, PTL

\* For every graph and every client that awaits its calls, an acyclic workflow is
\* reported completed only when all its nodes are (workflow_intelligence.ts:333).
THEOREM WorkflowCompletionIsHonest == Spec => CompletedMeansAll
<1> DEFINE Honest == /\ status # "completed" /\ status' = "completed"
                     /\ "overlap" \notin client /\ ~HasCycle(Existing, edges)
                     => \A n \in Existing : row[n] = "completed"
<1>1. IInv /\ [Next]_vars => Honest
  <2> SUFFICES ASSUME IInv, [Next]_vars, status # "completed", status' = "completed",
                      Alone, ~HasCycle(Existing, edges)
               PROVE  \A n \in Existing : row[n] = "completed"
    BY DEF Alone
  <2>1. PICK c \in Slot : Finish(c)
    BY DEF Next, vars, CompileWorkflow, ValidateWorkflow, PauseWorkflow, CancelWorkflow,
       CreateCheckpoint, ForgetCheckpoint, RestoreCheckpoint, RejectWorkflow,
       MergeWorkflow, StartWorkflow, ResumeWorkflow, RestartWorkflow, ApproveWorkflow,
       Step, Begin, ReadEdges, Throw, Turn, Take, Leave, Check
  <2>2. Settled(row) /\ Outcome(row) = "completed"
    BY <2>1 DEF Finish, IInv, CallOK
  <2>3. \A n \in Node : row[n] \in {"absent", "waiting", "completed"}
    BY <2>2 DEF Outcome, Awaiting, IInv, TypeOK, NodeStatus
  <2>4. Runnable(row, edges) = {} /\ ~Dangling(row, edges)
    BY <2>2 DEF Settled, Outcome
  <2> DEFINE S == {n \in Existing : row[n] # "completed"}
  <2>5. \A n \in S : \E p \in Prerequisites(edges, n) : p \in S
    <3> TAKE n \in S
    <3>1. n \in Node /\ row[n] = "waiting"
      BY <2>3 DEF Existing
    <3>2. PICK p \in Prerequisites(edges, n) : row[p] # "completed"
      BY <2>4, <3>1 DEF Runnable
    <3>3. p \in Existing
      BY <2>4, <3>2 DEF Dangling, Prerequisites, Existing
    <3> QED
      BY <3>2, <3>3
  <2>6. S = {}
    BY <2>5 DEF HasCycle
  <2> QED
    BY <2>6
<1> QED
  BY <1>1, SpecIInv, PTL DEF Spec, CompletedMeansAll

-----------------------------------------------------------------------------
(* Why a workflow does not stay running.  That continuations are run is the *)
(* fairness of FairSpec; the rest is this: a running workflow has a call     *)
(* under way, what the calls have to do gets less with each of their steps,  *)
(* some call can always go on, and none ends with the workflow running.      *)

Active(c) == call[c].at # "idle"

RunningHasCall == status = "running" => \E c \in Slot : Active(c)

LEMMA CallTyped ==
  ASSUME IInv, NEW c \in Slot
  PROVE  /\ call \in [Slot -> Calls] /\ call[c] \in Calls
         /\ call[c].at \in Stage /\ call[c].view \in [Node -> NodeStatus]
BY DEF IInv, TypeOK, Calls

LEMMA TurnMoves ==
  ASSUME IInv, NEW c \in Slot, NEW n \in Node, Turn(c, n)
  PROVE  /\ n \in Approval => call'[c].at = "left"
         /\ n \notin Approval => /\ call'[c].at = "loop"
                                /\ call'[c].view = [call[c].view EXCEPT ![n] = Result(n)]
<1>1. CASE n \in Approval
  BY <1>1, CallTyped DEF Turn, Take, Exit, Idle
<1>2. CASE n \notin Approval
  <2> DEFINE view == [call[c].view EXCEPT ![n] = Result(n)]
             ran == call[c].ran \cup {n}
  <2>1. call' = [call EXCEPT ![c] = [@ EXCEPT !.at = "loop", !.view = view, !.ran = ran]]
    BY <1>2 DEF Turn, Take
  <2> HIDE DEF view, ran
  <2>2. call'[c].at = "loop" /\ call'[c].view = view
    BY <2>1, CallTyped DEF Calls
  <2> QED
    BY <1>2, <2>2 DEF view
<1> QED
  BY <1>1, <1>2

LEMMA EnterActive ==
  ASSUME IInv, NEW c \in Slot, Enter(c)
  PROVE  Active(c)'
BY CallTyped DEF Calls, Enter, Idle, Active

LEMMA NextRunningHasCall == IInv /\ RunningHasCall /\ [Next]_vars => RunningHasCall'
<1> SUFFICES ASSUME IInv, RunningHasCall, [Next]_vars PROVE RunningHasCall'
  OBVIOUS
<1>1. CASE UNCHANGED vars \/ UNCHANGED <<status, call>>
  BY <1>1 DEF vars, RunningHasCall, Active
<1>2. ASSUME NEW c \in Slot, Enter(c) PROVE RunningHasCall'
  BY <1>2, EnterActive DEF RunningHasCall
<1>3. ASSUME NEW c \in Slot, Step(c) PROVE RunningHasCall'
  <2>1. CASE Begin(c) \/ ReadEdges(c) \/ Leave(c) \/ Check(c)
    <3>1. /\ Begin(c) => call'[c].at = "reading"
          /\ ReadEdges(c) => call'[c].at = "linked"
          /\ Leave(c) => call'[c].at = "left"
          /\ Check(c) => call'[c].at = "checking"
      <4>1. Begin(c) => call'[c].at = "reading"
        BY CallTyped DEF Calls, Begin
      <4>2. Leave(c) => call'[c].at = "left"
        BY CallTyped DEF Calls, Leave, Exit, Idle
      <4>3. Check(c) => call'[c].at = "checking"
        BY CallTyped DEF Calls, Check
      <4>4. ReadEdges(c) => call'[c].at = "linked"
        BY CallTyped DEF Calls, ReadEdges
      <4> QED
        BY <4>1, <4>2, <4>3, <4>4
    <3> QED
      BY <2>1, <3>1 DEF RunningHasCall, Active
  <2>2. CASE Throw(c) \/ Finish(c)
    BY <2>2 DEF Throw, Finish, Outcome, RunningHasCall
  <2>3. CASE \E n \in Node : Turn(c, n)
    <3>1. call'[c].at \in {"left", "loop"}
      BY <2>3, TurnMoves
    <3> QED
      BY <3>1 DEF RunningHasCall, Active
  <2> QED
    BY <1>3, <2>1, <2>2, <2>3 DEF Step
<1> QED
  BY <1>1, <1>2, <1>3
  DEF Next, CompileWorkflow, ValidateWorkflow, PauseWorkflow, CancelWorkflow,
      CreateCheckpoint, ForgetCheckpoint, RestoreCheckpoint, RejectWorkflow,
      MergeWorkflow, StartWorkflow, ResumeWorkflow, RestartWorkflow, ApproveWorkflow, RunningHasCall

\* A workflow that is reported running has a call of startWorkflow that works on it,
\* however calls overlap and whatever is approved, rejected, merged or rewritten
\* meanwhile: no call ends or throws and leaves it running
\* (workflow_intelligence.ts:344).
THEOREM RunningWorkflowsHaveCalls == Spec => []RunningHasCall
<1>1. Init => RunningHasCall
  BY DEF Init, RunningHasCall
<1> QED
  BY <1>1, NextRunningHasCall, SpecIInv, PTL DEF Spec

-----------------------------------------------------------------------------
\* The awaits that a call has yet to come back from, and the loop.
StagesLeft(k) ==
  CASE k.at = "called"   -> 6
    [] k.at = "reading"  -> 5
    [] k.at = "linked"   -> 4
    [] k.at = "loop"     -> 3
    [] k.at = "left"     -> 2
    [] k.at = "checking" -> 1
    [] OTHER             -> 0

NodesLeft(k) == {n \in Node : k.view[n] = "waiting"}

\* Lexicographically less of stages and of nodes is left to c.
Nearer(c) ==
  \/ StagesLeft(call[c])' < StagesLeft(call[c])
  \/ /\ StagesLeft(call[c])' = StagesLeft(call[c])
     /\ Cardinality(NodesLeft(call[c]))' < Cardinality(NodesLeft(call[c]))

LEMMA NodesLeftFinite ==
  ASSUME NEW k
  PROVE  IsFiniteSet(NodesLeft(k)) /\ Cardinality(NodesLeft(k)) \in Nat
BY NodeAssumption, FS_Subset, FS_CardinalityType DEF NodesLeft

LEMMA TurnGoesNearer ==
  ASSUME IInv, NEW c \in Slot, NEW n \in Node, Turn(c, n)
  PROVE  Nearer(c)
<1>1. /\ call[c].at \in {"linked", "loop"} /\ call[c].view[n] = "waiting"
  BY CallTyped DEF Turn, InLoop, Ready, Runnable
<1>2. CASE n \in Approval
  <2>1. call'[c].at = "left"
    BY <1>2, TurnMoves
  <2> QED
    BY <1>1, <2>1 DEF Nearer, StagesLeft
<1>3. CASE n \notin Approval
  <2>1. /\ call'[c].at = "loop"
        /\ call'[c].view = [call[c].view EXCEPT ![n] = Result(n)]
    BY <1>3, TurnMoves
  <2>2. CASE call[c].at = "linked"
    BY <2>1, <2>2 DEF Nearer, StagesLeft
  <2>3. CASE call[c].at = "loop"
    <3>1. NodesLeft(call'[c]) = NodesLeft(call[c]) \ {n} /\ n \in NodesLeft(call[c])
      BY <1>1, <2>1, CallTyped DEF NodesLeft, Result
    <3>2. Cardinality(NodesLeft(call'[c])) = Cardinality(NodesLeft(call[c])) - 1
      BY <3>1, NodesLeftFinite, FS_RemoveElement
    <3>3. Cardinality(NodesLeft(call'[c])) < Cardinality(NodesLeft(call[c]))
      BY <3>2, NodesLeftFinite
    <3> QED
      BY <2>1, <2>3, <3>3 DEF Nearer, StagesLeft
  <2> QED
    BY <1>1, <2>2, <2>3
<1> QED
  BY <1>2, <1>3

LEMMA StepGoesNearer ==
  ASSUME IInv, NEW c \in Slot, Step(c)
  PROVE  /\ Nearer(c)
         /\ \A d \in Slot \ {c} : call'[d] = call[d]
         /\ ~Active(c)' => status' # "running"
<1>1. \A d \in Slot \ {c} : call'[d] = call[d]
  BY CallTyped DEF Step, Begin, ReadEdges, Throw, Leave, Check, Finish, Turn, Take, Exit
<1>2. CASE Begin(c)
  <2>1. call[c].at = "called" /\ call'[c].at = "reading"
    BY <1>2, CallTyped DEF Calls, Begin
  <2> QED
    BY <1>1, <2>1 DEF Nearer, StagesLeft, Active
<1>3. CASE Throw(c)
  <2>1. call[c].at = "linked" /\ call'[c].at = "idle" /\ status' = "failed"
    BY <1>3, CallTyped DEF Calls, Throw, Idle
  <2> QED
    BY <1>1, <2>1 DEF Nearer, StagesLeft, Active
<1>4. CASE Leave(c)
  <2>1. call[c].at \in {"linked", "loop"} /\ call'[c].at = "left"
    BY <1>4, CallTyped DEF Leave, InLoop, Exit, Idle
  <2> QED
    BY <1>1, <2>1 DEF Nearer, StagesLeft, Active
<1>5. CASE Check(c)
  <2>1. call[c].at = "left" /\ call'[c].at = "checking"
    BY <1>5, CallTyped DEF Calls, Check
  <2> QED
    BY <1>1, <2>1 DEF Nearer, StagesLeft, Active
<1>6. CASE Finish(c)
  <2>1. call[c].at = "checking" /\ call'[c].at = "idle" /\ status' # "running"
    BY <1>6, CallTyped DEF Calls, Finish, Idle, Outcome
  <2> QED
    BY <1>1, <2>1 DEF Nearer, StagesLeft, Active
<1>7. ASSUME NEW n \in Node, Turn(c, n)
      PROVE  Nearer(c) /\ Active(c)'
  <2>1. call'[c].at \in {"left", "loop"}
    BY <1>7, TurnMoves
  <2> QED
    BY <1>7, <2>1, TurnGoesNearer DEF Active
<1>8. CASE ReadEdges(c)
  <2>1. call[c].at = "reading" /\ call'[c].at = "linked"
    BY <1>8, CallTyped DEF Calls, ReadEdges
  <2> QED
    BY <1>1, <2>1 DEF Nearer, StagesLeft, Active
<1> QED
  BY <1>1, <1>2, <1>3, <1>4, <1>5, <1>6, <1>7, <1>8 DEF Step

\* Whatever happens, a call that is under way stays where it is or comes nearer to
\* its end, and the workflow is not running when it gets there: the loop takes every
\* node once, also on rows and edges that others rewrite (workflow_intelligence.ts:651).
THEOREM CallsRunDown ==
  Spec => [][\A c \in Slot : Active(c) =>
               \/ call'[c] = call[c]
               \/ Nearer(c) /\ (~Active(c)' => status' # "running")]_vars
<1> DEFINE Down == \A c \in Slot : Active(c) =>
                     \/ call'[c] = call[c]
                     \/ Nearer(c) /\ (~Active(c)' => status' # "running")
<1>1. ASSUME IInv, NEW c \in Slot, Step(c) PROVE Down
  BY <1>1, StepGoesNearer
<1>2. ASSUME IInv, NEW c \in Slot, Enter(c) PROVE Down
  BY <1>2, CallTyped DEF Calls, Enter, Active
<1>3. IInv /\ [Next]_vars => [Down]_vars
  BY <1>1, <1>2
  DEF Next, CompileWorkflow, ValidateWorkflow, PauseWorkflow, CancelWorkflow,
      CreateCheckpoint, ForgetCheckpoint, RestoreCheckpoint, RejectWorkflow,
      MergeWorkflow, StartWorkflow, ResumeWorkflow, RestartWorkflow, ApproveWorkflow
<1> QED
  BY <1>3, SpecIInv, PTL DEF Spec

-----------------------------------------------------------------------------
\* The guard of some step of c.
CanGoOn(c) ==
  /\ Has(c)
  /\ \/ call[c].at \in {"called", "reading", "left", "checking"}
     \/ call[c].at = "linked" /\ Dangling(call[c].view, call[c].links)
     \/ InLoop(c) /\ (status \in Halting \/ Ready(c) = {})
     \/ InLoop(c) /\ status \notin Halting /\ \E n \in Node : n \in Ready(c)

OneLoop == \A c, d \in Slot : call[c].at = "loop" /\ call[d].at = "loop" => c = d

LEMMA NextOneLoop == IInv /\ OneLoop /\ [Next]_vars => OneLoop'
<1> SUFFICES ASSUME IInv, OneLoop, [Next]_vars PROVE OneLoop'
  OBVIOUS
<1>1. CASE UNCHANGED call
  BY <1>1 DEF OneLoop
<1>2. ASSUME NEW c \in Slot, Enter(c) PROVE OneLoop'
  <2>1. call'[c].at # "loop" /\ \A d \in Slot \ {c} : call'[d] = call[d]
    BY <1>2, CallTyped DEF Calls, Enter, Idle
  <2> QED
    BY <2>1 DEF OneLoop
<1>3. ASSUME NEW c \in Slot, Step(c) PROVE OneLoop'
  <2>1. Has(c)
    BY <1>3 DEF Step, Begin, ReadEdges, Throw, Leave, Check, Finish, Turn, InLoop
  <2>2. \A d \in Slot \ {c} : call'[d].at # "loop"
    BY <1>3, <2>1, StepGoesNearer DEF Has
  <2> QED
    BY <2>2 DEF OneLoop
<1> QED
  BY <1>1, <1>2, <1>3
  DEF Next, vars, CompileWorkflow, ValidateWorkflow, PauseWorkflow, CancelWorkflow,
      CreateCheckpoint, ForgetCheckpoint, RestoreCheckpoint, RejectWorkflow,
      MergeWorkflow, StartWorkflow, ResumeWorkflow, RestartWorkflow, ApproveWorkflow

LEMMA SpecOneLoop == Spec => []OneLoop
<1>1. Init => OneLoop
  BY DEF Init, Idle, OneLoop
<1> QED
  BY <1>1, NextOneLoop, SpecIInv, PTL DEF Spec

LEMMA ThreadGoesOn ==
  ASSUME IInv, NEW c \in Slot, Active(c), Has(c)
  PROVE  CanGoOn(c)
<1>1. call[c].at \in Stage \ {"idle"}
  BY CallTyped DEF Calls, Active
<1> QED
  BY <1>1 DEF CanGoOn, InLoop, Stage, Ready, Runnable

\* The status under which a call is in the loop: the last of its nodes was taken
\* under it, and nobody else has had the thread since.
LoopRuns == \A c \in Slot : call[c].at = "loop" => status \notin Halting

LEMMA NextLoopRuns == IInv /\ LoopRuns /\ [Next]_vars => LoopRuns'
<1> SUFFICES ASSUME IInv, LoopRuns, [Next]_vars PROVE LoopRuns'
  OBVIOUS
<1>1. CASE UNCHANGED vars
  BY <1>1 DEF vars, LoopRuns
<1>2. ASSUME Free, Entered PROVE LoopRuns'
  <2>1. \A c \in Slot : call[c].at # "loop"
    BY <1>2 DEF Free, Quiet
  <2>2. \A c \in Slot : call'[c].at # "loop"
    BY <1>2, <2>1, EnteredCalls DEF IInv
  <2> QED
    BY <2>2 DEF LoopRuns
<1>3. ASSUME NEW c \in Slot, Step(c) PROVE LoopRuns'
  <2>1. Has(c)
    BY <1>3 DEF Step, Begin, ReadEdges, Throw, Leave, Check, Finish, Turn, InLoop
  <2>2. \A d \in Slot \ {c} : call'[d].at # "loop"
    BY <1>3, <2>1, StepGoesNearer DEF Has
  <2>3. CASE \E n \in Node : Turn(c, n)
    <3>1. status' \notin Halting
      BY <2>3 DEF Turn, Take
    <3> QED
      BY <3>1 DEF LoopRuns
  <2>4. CASE ~\E n \in Node : Turn(c, n)
    <3>1. call'[c].at # "loop"
      <4>1. Begin(c) => call'[c].at = "reading"
        BY CallTyped DEF Calls, Begin
      <4>2. ReadEdges(c) => call'[c].at = "linked"
        BY CallTyped DEF Calls, ReadEdges
      <4>3. Leave(c) => call'[c].at = "left"
        BY CallTyped DEF Leave, Exit, Idle
      <4>4. Check(c) => call'[c].at = "checking"
        BY CallTyped DEF Calls, Check
      <4>5. Throw(c) \/ Finish(c) => call'[c].at = "idle"
        BY CallTyped DEF Throw, Finish, Idle
      <4> QED
        BY <1>3, <2>4, <4>1, <4>2, <4>3, <4>4, <4>5 DEF Step
    <3> QED
      BY <2>2, <3>1 DEF LoopRuns
  <2> QED
    BY <2>3, <2>4
<1> QED
  BY <1>1, <1>2, <1>3
  DEF Next, Entered, CompileWorkflow, ValidateWorkflow, PauseWorkflow, CancelWorkflow,
      CreateCheckpoint, ForgetCheckpoint, RestoreCheckpoint, RejectWorkflow,
      MergeWorkflow, StartWorkflow, ResumeWorkflow, RestartWorkflow, ApproveWorkflow

\* A pause or a cancellation that comes between the awaits of a start keeps it from
\* its nodes, for every client, however many calls overlap and whatever is compiled,
\* restored or merged meanwhile (workflow_intelligence.ts:693).
THEOREM HaltedWorkflowsRest == Spec => HaltStopsNodes
<1> DEFINE Rests == \A c \in Slot : status \in Halting /\ Step(c) => UNCHANGED row
<1>1. IInv /\ LoopRuns => Rests
  <2> SUFFICES ASSUME IInv, LoopRuns, NEW c \in Slot, status \in Halting, Step(c)
               PROVE  row' = row
    OBVIOUS
  <2>1. ~\E n \in Node : Turn(c, n)
    BY DEF Turn
  <2>2. CASE Leave(c)
    <3>1. call[c].ran = {}
      BY <2>2, CallTyped DEF Leave, InLoop, LoopRuns, IInv, CallOK, ViewTyped
    <3> QED
      BY <2>2, <3>1 DEF Leave, Write, IInv, TypeOK
  <2>3. CASE Begin(c) \/ ReadEdges(c) \/ Throw(c) \/ Check(c) \/ Finish(c)
    BY <2>3 DEF Begin, ReadEdges, Throw, Check, Finish
  <2> QED
    BY <2>1, <2>2, <2>3 DEF Step
<1>2. Init => LoopRuns
  BY DEF Init, Idle, LoopRuns
<1>3. Spec => []LoopRuns
  BY <1>2, NextLoopRuns, SpecIInv, PTL DEF Spec
<1>4. IInv /\ LoopRuns /\ [Next]_vars => [Rests]_vars
  BY <1>1
<1> HIDE DEF Rests
<1>5. Spec => [][Rests]_vars
  BY <1>3, <1>4, SpecIInv, PTL DEF Spec
<1> QED
  BY <1>5 DEF Rests, HaltStopsNodes

\* A call that is under way can go on, or waits for the one that is in the loop, which
\* can: no rows, no edges and no status leave the scheduler without a next step
\* (workflow_intelligence.ts:651).
THEOREM CallsNeverBlock ==
  Spec => [](\A c \in Slot : Active(c) => \/ CanGoOn(c)
                                          \/ \E d \in Slot : Active(d) /\ CanGoOn(d))
<1> DEFINE Goes == \A c \in Slot : Active(c) => \/ CanGoOn(c)
                                                \/ \E d \in Slot : Active(d) /\ CanGoOn(d)
<1>1. ASSUME IInv, NEW c \in Slot, Active(c), Has(c)
      PROVE  CanGoOn(c)
  BY <1>1, ThreadGoesOn
<1>2. ASSUME IInv, OneLoop, NEW c \in Slot, ~Has(c)
      PROVE  \E d \in Slot : Active(d) /\ CanGoOn(d)
  <2>1. PICK d \in Slot : call[d].at = "loop"
    BY <1>2 DEF Has
  <2>2. Has(d) /\ Active(d)
    BY <1>2, <2>1 DEF OneLoop, Has, Active
  <2> QED
    BY <1>1, <1>2, <2>2
<1>3. IInv /\ OneLoop => Goes
  BY <1>1, <1>2
<1>5. Spec => []OneLoop
  BY SpecOneLoop
<1> HIDE DEF Goes
<1>6. Spec => []Goes
  BY <1>3, <1>5, SpecIInv, PTL
<1> QED
  BY <1>6 DEF Goes

-----------------------------------------------------------------------------
(* Liveness.  A continuation that can be run is run, or stops being one.    *)
StepTaken(c) == []<>~CanGoOn(c) \/ []<><<Step(c)>>_vars

\* Fairness says no less, as a step of a call that can go on is possible.
LEMMA FairCalls ==
  ASSUME NEW c \in Slot
  PROVE  WF_vars(Step(c)) /\ [](CanGoOn(c) => ENABLED <<Step(c)>>_vars) => StepTaken(c)
BY PTL DEF StepTaken

LEMMA StepChanges ==
  ASSUME IInv, NEW c \in Slot, Step(c)
  PROVE  call' # call
<1> SUFFICES ASSUME call' = call PROVE FALSE
  OBVIOUS
<1>1. Nearer(c)
  BY StepGoesNearer
<1>2. StagesLeft(call[c]) \in Int /\ Cardinality(NodesLeft(call[c])) \in Int
  BY NodesLeftFinite DEF StagesLeft
<1>3. /\ StagesLeft(call[c])' = StagesLeft(call[c])
      /\ Cardinality(NodesLeft(call[c]))' = Cardinality(NodesLeft(call[c]))
  BY DEF StagesLeft, NodesLeft
<1> QED
  BY <1>1, <1>2, <1>3 DEF Nearer

\* As long as a call is under way, the calls do not stay as they are: one goes on, or
\* another is made.  As a call that goes on comes nearer to its end (CallsRunDown), all
\* get there, if continuations are run and clients make finitely many calls
\* (workflow_intelligence.ts:651).
THEOREM CallsMoveOn ==
  ASSUME NEW k, NEW b \in Slot, k[b].at # "idle"
  PROVE  Spec /\ (\A c \in Slot : StepTaken(c)) => (call = k ~> call # k)
<1> DEFINE Here == call = k
<1>0. call # k <=> ~Here
  OBVIOUS
<1>1. ASSUME NEW c \in Slot, k[c].at # "idle", \A d \in Slot \ {c} : k[d].at # "loop"
      PROVE  Spec /\ StepTaken(c) => (Here ~> ~Here)
  <2>1. IInv /\ Here => CanGoOn(c)
    BY <1>1, ThreadGoesOn DEF Has, Active
  <2>2. IInv /\ Here /\ <<Step(c)>>_vars => ~Here'
    BY StepChanges
  <2> HIDE DEF Here
  <2> QED
    BY <2>1, <2>2, SpecIInv, PTL DEF StepTaken, Spec
<1>2. Spec /\ (\A c \in Slot : StepTaken(c)) => (Here ~> ~Here)
  <2>1. CASE \A d \in Slot \ {b} : k[d].at # "loop"
    <3>1. Spec /\ StepTaken(b) => (Here ~> ~Here)
      BY <1>1, <2>1
    <3> QED
      BY <3>1
  <2>2. CASE \E c \in Slot : k[c].at = "loop" /\ \A d \in Slot \ {c} : k[d].at # "loop"
    <3>1. PICK c \in Slot : k[c].at = "loop" /\ \A d \in Slot \ {c} : k[d].at # "loop"
      BY <2>2
    <3>2. Spec /\ StepTaken(c) => (Here ~> ~Here)
      BY <1>1, <3>1
    <3> QED
      BY <3>2
  <2>3. CASE \E c, d \in Slot : c # d /\ k[c].at = "loop" /\ k[d].at = "loop"
    <3>1. OneLoop => ~Here
      BY <2>3 DEF OneLoop
    <3> HIDE DEF Here
    <3> QED
      BY <3>1, SpecOneLoop, PTL
  <2> QED
    BY <2>1, <2>2, <2>3
<1> HIDE DEF Here
<1>3. Spec /\ (\A c \in Slot : StepTaken(c)) => (Here ~> call # k)
  BY <1>0, <1>2, PTL
<1> QED
  BY <1>3 DEF Here

=============================================================================
