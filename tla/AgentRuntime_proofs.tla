-------------------------- MODULE AgentRuntime_proofs --------------------------
(***************************************************************************)
(* Executions are recorded as what they are, and conversations name the    *)
(* state that holds, for any requests, tools, messages and limits.         *)
(***************************************************************************)
EXTENDS AgentRuntime, TLAPS

Active(r) == req[r].at \notin Over \cup {"idle"}

\* What the stage of a request says of its session and of its loop.
StageOK(r) ==
  /\ req[r].at = "idle" => req[r].session = "none"
  /\ req[r].at = "preparing" => req[r].session \in {"Pending", "Planning"}
  /\ req[r].at = "planning" => req[r].session = "Planning" /\ req[r].kind # "talk"
  /\ req[r].at = "talking" => /\ req[r].session = "Planning"
                              /\ req[r].kind \in {"talk", "analyse"}
  /\ req[r].at \in {"asking", "routing", "tool", "building"} =>
       /\ req[r].session \in {"Planning", "Executing"}
       /\ req[r].kind # "talk"
  /\ req[r].at \in {"tool", "building"} => loop[r].todo # <<>>
  /\ req[r].at = "verifying" => /\ req[r].session = "Verifying"
                                /\ req[r].kind \in {"act", "generate"}
  /\ req[r].at = "thrown" => req[r].session \notin {"Completed", "Failed"}
  /\ req[r].at = "answered" => req[r].session \in {"Completed", "Failed"}
  /\ req[r].session = "Failed" => req[r].attempts = MaxAttempts
  /\ req[r].session = "Completed" /\ req[r].kind \in {"act", "generate"} => req[r].worked

\* What the conversation says of the state, where nobody else can change it.
ToldOK(r) ==
  /\ req[r].at \in {"asking", "routing", "tool"} => loop[r].told = state
  /\ req[r].at = "building" => state = "Verification"

\* What requests that do not overlap can rely on.
AloneOK ==
  "overlap" \notin client => /\ \A r \in Request : ToldOK(r)
                             /\ \A r, q \in Request : Active(r) /\ Active(q) => r = q

IInv ==
  /\ TypeOK
  /\ \A r \in Request : StageOK(r)
  /\ AloneOK

LEMMA InitIInv == Init => IInv
<1> SUFFICES ASSUME Init PROVE IInv
  OBVIOUS
<1>1. TypeOK
  BY LimitAssumption DEF Init, TypeOK, OfRequest, OfLoop, NoLoop, Stage, Kind, Session, State
<1>2. \A r \in Request : StageOK(r)
  BY DEF Init, StageOK, NoLoop
<1>3. AloneOK
  BY DEF Init, AloneOK, ToldOK, Active, Over
<1> QED
  BY <1>1, <1>2, <1>3 DEF IInv

\* A step is right when it is right about its own request: the others are not
\* touched, and where requests do not overlap there are none.
LEMMA OwnRequest ==
  ASSUME IInv, NEW r \in Request, TypeOK', client' = client,
         \A q \in Request \ {r} : req'[q] = req[q] /\ loop'[q] = loop[q],
         StageOK(r)',
         "overlap" \notin client => ToldOK(r)',
         "overlap" \notin client => \A q \in Request \ {r} : ~Active(q)
  PROVE  IInv'
<1>1. \A q \in Request : StageOK(q)'
  BY DEF IInv, StageOK
<1>2. AloneOK'
  <2> SUFFICES ASSUME "overlap" \notin client
               PROVE  /\ \A q \in Request : ToldOK(q)'
                      /\ \A p, q \in Request : Active(p)' /\ Active(q)' => p = q
    BY DEF AloneOK
  <2>1. \A q \in Request \ {r} : req'[q].at \in Over \cup {"idle"}
    BY DEF Active
  <2>2. \A q \in Request : ToldOK(q)'
    BY <2>1 DEF ToldOK, Over
  <2> QED
    BY <2>1, <2>2 DEF Active
<1> QED
  BY <1>1, <1>2 DEF IInv

LEMMA OwnStep ==
  ASSUME IInv, NEW r \in Request, Active(r), client' = client,
         NEW k \in OfRequest, req' = [req EXCEPT ![r] = k],
         NEW l \in OfLoop, loop' = [loop EXCEPT ![r] = l],
         state' \in State,
         StageOK(r)',
         "overlap" \notin client => ToldOK(r)'
  PROVE  IInv'
<1>1. TypeOK'
  BY DEF IInv, TypeOK
<1>2. \A q \in Request \ {r} : req'[q] = req[q] /\ loop'[q] = loop[q]
  BY DEF IInv, TypeOK
<1>3. "overlap" \notin client => \A q \in Request \ {r} : ~Active(q)
  BY DEF IInv, AloneOK
<1> QED
  BY <1>1, <1>2, <1>3, OwnRequest

LEMMA BeginOK ==
  ASSUME IInv, NEW r \in Request, Begin(r)
  PROVE  IInv'
<1>1. PICK kind \in Kind :
        req' = [req EXCEPT ![r] =
                  [@ EXCEPT !.at = "preparing", !.kind = kind,
                            !.session = IF kind = "talk" THEN "Planning" ELSE "Pending"]]
  BY DEF Begin
<1>2. UNCHANGED <<state, loop, client>>
  BY DEF Begin
<1>3. "overlap" \notin client => \A q \in Request : ~Active(q)
  BY DEF Begin, Active
<1>4. /\ req'[r].at = "preparing" /\ req'[r].session \in {"Planning", "Pending"}
      /\ \A q \in Request \ {r} : req'[q] = req[q]
  BY <1>1 DEF IInv, TypeOK, OfRequest
<1>5. TypeOK'
  BY <1>1, <1>2 DEF IInv, TypeOK, OfRequest, Stage, Session
<1> QED
  BY <1>2, <1>3, <1>4, <1>5, OwnRequest DEF StageOK, ToldOK

-----------------------------------------------------------------------------

LEMMA NoLoopTyped == NoLoop \in OfLoop /\ NoLoop.told = "Task"
BY LimitAssumption DEF NoLoop, OfLoop, State

\* What a step finds, by name.
LEMMA Own ==
  ASSUME IInv, NEW r \in Request
  PROVE  /\ req[r] \in OfRequest /\ loop[r] \in OfLoop /\ state \in State
         /\ req = [req EXCEPT ![r] = req[r]] /\ loop = [loop EXCEPT ![r] = loop[r]]
         /\ StageOK(r)
         /\ "overlap" \notin client => ToldOK(r)
BY DEF IInv, TypeOK, AloneOK

LEMMA Moving ==
  ASSUME IInv, NEW r \in Request, NEW stage \in Stage, NEW session \in Session
  PROVE  \E k \in OfRequest : /\ Moved(r, stage, session) = [req EXCEPT ![r] = k]
                              /\ k.at = stage /\ k.session = session
                              /\ k.kind = req[r].kind /\ k.worked = req[r].worked
                              /\ k.attempts = req[r].attempts
<1> DEFINE k == [req[r] EXCEPT !.at = stage, !.session = session]
<1>1. k \in OfRequest /\ k.at = stage /\ k.session = session
      /\ k.kind = req[r].kind /\ k.worked = req[r].worked /\ k.attempts = req[r].attempts
  BY Own DEF OfRequest
<1>2. Moved(r, stage, session) = [req EXCEPT ![r] = k]
  BY DEF Moved
<1> QED
  BY <1>1, <1>2

LEMMA PrepareOK ==
  ASSUME IInv, NEW r \in Request, Prepare(r)
  PROVE  IInv'
<1> DEFINE stage == IF req[r].kind = "talk" THEN "talking" ELSE "planning"
<1>0. req' = Moved(r, stage, "Planning") /\ stage \in Stage /\ "Planning" \in Session
  BY DEF Prepare, Stage, Session
<1>1. PICK k \in OfRequest : /\ req' = [req EXCEPT ![r] = k]
                           /\ k.at = stage /\ k.session = "Planning"
                           /\ k.kind = req[r].kind /\ k.worked = req[r].worked
                           /\ k.attempts = req[r].attempts
  <2> HIDE DEF stage
  <2> QED
    BY <1>0, Moving
<1>2. UNCHANGED <<state, loop, client>> /\ Active(r)
  BY DEF Prepare, At, Active, Over
<1>3. req'[r] = k
  BY <1>1 DEF IInv, TypeOK
<1>4. StageOK(r)' /\ ToldOK(r)'
  BY <1>1, <1>2, <1>3, Own DEF Prepare, At, StageOK, ToldOK
<1> QED
  BY <1>1, <1>2, <1>4, Own, OwnStep

LEMMA TalkedOK ==
  ASSUME IInv, NEW r \in Request, Talked(r)
  PROVE  IInv'
<1>1. PICK k \in OfRequest : /\ req' = [req EXCEPT ![r] = k]
                           /\ k.at = "answered" /\ k.session = "Completed"
                           /\ k.kind = req[r].kind /\ k.worked = req[r].worked
                           /\ k.attempts = req[r].attempts
  BY Moving DEF Talked, Stage, Session
<1>2. UNCHANGED <<state, loop, client>> /\ Active(r)
  BY DEF Talked, At, Active, Over
<1>3. req'[r] = k
  BY <1>1 DEF IInv, TypeOK
<1>4. StageOK(r)' /\ ToldOK(r)'
  BY <1>1, <1>2, <1>3, Own DEF Talked, At, StageOK, ToldOK
<1> QED
  BY <1>1, <1>2, <1>4, Own, OwnStep

LEMMA VerifiedOK ==
  ASSUME IInv, NEW r \in Request, Verified(r)
  PROVE  IInv'
<1>1. PICK k \in OfRequest : /\ req' = [req EXCEPT ![r] = k]
                           /\ k.at = "answered" /\ k.session = "Completed"
                           /\ k.kind = req[r].kind /\ k.worked = req[r].worked
                           /\ k.attempts = req[r].attempts
  BY Moving DEF Verified, Stage, Session
<1>2. UNCHANGED <<state, loop, client>> /\ Active(r)
  BY DEF Verified, At, Active, Over
<1>3. req'[r] = k
  BY <1>1 DEF IInv, TypeOK
<1>4. StageOK(r)' /\ ToldOK(r)'
  BY <1>1, <1>2, <1>3, Own DEF Verified, At, Passed, StageOK, ToldOK
<1> QED
  BY <1>1, <1>2, <1>4, Own, OwnStep

LEMMA AskDirectlyOK ==
  ASSUME IInv, NEW r \in Request, AskDirectly(r)
  PROVE  IInv'
<1> DEFINE k == [req[r] EXCEPT !.at = "talking"]
<1>1. /\ req' = [req EXCEPT ![r] = k] /\ k \in OfRequest /\ k.at = "talking"
      /\ k.session = req[r].session /\ k.kind = req[r].kind
      /\ k.worked = req[r].worked /\ k.attempts = req[r].attempts
  BY Own DEF AskDirectly, OfRequest, Stage
<1>2. UNCHANGED <<state, client>> /\ Active(r)
  BY DEF AskDirectly, At, Active, Over
<1>3. UNCHANGED loop
  BY DEF AskDirectly
<1> HIDE DEF k
<1>4. req'[r] = k
  BY <1>1 DEF IInv, TypeOK
<1>5. StageOK(r)' /\ ("overlap" \notin client => ToldOK(r)')
  BY <1>1, <1>2, <1>3, <1>4, Own DEF AskDirectly, At, StageOK, ToldOK
<1> QED
  BY <1>1, <1>2, <1>3, <1>5, Own, OwnStep

LEMMA ThrowOK ==
  ASSUME IInv, NEW r \in Request, Throw(r)
  PROVE  IInv'
<1> DEFINE k == [req[r] EXCEPT !.at = "thrown"]
<1>1. /\ req' = [req EXCEPT ![r] = k] /\ k \in OfRequest /\ k.at = "thrown"
      /\ k.session = req[r].session /\ k.kind = req[r].kind
      /\ k.worked = req[r].worked /\ k.attempts = req[r].attempts
  BY Own DEF Throw, OfRequest, Stage
<1>2. loop' = [loop EXCEPT ![r] = NoLoop] /\ UNCHANGED <<state, client>> /\ Active(r)
  BY DEF Throw, Active, Over
<1> HIDE DEF k
<1>4. req'[r] = k
  BY <1>1 DEF IInv, TypeOK
<1>5. StageOK(r)' /\ ToldOK(r)'
  BY <1>1, <1>2, <1>4, Own DEF Throw, StageOK, ToldOK
<1> QED
  BY <1>1, <1>2, <1>5, Own, OwnStep, NoLoopTyped

LEMMA EnterOK ==
  ASSUME IInv, NEW r \in Request, Enter(r)
  PROVE  IInv'
<1> DEFINE session == IF req[r].kind = "analyse" THEN "Planning" ELSE "Executing"
           k == [req[r] EXCEPT !.at = "asking", !.worked = FALSE, !.session = session]
           l == [iteration |-> 1, retries |-> 0, seen |-> {}, todo |-> <<>>, told |-> state']
<1>1. /\ req' = [req EXCEPT ![r] = k] /\ k \in OfRequest /\ k.at = "asking"
      /\ k.session \in {"Planning", "Executing"} /\ k.kind = req[r].kind
  BY Own DEF Enter, OfRequest, Stage, Session
<1>2. /\ state' \in State /\ client' = client /\ Active(r)
      /\ loop' = [loop EXCEPT ![r] = l]
  BY DEF Enter, At, Active, Over, State
<1>3. l \in OfLoop /\ l.told = state'
  <2>1. 1 \in 0 .. MaxIterations /\ 0 \in 0 .. MaxRetries
    BY LimitAssumption
  <2> QED
    BY <1>2, <2>1 DEF OfLoop
<1> HIDE DEF k, l
<1>4. req'[r] = k /\ loop'[r] = l
  BY <1>1, <1>2 DEF IInv, TypeOK
<1>5. StageOK(r)' /\ ToldOK(r)'
  BY <1>1, <1>3, <1>4, Own DEF Enter, At, StageOK, ToldOK
<1> QED
  BY <1>1, <1>2, <1>3, <1>5, OwnStep

LEMMA RefuseTextOK ==
  ASSUME IInv, NEW r \in Request, RefuseText(r)
  PROVE  IInv'
<1> DEFINE k == [req[r] EXCEPT !.at = "routing"]
<1>1. /\ req' = [req EXCEPT ![r] = k] /\ k \in OfRequest /\ k.at = "routing"
      /\ k.session = req[r].session /\ k.kind = req[r].kind
      /\ k.worked = req[r].worked /\ k.attempts = req[r].attempts
  BY Own DEF RefuseText, OfRequest, Stage
<1>2. UNCHANGED <<state, client>> /\ Active(r)
  BY DEF RefuseText, At, Active, Over
<1> DEFINE l == [loop[r] EXCEPT !.retries = @ + 1]
<1>3. loop' = [loop EXCEPT ![r] = l] /\ l \in OfLoop /\ l.told = loop[r].told
  BY Own, LimitAssumption DEF RefuseText, OfLoop
<1> HIDE DEF l
<1>6. loop'[r] = l
  BY <1>3 DEF IInv, TypeOK
<1> HIDE DEF k
<1>4. req'[r] = k
  BY <1>1 DEF IInv, TypeOK
<1>5. StageOK(r)' /\ ("overlap" \notin client => ToldOK(r)')
  BY <1>1, <1>2, <1>3, <1>4, <1>6, Own DEF RefuseText, At, StageOK, ToldOK
<1> QED
  BY <1>1, <1>2, <1>3, <1>5, Own, OwnStep

LEMMA AskOK ==
  ASSUME IInv, NEW r \in Request, Ask(r)
  PROVE  IInv'
<1> DEFINE k == [req[r] EXCEPT !.at = "asking"]
<1>1. /\ req' = [req EXCEPT ![r] = k] /\ k \in OfRequest /\ k.at = "asking"
      /\ k.session = req[r].session /\ k.kind = req[r].kind
      /\ k.worked = req[r].worked /\ k.attempts = req[r].attempts
  BY Own DEF Ask, OfRequest, Stage
<1>2. UNCHANGED <<state, client>> /\ Active(r)
  BY DEF Ask, At, Active, Over
<1> DEFINE next == loop[r].iteration + 1
           l == [loop[r] EXCEPT !.iteration = next]
<1>3. loop' = [loop EXCEPT ![r] = l] /\ l \in OfLoop /\ l.told = loop[r].told
  <2>1. loop' = [loop EXCEPT ![r] = l]
    BY DEF Ask
  <2>2. loop[r].iteration \in 0 .. MaxIterations
    BY Own DEF OfLoop
  <2>3. next \in 0 .. MaxIterations
    BY <2>2, LimitAssumption DEF Ask
  <2> HIDE DEF next
  <2> QED
    BY <2>1, <2>3, Own DEF OfLoop
<1> HIDE DEF l
<1>6. loop'[r] = l
  BY <1>3 DEF IInv, TypeOK
<1> HIDE DEF k
<1>4. req'[r] = k
  BY <1>1 DEF IInv, TypeOK
<1>5. StageOK(r)' /\ ("overlap" \notin client => ToldOK(r)')
  BY <1>1, <1>2, <1>3, <1>4, <1>6, Own DEF Ask, At, StageOK, ToldOK
<1> QED
  BY <1>1, <1>2, <1>3, <1>5, Own, OwnStep

LEMMA ExecuteOK ==
  ASSUME IInv, NEW r \in Request, Execute(r)
  PROVE  IInv'
<1> DEFINE k == [req[r] EXCEPT !.at = "tool"]
<1>1. /\ req' = [req EXCEPT ![r] = k] /\ k \in OfRequest /\ k.at = "tool"
      /\ k.session = req[r].session /\ k.kind = req[r].kind
      /\ k.worked = req[r].worked /\ k.attempts = req[r].attempts
  BY Own DEF Execute, OfRequest, Stage
<1>2. UNCHANGED <<state, client>> /\ Active(r)
  BY DEF Execute, At, Active, Over
<1> DEFINE l == [loop[r] EXCEPT !.seen = @ \cup {Head(loop[r].todo)}]
<1>3. loop' = [loop EXCEPT ![r] = l] /\ l \in OfLoop /\ l.told = loop[r].told /\ l.todo # <<>>
  BY Own DEF Execute, OfLoop
<1> HIDE DEF l
<1>6. loop'[r] = l
  BY <1>3 DEF IInv, TypeOK
<1> HIDE DEF k
<1>4. req'[r] = k
  BY <1>1 DEF IInv, TypeOK
<1>5. StageOK(r)' /\ ("overlap" \notin client => ToldOK(r)')
  BY <1>1, <1>2, <1>3, <1>4, <1>6, Own DEF Execute, At, StageOK, ToldOK
<1> QED
  BY <1>1, <1>2, <1>3, <1>5, Own, OwnStep

LEMMA BuiltOK ==
  ASSUME IInv, NEW r \in Request, Built(r)
  PROVE  IInv'
<1> DEFINE k == [req[r] EXCEPT !.at = "routing"]
<1>1. /\ req' = [req EXCEPT ![r] = k] /\ k \in OfRequest /\ k.at = "routing"
      /\ k.session = req[r].session /\ k.kind = req[r].kind
      /\ k.worked = req[r].worked /\ k.attempts = req[r].attempts
  BY Own DEF Built, OfRequest, Stage
<1>2. UNCHANGED <<state, client>> /\ Active(r)
  BY DEF Built, At, Active, Over
<1> DEFINE rest == Tail(loop[r].todo)
           l == [loop[r] EXCEPT !.todo = rest, !.told = "Verification"]
<1>3. loop' = [loop EXCEPT ![r] = l] /\ l \in OfLoop /\ l.told = "Verification"
  <2>1. loop' = [loop EXCEPT ![r] = l]
    BY DEF Built
  <2>2. loop[r].todo \in Seq(Tool \cup {Finish}) /\ loop[r].todo # <<>>
    BY Own DEF Built, At, StageOK, OfLoop
  <2>3. rest \in Seq(Tool \cup {Finish})
    BY <2>2
  <2> HIDE DEF rest
  <2> QED
    BY <2>1, <2>3, Own DEF OfLoop, State
<1> HIDE DEF l
<1>6. loop'[r] = l
  BY <1>3 DEF IInv, TypeOK
<1> HIDE DEF k
<1>4. req'[r] = k
  BY <1>1 DEF IInv, TypeOK
<1>5. StageOK(r)' /\ ("overlap" \notin client => ToldOK(r)')
  BY <1>1, <1>2, <1>3, <1>4, <1>6, Own DEF Built, At, StageOK, ToldOK
<1> QED
  BY <1>1, <1>2, <1>3, <1>5, Own, OwnStep

LEMMA ToolCallsOK ==
  ASSUME IInv, NEW r \in Request, ToolCalls(r)
  PROVE  IInv'
<1> DEFINE k == [req[r] EXCEPT !.at = "routing"]
<1>1. /\ req' = [req EXCEPT ![r] = k] /\ k \in OfRequest /\ k.at = "routing"
      /\ k.session = req[r].session /\ k.kind = req[r].kind
      /\ k.worked = req[r].worked /\ k.attempts = req[r].attempts
  BY Own DEF ToolCalls, OfRequest, Stage
<1>2. UNCHANGED <<state, client>> /\ Active(r)
  BY DEF ToolCalls, At, Active, Over
<1>3. PICK message \in Message : loop' = [loop EXCEPT ![r].todo = message]
  BY DEF ToolCalls
<1> DEFINE l == [loop[r] EXCEPT !.todo = message]
<1>4. loop' = [loop EXCEPT ![r] = l] /\ l \in OfLoop /\ l.told = loop[r].told
  BY <1>3, Own, MessageAssumption DEF OfLoop
<1> HIDE DEF k, l
<1>5. req'[r] = k /\ loop'[r] = l
  BY <1>1, <1>4 DEF IInv, TypeOK
<1>6. StageOK(r)' /\ ("overlap" \notin client => ToldOK(r)')
  BY <1>1, <1>2, <1>4, <1>5, Own DEF ToolCalls, At, StageOK, ToldOK
<1> QED
  BY <1>1, <1>2, <1>4, <1>6, Own, OwnStep

LEMMA SkipOK ==
  ASSUME IInv, NEW r \in Request, Skip(r)
  PROVE  IInv'
<1> DEFINE rest == Tail(loop[r].todo)
           l == [loop[r] EXCEPT !.todo = rest, !.told = "Summary"]
<1>1. /\ loop' = [loop EXCEPT ![r] = l] /\ l \in OfLoop /\ l.told = "Summary"
  <2>1. loop' = [loop EXCEPT ![r] = l]
    BY DEF Skip
  <2>2. loop[r].todo \in Seq(Tool \cup {Finish}) /\ loop[r].todo # <<>>
    BY Own DEF Skip, At, StageOK, OfLoop
  <2>3. rest \in Seq(Tool \cup {Finish})
    BY <2>2
  <2> HIDE DEF rest
  <2> QED
    BY <2>1, <2>3, Own DEF OfLoop, State
<1>2. UNCHANGED <<req, client>> /\ Active(r) /\ state' = "Summary"
  BY DEF Skip, At, Active, Over
<1> HIDE DEF l
<1>3. loop'[r] = l
  BY <1>1 DEF IInv, TypeOK
<1>4. StageOK(r)' /\ ToldOK(r)'
  BY <1>1, <1>2, <1>3, Own DEF Skip, At, StageOK, ToldOK
<1> QED
  BY <1>1, <1>2, <1>4, Own, OwnStep DEF State

LEMMA ExecutedOK ==
  ASSUME IInv, NEW r \in Request, Executed(r)
  PROVE  IInv'
<1>1. PICK success \in BOOLEAN :
        req' = [req EXCEPT ![r] = [@ EXCEPT !.at = "routing", !.worked = req[r].worked \/ success]]
  BY DEF Executed
<1> DEFINE worked == req[r].worked \/ success
           k == [req[r] EXCEPT !.at = "routing", !.worked = worked]
<1>2. /\ req' = [req EXCEPT ![r] = k] /\ k \in OfRequest /\ k.at = "routing"
      /\ k.session = req[r].session /\ k.kind = req[r].kind
      /\ k.attempts = req[r].attempts
  <2>1. req' = [req EXCEPT ![r] = k]
    BY <1>1
  <2>2. worked \in BOOLEAN
    OBVIOUS
  <2> HIDE DEF worked
  <2> QED
    BY <2>1, <2>2, Own DEF OfRequest, Stage
<1> HIDE DEF k
<1>3. req'[r] = k
  BY <1>2 DEF IInv, TypeOK
<1> DEFINE rest == Tail(loop[r].todo)
           l == [loop[r] EXCEPT !.todo = rest]
<1>4. loop' = [loop EXCEPT ![r] = l] /\ l \in OfLoop /\ l.told = loop[r].told
  <2>1. loop' = [loop EXCEPT ![r] = l]
    BY DEF Executed
  <2>2. loop[r].todo \in Seq(Tool \cup {Finish}) /\ loop[r].todo # <<>>
    BY Own DEF Executed, At, StageOK, OfLoop
  <2>3. rest \in Seq(Tool \cup {Finish})
    BY <2>2
  <2> HIDE DEF rest
  <2> QED
    BY <2>1, <2>3, Own DEF OfLoop, State
<1>5. UNCHANGED <<state, client>> /\ Active(r)
  BY DEF Executed, At, Active, Over
<1> HIDE DEF l
<1>6. loop'[r] = l
  BY <1>4 DEF IInv, TypeOK
<1>7. StageOK(r)' /\ ("overlap" \notin client => ToldOK(r)')
  BY <1>2, <1>3, <1>4, <1>5, <1>6, Own DEF Executed, At, StageOK, ToldOK
<1> QED
  BY <1>2, <1>4, <1>5, <1>7, Own, OwnStep

LEMMA EditedOK ==
  ASSUME IInv, NEW r \in Request, Edited(r)
  PROVE  IInv'
<1>1. PICK success \in BOOLEAN :
        req' = [req EXCEPT ![r] = [@ EXCEPT !.at = "building", !.worked = req[r].worked \/ success]]
  BY DEF Edited
<1> DEFINE worked == req[r].worked \/ success
           k == [req[r] EXCEPT !.at = "building", !.worked = worked]
<1>2. /\ req' = [req EXCEPT ![r] = k] /\ k \in OfRequest /\ k.at = "building"
      /\ k.session = req[r].session /\ k.kind = req[r].kind
      /\ k.attempts = req[r].attempts
  <2>1. req' = [req EXCEPT ![r] = k]
    BY <1>1
  <2>2. worked \in BOOLEAN
    OBVIOUS
  <2> HIDE DEF worked
  <2> QED
    BY <2>1, <2>2, Own DEF OfRequest, Stage
<1> HIDE DEF k
<1>3. req'[r] = k
  BY <1>2 DEF IInv, TypeOK
<1>4. UNCHANGED <<loop, client>> /\ state' = "Verification" /\ Active(r)
  BY DEF Edited, At, Active, Over
<1>5. StageOK(r)' /\ ToldOK(r)'
  BY <1>2, <1>3, <1>4, Own DEF Edited, At, StageOK, ToldOK
<1> QED
  BY <1>2, <1>4, <1>5, Own, OwnStep DEF State

LEMMA AcceptTextOK ==
  ASSUME IInv, NEW r \in Request, AcceptText(r)
  PROVE  IInv'
<1> DEFINE analyse == req[r].kind = "analyse"
<1>1. PICK k \in OfRequest : /\ req' = [req EXCEPT ![r] = k]
                           /\ k.at = (IF analyse THEN "answered" ELSE "verifying")
                           /\ k.session = (IF analyse THEN "Completed" ELSE "Verifying")
                           /\ k.kind = req[r].kind /\ k.attempts = req[r].attempts
  <2> DEFINE stage == IF analyse THEN "answered" ELSE "verifying"
             session == IF analyse THEN "Completed" ELSE "Verifying"
  <2>1. req' = Moved(r, stage, session) /\ stage \in Stage /\ session \in Session
    BY DEF AcceptText, Stage, Session
  <2> HIDE DEF stage, session
  <2>2. PICK k \in OfRequest : /\ req' = [req EXCEPT ![r] = k]
                             /\ k.at = stage /\ k.session = session
                             /\ k.kind = req[r].kind /\ k.attempts = req[r].attempts
    BY <2>1, Moving
  <2> QED
    BY <2>2 DEF stage, session
<1>2. /\ loop' = [loop EXCEPT ![r] = NoLoop] /\ state' = "Summary" /\ client' = client
      /\ Active(r)
  BY DEF AcceptText, At, Active, Over
<1>3. req'[r] = k
  BY <1>1 DEF IInv, TypeOK
<1>4. StageOK(r)' /\ ToldOK(r)'
  BY <1>1, <1>2, <1>3, Own DEF AcceptText, At, StageOK, ToldOK, OfRequest, Kind
<1> QED
  BY <1>1, <1>2, <1>4, NoLoopTyped, OwnStep DEF State

LEMMA GiveUpOK ==
  ASSUME IInv, NEW r \in Request, GiveUp(r)
  PROVE  IInv'
<1> DEFINE analyse == req[r].kind = "analyse"
<1>1. PICK k \in OfRequest : /\ req' = [req EXCEPT ![r] = k]
                           /\ k.at = (IF analyse THEN "answered" ELSE "thrown")
                           /\ k.session = (IF analyse THEN "Completed" ELSE "Verifying")
                           /\ k.kind = req[r].kind /\ k.attempts = req[r].attempts
  <2> DEFINE stage == IF analyse THEN "answered" ELSE "thrown"
             session == IF analyse THEN "Completed" ELSE "Verifying"
  <2>1. req' = Moved(r, stage, session) /\ stage \in Stage /\ session \in Session
    BY DEF GiveUp, Stage, Session
  <2> HIDE DEF stage, session
  <2>2. PICK k \in OfRequest : /\ req' = [req EXCEPT ![r] = k]
                             /\ k.at = stage /\ k.session = session
                             /\ k.kind = req[r].kind /\ k.attempts = req[r].attempts
    BY <2>1, Moving
  <2> QED
    BY <2>2 DEF stage, session
<1>2. /\ loop' = [loop EXCEPT ![r] = NoLoop] /\ state' = "Summary" /\ client' = client
      /\ Active(r)
  BY DEF GiveUp, At, Active, Over
<1>3. req'[r] = k
  BY <1>1 DEF IInv, TypeOK
<1>4. StageOK(r)' /\ ToldOK(r)'
  BY <1>1, <1>2, <1>3, Own DEF GiveUp, At, StageOK, ToldOK, OfRequest, Kind
<1> QED
  BY <1>1, <1>2, <1>4, NoLoopTyped, OwnStep DEF State

LEMMA RetryOK ==
  ASSUME IInv, NEW r \in Request, Retry(r)
  PROVE  IInv'
<1> DEFINE next == req[r].attempts + 1
           k == [req[r] EXCEPT !.at = "planning", !.session = "Planning", !.attempts = next]
<1>1. /\ req' = [req EXCEPT ![r] = k] /\ k \in OfRequest /\ k.at = "planning"
      /\ k.session = "Planning" /\ k.kind = req[r].kind
  <2>1. req' = [req EXCEPT ![r] = k]
    BY DEF Retry
  <2>2. req[r].attempts \in 0 .. MaxAttempts
    BY Own DEF OfRequest
  <2>3. next \in 0 .. MaxAttempts
    BY <2>2, LimitAssumption DEF Retry
  <2> HIDE DEF next
  <2> QED
    BY <2>1, <2>3, Own DEF OfRequest, Stage, Session
<1>2. UNCHANGED <<state, loop, client>> /\ Active(r)
  BY DEF Retry, At, Active, Over
<1> HIDE DEF k
<1>3. req'[r] = k
  BY <1>1 DEF IInv, TypeOK
<1>4. StageOK(r)' /\ ToldOK(r)'
  BY <1>1, <1>3, Own DEF Retry, At, StageOK, ToldOK
<1> QED
  BY <1>1, <1>2, <1>4, Own, OwnStep

LEMMA FailOK ==
  ASSUME IInv, NEW r \in Request, Fail(r)
  PROVE  IInv'
<1> DEFINE next == req[r].attempts + 1
           k == [req[r] EXCEPT !.at = "answered", !.session = "Failed", !.attempts = next]
<1>1. /\ req' = [req EXCEPT ![r] = k] /\ k \in OfRequest /\ k.at = "answered"
      /\ k.session = "Failed" /\ k.attempts = MaxAttempts
  <2>1. req' = [req EXCEPT ![r] = k]
    BY DEF Fail
  <2>2. req[r].attempts \in 0 .. MaxAttempts
    BY Own DEF OfRequest
  <2>3. next \in 0 .. MaxAttempts /\ next = MaxAttempts
    BY <2>2, LimitAssumption DEF Fail
  <2> HIDE DEF next
  <2> QED
    BY <2>1, <2>3, Own DEF OfRequest, Stage, Session
<1>2. UNCHANGED <<state, loop, client>> /\ Active(r)
  BY DEF Fail, At, Active, Over
<1> HIDE DEF k
<1>3. req'[r] = k
  BY <1>1 DEF IInv, TypeOK
<1>4. StageOK(r)' /\ ToldOK(r)'
  BY <1>1, <1>3 DEF StageOK, ToldOK
<1> QED
  BY <1>1, <1>2, <1>4, Own, OwnStep

-----------------------------------------------------------------------------

LEMMA NextIInv == IInv /\ [Next]_vars => IInv'
<1> SUFFICES ASSUME IInv, [Next]_vars PROVE IInv'
  OBVIOUS
<1>1. ASSUME NEW r \in Request, Step(r) PROVE IInv'
  BY <1>1, PrepareOK, AskDirectlyOK, TalkedOK, ThrowOK, EnterOK, ToolCallsOK, RefuseTextOK,
     AcceptTextOK, SkipOK, ExecuteOK, ExecutedOK, EditedOK, BuiltOK, AskOK, GiveUpOK,
     VerifiedOK, RetryOK, FailOK DEF Step
<1>2. CASE UNCHANGED vars
  BY <1>2 DEF vars, IInv, TypeOK, StageOK, AloneOK, ToldOK, Active
<1> QED
  BY <1>1, <1>2, BeginOK DEF Next

THEOREM SpecIInv == Spec => []IInv
  BY InitIInv, NextIInv, PTL DEF Spec

\* Every reachable state is well typed: no loop goes on beyond its limits, and no
\* request beyond its attempts, for any limits (tool_router.ts:84).
THEOREM RequestsTypeCorrect == Spec => []TypeOK
  BY SpecIInv, PTL DEF IInv

\* For any requests that overlap as they like, the record of an execution is
\* Completed or Failed exactly when its caller has an answer that deserves it
\* (agent_runtime.ts:371).
THEOREM SessionsTellOutcomes == Spec => []SessionTellsOutcome
<1>1. IInv => SessionTellsOutcome
  <2> SUFFICES ASSUME IInv, NEW r \in Request
               PROVE  req[r].session \in {"Completed", "Failed"} => req[r].at = "answered"
    BY DEF IInv, StageOK, SessionTellsOutcome
  <2>1. req[r].at \in Stage /\ StageOK(r)
    BY DEF IInv, TypeOK, OfRequest
  <2> QED
    BY <2>1 DEF Stage, StageOK
<1> QED
  BY <1>1, SpecIInv, PTL

\* For any requests that wait for each other, the model's answer is judged by the
\* state that its conversation has named (tool_router.ts:199).
THEOREM ConversationsNameTheState == Spec => []ToldStateHolds
<1>1. IInv => ToldStateHolds
  BY DEF IInv, AloneOK, ToldOK, ToldStateHolds
<1> QED
  BY <1>1, SpecIInv, PTL

-----------------------------------------------------------------------------
(* Why a request comes to an end.  That awaited calls settle is the fairness *)
(* of FairSpec; what follows is the rest of it: every step of a request      *)
(* takes it nearer to its end, whatever the others do, and as long as some   *)
(* request is under way one can go on.                                       *)

AttemptsLeft(r) == MaxAttempts - req[r].attempts

InTurn == {"asking", "routing", "tool", "building"}

\* How far an attempt is from its end.
Phase(r) ==
  CASE req[r].at = "idle"                   -> 5
    [] req[r].at = "preparing"              -> 4
    [] req[r].at = "planning"               -> 3
    [] req[r].at \in InTurn \cup {"talking"} -> 2
    [] req[r].at = "verifying"              -> 1
    [] OTHER                                -> 0

TurnsLeft(r) == MaxIterations - loop[r].iteration

\* A message may hold any number of calls, so no number bounds what is left of a turn
\* while the model is asked.
Asking(r) == IF req[r].at = "asking" THEN 1 ELSE 0

\* What is left of a message: each of its calls is routed, run and verified.
CallsLeft(r) ==
  3 * Len(loop[r].todo) + (CASE req[r].at = "building" -> 0
                             [] req[r].at = "tool"     -> 1
                             [] OTHER                  -> 2)

\* Lexicographically less of attempts, phases, turns, messages and calls is left to r.
Nearer(r) ==
  \/ AttemptsLeft(r)' < AttemptsLeft(r)
  \/ /\ AttemptsLeft(r)' = AttemptsLeft(r)
     /\ \/ Phase(r)' < Phase(r)
        \/ /\ Phase(r)' = Phase(r)
           /\ \/ TurnsLeft(r)' < TurnsLeft(r)
              \/ /\ TurnsLeft(r)' = TurnsLeft(r)
                 /\ \/ Asking(r)' < Asking(r)
                    \/ Asking(r)' = Asking(r) /\ CallsLeft(r)' < CallsLeft(r)

\* All five are natural numbers, so that this cannot go on for ever.
LEMMA LeftNatural ==
  ASSUME IInv, NEW r \in Request
  PROVE  /\ AttemptsLeft(r) \in Nat /\ Phase(r) \in 0 .. 5 /\ TurnsLeft(r) \in Nat
         /\ Asking(r) \in Nat /\ CallsLeft(r) \in Nat
<1>1. /\ req[r].attempts \in 0 .. MaxAttempts /\ loop[r].iteration \in 0 .. MaxIterations
      /\ loop[r].todo \in Seq(Tool \cup {Finish})
  BY DEF IInv, TypeOK, OfRequest, OfLoop
<1>2. Len(loop[r].todo) \in Nat
  BY <1>1
<1>3. AttemptsLeft(r) \in Nat
  BY <1>1, LimitAssumption DEF AttemptsLeft
<1>4. TurnsLeft(r) \in Nat
  BY <1>1, LimitAssumption DEF TurnsLeft
<1>5. Phase(r) \in 0 .. 5
  BY DEF Phase
<1>6. Asking(r) \in Nat
  BY DEF Asking
<1>7. CallsLeft(r) \in Nat
  <2> DEFINE left == CASE req[r].at = "building" -> 0
                       [] req[r].at = "tool"     -> 1
                       [] OTHER                  -> 2
  <2>1. left \in Nat
    OBVIOUS
  <2>2. CallsLeft(r) = 3 * Len(loop[r].todo) + left
    BY DEF CallsLeft
  <2> HIDE DEF left
  <2> QED
    BY <1>2, <2>1, <2>2
<1> QED
  BY <1>3, <1>4, <1>5, <1>6, <1>7

\* A message gets shorter with each of its calls.
LEMMA Shorter ==
  ASSUME NEW calls \in Seq(Tool \cup {Finish}), calls # <<>>
  PROVE  Len(calls) \in Nat \ {0} /\ Len(Tail(calls)) = Len(calls) - 1
OBVIOUS

LEMMA StepGoesNearer ==
  ASSUME IInv, NEW r \in Request, Step(r)
  PROVE  Nearer(r)
<1>0. /\ req \in [Request -> OfRequest] /\ loop \in [Request -> OfLoop]
      /\ req[r] \in OfRequest /\ loop[r] \in OfLoop /\ StageOK(r)
  BY DEF IInv, TypeOK
<1>1. req[r].attempts \in Int /\ loop[r].iteration \in Int /\ MaxIterations \in Int
      /\ MaxAttempts \in Int /\ loop[r].todo \in Seq(Tool \cup {Finish})
  BY <1>0, LimitAssumption DEF OfRequest, OfLoop
<1>2. CASE Prepare(r)
  <2>1. req'[r].attempts = req[r].attempts /\ req[r].at = "preparing"
        /\ req'[r].at \in {"talking", "planning"}
    BY <1>0, <1>2 DEF Prepare, At, Moved, OfRequest
  <2> QED
    BY <1>1, <2>1 DEF Nearer, AttemptsLeft, Phase, InTurn
<1>3. CASE AskDirectly(r)
  <2>1. req'[r].attempts = req[r].attempts /\ req[r].at = "planning" /\ req'[r].at = "talking"
    BY <1>0, <1>3 DEF AskDirectly, At, OfRequest
  <2> QED
    BY <1>1, <2>1 DEF Nearer, AttemptsLeft, Phase, InTurn
<1>4. CASE Talked(r)
  <2>1. req'[r].attempts = req[r].attempts /\ req[r].at = "talking" /\ req'[r].at = "answered"
    BY <1>0, <1>4 DEF Talked, At, Moved, OfRequest
  <2> QED
    BY <1>1, <2>1 DEF Nearer, AttemptsLeft, Phase, InTurn
<1>5. CASE Throw(r)
  <2>1. req'[r].attempts = req[r].attempts /\ req'[r].at = "thrown"
        /\ req[r].at \in {"preparing", "talking", "asking", "planning"}
    BY <1>0, <1>5 DEF Throw, OfRequest
  <2> QED
    BY <1>1, <2>1 DEF Nearer, AttemptsLeft, Phase, InTurn
<1>6. CASE Enter(r)
  <2>1. req'[r].attempts = req[r].attempts /\ req[r].at = "planning" /\ req'[r].at = "asking"
    BY <1>0, <1>6 DEF Enter, At, OfRequest
  <2> QED
    BY <1>1, <2>1 DEF Nearer, AttemptsLeft, Phase, InTurn
<1>7. CASE ToolCalls(r)
  <2>1. req'[r].attempts = req[r].attempts /\ req[r].at = "asking" /\ req'[r].at = "routing"
    BY <1>0, <1>7 DEF ToolCalls, At, OfRequest
  <2>2. loop'[r].iteration = loop[r].iteration
    BY <1>0, <1>7 DEF ToolCalls, OfLoop
  <2> QED
    BY <1>1, <2>1, <2>2 DEF Nearer, AttemptsLeft, Phase, InTurn, TurnsLeft, Asking
<1>8. CASE RefuseText(r)
  <2>1. req'[r].attempts = req[r].attempts /\ req[r].at = "asking" /\ req'[r].at = "routing"
    BY <1>0, <1>8 DEF RefuseText, At, OfRequest
  <2>2. loop'[r].iteration = loop[r].iteration
    BY <1>0, <1>8 DEF RefuseText, OfLoop
  <2> QED
    BY <1>1, <2>1, <2>2 DEF Nearer, AttemptsLeft, Phase, InTurn, TurnsLeft, Asking
<1>9. CASE AcceptText(r)
  <2>1. req'[r].attempts = req[r].attempts /\ req[r].at = "asking"
        /\ req'[r].at \in {"answered", "verifying"}
    BY <1>0, <1>9 DEF AcceptText, At, Moved, OfRequest
  <2> QED
    BY <1>1, <2>1 DEF Nearer, AttemptsLeft, Phase, InTurn
<1>10. CASE Skip(r)
  <2>1. req' = req /\ req[r].at = "routing" /\ loop[r].todo # <<>>
    BY <1>10 DEF Skip, At
  <2>2. loop'[r].iteration = loop[r].iteration /\ loop'[r].todo = Tail(loop[r].todo)
    BY <1>0, <1>10 DEF Skip, OfLoop
  <2> QED
    BY <1>1, <2>1, <2>2, Shorter
    DEF Nearer, AttemptsLeft, Phase, InTurn, TurnsLeft, Asking, CallsLeft
<1>11. CASE Execute(r)
  <2>1. req'[r].attempts = req[r].attempts /\ req[r].at = "routing" /\ req'[r].at = "tool"
    BY <1>0, <1>11 DEF Execute, At, OfRequest
  <2>2. loop'[r].iteration = loop[r].iteration /\ loop'[r].todo = loop[r].todo
    BY <1>0, <1>11 DEF Execute, OfLoop
  <2>3. Len(loop[r].todo) \in Int
    BY <1>1
  <2> QED
    BY <1>1, <2>1, <2>2, <2>3
    DEF Nearer, AttemptsLeft, Phase, InTurn, TurnsLeft, Asking, CallsLeft
<1>12. CASE Executed(r)
  <2>1. req'[r].attempts = req[r].attempts /\ req[r].at = "tool" /\ req'[r].at = "routing"
    BY <1>0, <1>12 DEF Executed, At, OfRequest
  <2>2. loop'[r].iteration = loop[r].iteration /\ loop'[r].todo = Tail(loop[r].todo)
    BY <1>0, <1>12 DEF Executed, OfLoop
  <2>3. loop[r].todo # <<>>
    BY <1>0, <2>1 DEF StageOK
  <2> QED
    BY <1>1, <2>1, <2>2, <2>3, Shorter
    DEF Nearer, AttemptsLeft, Phase, InTurn, TurnsLeft, Asking, CallsLeft
<1>13. CASE Edited(r)
  <2>1. req'[r].attempts = req[r].attempts /\ req[r].at = "tool" /\ req'[r].at = "building"
    BY <1>0, <1>13 DEF Edited, At, OfRequest
  <2>2. loop' = loop /\ Len(loop[r].todo) \in Int
    BY <1>1, <1>13 DEF Edited
  <2> QED
    BY <1>1, <2>1, <2>2
    DEF Nearer, AttemptsLeft, Phase, InTurn, TurnsLeft, Asking, CallsLeft
<1>14. CASE Built(r)
  <2>1. req'[r].attempts = req[r].attempts /\ req[r].at = "building" /\ req'[r].at = "routing"
    BY <1>0, <1>14 DEF Built, At, OfRequest
  <2>2. loop'[r].iteration = loop[r].iteration /\ loop'[r].todo = Tail(loop[r].todo)
    BY <1>0, <1>14 DEF Built, OfLoop
  <2>3. loop[r].todo # <<>>
    BY <1>0, <2>1 DEF StageOK
  <2> QED
    BY <1>1, <2>1, <2>2, <2>3, Shorter
    DEF Nearer, AttemptsLeft, Phase, InTurn, TurnsLeft, Asking, CallsLeft
<1>15. CASE Ask(r)
  <2>1. req'[r].attempts = req[r].attempts /\ req[r].at = "routing" /\ req'[r].at = "asking"
    BY <1>0, <1>15 DEF Ask, At, OfRequest
  <2>2. loop'[r].iteration = loop[r].iteration + 1
    BY <1>0, <1>15 DEF Ask, OfLoop
  <2> QED
    BY <1>1, <2>1, <2>2 DEF Nearer, AttemptsLeft, Phase, InTurn, TurnsLeft
<1>16. CASE GiveUp(r)
  <2>1. req'[r].attempts = req[r].attempts /\ req[r].at = "routing"
        /\ req'[r].at \in {"answered", "thrown"}
    BY <1>0, <1>16 DEF GiveUp, At, Moved, OfRequest
  <2> QED
    BY <1>1, <2>1 DEF Nearer, AttemptsLeft, Phase, InTurn
<1>17. CASE Verified(r)
  <2>1. req'[r].attempts = req[r].attempts /\ req[r].at = "verifying" /\ req'[r].at = "answered"
    BY <1>0, <1>17 DEF Verified, At, Moved, OfRequest
  <2> QED
    BY <1>1, <2>1 DEF Nearer, AttemptsLeft, Phase, InTurn
<1>18. CASE Retry(r) \/ Fail(r)
  <2>1. req'[r].attempts = req[r].attempts + 1
    BY <1>0, <1>18 DEF Retry, Fail, OfRequest
  <2> QED
    BY <1>1, <2>1 DEF Nearer, AttemptsLeft
<1> QED
  BY <1>2, <1>3, <1>4, <1>5, <1>6, <1>7, <1>8, <1>9, <1>10, <1>11, <1>12, <1>13, <1>14,
     <1>15, <1>16, <1>17, <1>18
  DEF Step

\* Requests share a state, but not what is left to them.
LEMMA OthersStay ==
  ASSUME IInv, NEW r \in Request, Begin(r) \/ Step(r)
  PROVE  \A q \in Request \ {r} : req'[q] = req[q] /\ loop'[q] = loop[q]
<1>1. req \in [Request -> OfRequest] /\ loop \in [Request -> OfLoop]
  BY DEF IInv, TypeOK
<1>2. CASE Begin(r)
  BY <1>1, <1>2 DEF Begin
<1>3. CASE Prepare(r) \/ AskDirectly(r) \/ Talked(r) \/ Throw(r) \/ Enter(r)
  BY <1>1, <1>3 DEF Prepare, AskDirectly, Talked, Throw, Enter, Moved
<1>4. CASE ToolCalls(r) \/ RefuseText(r) \/ AcceptText(r) \/ Skip(r) \/ Execute(r)
  BY <1>1, <1>4 DEF ToolCalls, RefuseText, AcceptText, Skip, Execute, Moved
<1>5. CASE Executed(r) \/ Edited(r) \/ Built(r) \/ Ask(r) \/ GiveUp(r)
  BY <1>1, <1>5 DEF Executed, Edited, Built, Ask, GiveUp, Moved
<1>6. CASE Verified(r) \/ Retry(r) \/ Fail(r)
  BY <1>1, <1>6 DEF Verified, Retry, Fail, Moved
<1> QED
  BY <1>2, <1>3, <1>4, <1>5, <1>6 DEF Step

\* Everything that happens takes one request nearer to its end and leaves the others
\* where they are, also when they overlap: the loop and the attempts cannot go on for
\* ever, whatever the model asks for and whatever others do to the state that all
\* share (tool_router.ts:84, agent_runtime.ts:371).
THEOREM RequestsRunDown ==
  Spec => [][\E r \in Request : /\ Nearer(r)
                                /\ \A q \in Request \ {r} : req'[q] = req[q] /\ loop'[q] = loop[q]
            ]_vars
<1>1. ASSUME IInv, NEW r \in Request, Begin(r) \/ Step(r)
      PROVE  Nearer(r)
  <2>1. CASE Begin(r)
    <3>1. req[r] \in OfRequest /\ req \in [Request -> OfRequest]
      BY <1>1 DEF IInv, TypeOK
    <3>2. req[r].at = "idle" /\ req'[r].at = "preparing" /\ req'[r].attempts = req[r].attempts
      BY <2>1, <3>1 DEF Begin, At, OfRequest
    <3>3. req[r].attempts \in Int /\ MaxAttempts \in Int
      BY <3>1, LimitAssumption DEF OfRequest
    <3> QED
      BY <3>2, <3>3 DEF Nearer, AttemptsLeft, Phase, InTurn
  <2>2. CASE Step(r)
    BY <1>1, <2>2, StepGoesNearer
  <2> QED
    BY <1>1, <2>1, <2>2
<1>2. IInv /\ [Next]_vars =>
        [\E r \in Request : /\ Nearer(r)
                            /\ \A q \in Request \ {r} : req'[q] = req[q] /\ loop'[q] = loop[q]
        ]_vars
  BY <1>1, OthersStay DEF Next
<1> QED
  BY <1>2, SpecIInv, PTL DEF Spec

-----------------------------------------------------------------------------
\* The guard of some step of r that no failure brings about.
CanGoOn(r) ==
  /\ Has(r)
  /\ \/ req[r].at \in {"preparing", "planning", "talking", "asking", "tool", "building"}
     \/ /\ req[r].at = "routing" /\ loop[r].todo # <<>>
        /\ Head(loop[r].todo) \in loop[r].seen \cup {Finish} \cup (Tool \ loop[r].seen)
     \/ /\ req[r].at = "routing" /\ loop[r].todo = <<>>
        /\ loop[r].iteration < MaxIterations \/ loop[r].iteration = MaxIterations
     \/ /\ req[r].at = "verifying"
        /\ \/ \E modified \in BOOLEAN : Passed(r, modified)
           \/ req[r].attempts + 1 < MaxAttempts \/ req[r].attempts + 1 = MaxAttempts

WithThread == {"routing", "verifying"}

\* One request has the thread at most, and one that has no answer may try again.
OneThread ==
  /\ \A r, q \in Request : req[r].at \in WithThread /\ req[q].at \in WithThread => r = q
  /\ \A r \in Request : req[r].at # "answered" => req[r].attempts < MaxAttempts

LEMMA InitOneThread == Init => OneThread
BY LimitAssumption DEF Init, OneThread, WithThread

LEMMA NextOneThread == IInv /\ OneThread /\ [Next]_vars => OneThread'
<1> SUFFICES ASSUME IInv, OneThread, [Next]_vars PROVE OneThread'
  OBVIOUS
<1>1. CASE UNCHANGED vars
  BY <1>1 DEF OneThread, vars
<1>2. ASSUME NEW r \in Request, Begin(r) \/ Step(r) PROVE OneThread'
  <2>1. req \in [Request -> OfRequest] /\ req[r] \in OfRequest
    BY DEF IInv, TypeOK
  <2>2. Has(r)
    BY <1>2 DEF Begin, Step, Prepare, AskDirectly, Talked, Throw, Enter, ToolCalls,
       RefuseText, AcceptText, Skip, Execute, Executed, Edited, Built, Ask, GiveUp, Verified,
       Retry, Fail, At
  <2>3. \A q \in Request \ {r} : req'[q] = req[q] /\ req'[q].at \notin WithThread
    BY <1>2, <2>2, OthersStay DEF Has, WithThread
  <2>4. req'[r].at # "answered" => req'[r].attempts < MaxAttempts
    <3>1. req[r].at # "answered"
      BY <1>2 DEF Begin, Step, Prepare, AskDirectly, Talked, Throw, Enter, ToolCalls,
         RefuseText, AcceptText, Skip, Execute, Executed, Edited, Built, Ask, GiveUp,
         Verified, Retry, Fail, At
    <3>2. CASE Begin(r)
      BY <2>1, <3>1, <3>2 DEF Begin, OneThread, OfRequest
    <3>3. CASE Prepare(r) \/ Talked(r) \/ Verified(r) \/ AcceptText(r) \/ GiveUp(r)
      <4>1. PICK stage, session : req' = Moved(r, stage, session)
        BY <3>3 DEF Prepare, Talked, Verified, AcceptText, GiveUp
      <4>2. req'[r].attempts = req[r].attempts
        BY <2>1, <4>1 DEF Moved, OfRequest
      <4> QED
        BY <3>1, <4>2 DEF OneThread
    <3>4. CASE AskDirectly(r) \/ Throw(r) \/ ToolCalls(r) \/ RefuseText(r) \/ Skip(r)
                 \/ Execute(r) \/ Built(r) \/ Ask(r)
      <4>1. PICK stage : req' = [req EXCEPT ![r].at = stage] \/ req' = req
        BY <3>4 DEF AskDirectly, Throw, ToolCalls, RefuseText, Skip, Execute, Built, Ask
      <4>2. req'[r].attempts = req[r].attempts
        BY <2>1, <4>1 DEF OfRequest
      <4> QED
        BY <3>1, <4>2 DEF OneThread
    <3>5. CASE Enter(r)
      BY <2>1, <3>1, <3>5 DEF Enter, OneThread, OfRequest
    <3>6. CASE Executed(r)
      BY <2>1, <3>1, <3>6 DEF Executed, OneThread, OfRequest
    <3>7. CASE Edited(r)
      BY <2>1, <3>1, <3>7 DEF Edited, OneThread, OfRequest
    <3>8. CASE Retry(r)
      <4>1. req'[r].attempts = req[r].attempts + 1
        BY <2>1, <3>8 DEF Retry, OfRequest
      <4> QED
        BY <3>8, <4>1 DEF Retry
    <3>9. CASE Fail(r)
      <4>1. req'[r].at = "answered"
        BY <2>1, <3>9 DEF Fail, OfRequest
      <4> QED
        BY <4>1
    <3> QED
      BY <1>2, <3>2, <3>3, <3>4, <3>5, <3>6, <3>7, <3>8, <3>9 DEF Step
  <2> QED
    BY <2>3, <2>4 DEF OneThread
<1> QED
  BY <1>1, <1>2 DEF Next

LEMMA ThreadGoesOn ==
  ASSUME IInv, OneThread, NEW r \in Request, Active(r), Has(r)
  PROVE  CanGoOn(r)
<1>1. /\ req[r] \in OfRequest /\ loop[r] \in OfLoop /\ StageOK(r)
  BY DEF IInv, TypeOK
<1>2. CASE req[r].at = "routing"
  <2>1. /\ loop[r].todo \in Seq(Tool \cup {Finish}) /\ loop[r].iteration \in 0 .. MaxIterations
    BY <1>1 DEF OfLoop
  <2>2. loop[r].todo # <<>> => Head(loop[r].todo) \in Tool \cup {Finish}
    BY <2>1
  <2> QED
    BY <1>2, <2>1, <2>2, LimitAssumption DEF CanGoOn
<1>3. CASE req[r].at = "verifying"
  <2>1. req[r].attempts \in 0 .. MaxAttempts /\ req[r].attempts < MaxAttempts
    BY <1>1, <1>3 DEF OfRequest, OneThread
  <2> QED
    BY <1>3, <2>1, LimitAssumption DEF CanGoOn
<1>4. CASE req[r].at \notin WithThread
  <2>1. req[r].at \in Stage
    BY <1>1 DEF OfRequest
  <2> QED
    BY <1>4, <2>1 DEF CanGoOn, Active, Over, Stage, WithThread
<1> QED
  BY <1>2, <1>3, <1>4 DEF WithThread

\* As long as a request is under way, it can go on, or waits for the one that has the
\* thread, which can: no call of a message, no limit of the loop and no count of the
\* attempts leaves the runtime with nothing to do (tool_router.ts:84).
THEOREM RequestsNeverBlock ==
  Spec => [](\A r \in Request : Active(r) => \/ CanGoOn(r)
                                             \/ \E q \in Request : Active(q) /\ CanGoOn(q))
<1> DEFINE Goes == \A r \in Request : Active(r) => \/ CanGoOn(r)
                                                   \/ \E q \in Request : Active(q) /\ CanGoOn(q)
<1>1. ASSUME IInv, OneThread, NEW r \in Request, Active(r), Has(r)
      PROVE  CanGoOn(r)
  BY <1>1, ThreadGoesOn
<1>2. ASSUME IInv, OneThread, NEW r \in Request, Active(r), ~Has(r)
      PROVE  \E q \in Request : Active(q) /\ CanGoOn(q)
  <2>1. PICK q \in Request \ {r} : req[q].at \in WithThread
    BY <1>2 DEF Has, WithThread
  <2>2. Has(q) /\ Active(q)
    BY <1>2, <2>1 DEF OneThread, Has, WithThread, Active, Over
  <2> QED
    BY <1>1, <1>2, <2>2
<1>3. IInv /\ OneThread => Goes
  BY <1>1, <1>2
<1>4. Spec => []OneThread
  BY InitOneThread, NextOneThread, SpecIInv, PTL DEF Spec
<1> HIDE DEF Goes
<1>5. Spec => []Goes
  BY <1>3, <1>4, SpecIInv, PTL
<1> QED
  BY <1>5 DEF Goes

-----------------------------------------------------------------------------
(* Liveness.  What is awaited settles: a request that can go on does so, or *)
(* stops being able to.                                                     *)
StepTaken(r) == []<>~CanGoOn(r) \/ []<><<Step(r)>>_vars

\* Fairness says no less, as a step of a request that can go on is possible.
LEMMA FairRequests ==
  ASSUME NEW r \in Request
  PROVE  WF_vars(Step(r)) /\ [](CanGoOn(r) => ENABLED <<Step(r)>>_vars) => StepTaken(r)
BY PTL DEF StepTaken

LEMMA StepChanges ==
  ASSUME IInv, NEW r \in Request, Step(r)
  PROVE  ~(req' = req /\ loop' = loop)
<1> SUFFICES ASSUME req' = req, loop' = loop PROVE FALSE
  OBVIOUS
<1>1. Nearer(r)
  BY StepGoesNearer
<1>2. /\ AttemptsLeft(r) \in Int /\ Phase(r) \in Int /\ TurnsLeft(r) \in Int
      /\ Asking(r) \in Int /\ CallsLeft(r) \in Int
  BY LeftNatural
<1>3. /\ AttemptsLeft(r)' = AttemptsLeft(r) /\ Phase(r)' = Phase(r)
      /\ TurnsLeft(r)' = TurnsLeft(r) /\ Asking(r)' = Asking(r)
      /\ CallsLeft(r)' = CallsLeft(r)
  BY DEF AttemptsLeft, Phase, TurnsLeft, Asking, CallsLeft, InTurn
<1> QED
  BY <1>1, <1>2, <1>3 DEF Nearer

\* As long as a request is under way, something happens: the requests and the loops of
\* the router do not stay as they are.  As everything that happens takes a request
\* nearer to its end (RequestsRunDown), all that have begun get there, if what is
\* awaited settles (tool_router.ts:84, agent_runtime.ts:371).
THEOREM RequestsMoveOn ==
  ASSUME NEW q, NEW l, NEW p \in Request, q[p].at \notin Over \cup {"idle"}
  PROVE  Spec /\ (\A r \in Request : StepTaken(r)) =>
           (req = q /\ loop = l ~> ~(req = q /\ loop = l))
<1> DEFINE Here == req = q /\ loop = l
<1>1. ASSUME NEW r \in Request, q[r].at \notin Over \cup {"idle"},
             \A o \in Request \ {r} : q[o].at \notin WithThread
      PROVE  Spec /\ StepTaken(r) => (Here ~> ~Here)
  <2>1. IInv /\ OneThread /\ Here => CanGoOn(r)
    BY <1>1, ThreadGoesOn DEF Has, Active, WithThread
  <2>2. IInv /\ Here /\ <<Step(r)>>_vars => ~Here'
    BY StepChanges
  <2>3. Spec => []OneThread
    BY InitOneThread, NextOneThread, SpecIInv, PTL DEF Spec
  <2> HIDE DEF Here
  <2> QED
    BY <2>1, <2>2, <2>3, SpecIInv, PTL DEF StepTaken, Spec
<1>2. CASE \A o \in Request \ {p} : q[o].at \notin WithThread
  <2>1. Spec /\ StepTaken(p) => (Here ~> ~Here)
    BY <1>1, <1>2
  <2> QED
    BY <2>1
<1>3. CASE \E o \in Request : q[o].at \in WithThread
  <2>1. PICK r \in Request : q[r].at \in WithThread
    BY <1>3
  <2>2. q[r].at \notin Over \cup {"idle"}
    BY <2>1 DEF WithThread, Over
  <2>3. CASE \A o \in Request \ {r} : q[o].at \notin WithThread
    <3>1. Spec /\ StepTaken(r) => (Here ~> ~Here)
      BY <1>1, <2>2, <2>3
    <3> QED
      BY <3>1
  <2>4. CASE \E o \in Request \ {r} : q[o].at \in WithThread
    <3>1. OneThread => ~Here
      BY <2>1, <2>4 DEF OneThread
    <3>2. Spec => []OneThread
      BY InitOneThread, NextOneThread, SpecIInv, PTL DEF Spec
    <3> HIDE DEF Here
    <3>3. Spec => (Here ~> ~Here)
      BY <3>1, <3>2, PTL
    <3> QED
      BY <3>3 DEF Here
  <2> QED
    BY <2>3, <2>4
<1> QED
  BY <1>2, <1>3

=============================================================================
