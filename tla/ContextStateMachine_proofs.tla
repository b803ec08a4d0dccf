---------------------- MODULE ContextStateMachine_proofs ----------------------
(***************************************************************************)
(* The tables of Context OS agree with each other and with the machine, and *)
(* stay within their bound, for any sessions, limit and callers.           *)
(***************************************************************************)
EXTENDS ContextStateMachine, FiniteSetTheorems, WellFoundedInduction, TLAPS

\* The machine's row is re-created or missing, or where the machine is.
RowBehind ==
  "legacy" \notin client => row[Mine] \in {None, "Task", machine.current}

\* O is a strict total order of E.
Ordered(O, E) ==
  /\ O \subseteq E \X E
  /\ \A x \in E : <<x, x>> \notin O
  /\ \A x, y \in E : x # y => <<x, y>> \in O \/ <<y, x>> \in O
  /\ \A x, y, z \in E : <<x, y>> \in O /\ <<y, z>> \in O => <<x, z>> \in O

\* No two sessions are of the same age.
AgeOrdered == Ordered(older, Existing)

IInv ==
  /\ TypeOK
  /\ RowMatchesHistory
  /\ MemoryMatchesRow
  /\ RowBehind
  /\ AgeOrdered
  /\ SessionsBounded

-----------------------------------------------------------------------------
(* Pruning                                                                  *)

\* A part of the order, and a new element after all the others.
LEMMA NewestIsLast ==
  ASSUME NEW O, NEW E, Ordered(O, E), NEW K \in SUBSET E, NEW s, s \notin K
  PROVE  Ordered({e \in O : e[1] \in K /\ e[2] \in K} \cup {<<u, s>> : u \in K},
                 K \cup {s})
<1> DEFINE N == {e \in O : e[1] \in K /\ e[2] \in K} \cup {<<u, s>> : u \in K}
<1>1. N \subseteq (K \cup {s}) \X (K \cup {s})
  BY DEF Ordered
<1>2. \A x, y \in K : <<x, y>> \in N <=> <<x, y>> \in O
  OBVIOUS
<1>3. \A x \in K : <<x, s>> \in N
  OBVIOUS
<1>4. \A y \in K \cup {s} : <<s, y>> \notin N
  OBVIOUS
<1> HIDE DEF N
<1>5. \A x, y \in K : /\ <<x, x>> \notin O
                      /\ x # y => <<x, y>> \in O \/ <<y, x>> \in O
  BY DEF Ordered
<1>6. \A x, y, z \in K : <<x, y>> \in O /\ <<y, z>> \in O => <<x, z>> \in O
  BY DEF Ordered
<1>7. \A x \in K \cup {s} : <<x, x>> \notin N
  BY <1>2, <1>4, <1>5
<1>8. \A x, y \in K \cup {s} : x # y => <<x, y>> \in N \/ <<y, x>> \in N
  BY <1>2, <1>3, <1>5
<1>9. \A x, y, z \in K \cup {s} : <<x, y>> \in N /\ <<y, z>> \in N => <<x, z>> \in N
  BY <1>2, <1>3, <1>4, <1>6
<1>10. Ordered(N, K \cup {s})
  BY <1>1, <1>7, <1>8, <1>9 DEF Ordered
<1> QED
  BY <1>10 DEF N

\* The set that is kept has an oldest session.
LEMMA OldestExists ==
  ASSUME AgeOrdered, NEW K \in SUBSET Existing, K # {}
  PROVE  \E m \in K : \A u \in K : <<u, m>> \notin older
<1> DEFINE Before(x) == {u \in K : <<u, x>> \in older}
           All == {Before(x) : x \in K}
<1>1. IsFiniteSet(K)
  BY SessionAssumption, FS_Subset DEF Existing
<1>2. IsWellFoundedOn(StrictSubsetOrdering(K), SUBSET K)
  BY <1>1, FS_StrictSubsetOrderingWellFounded, FS_FiniteSubsetsOfFinite
<1>3. All \subseteq SUBSET K /\ All # {}
  OBVIOUS
<1>4. PICK B \in All : \A C \in All : <<C, B>> \notin StrictSubsetOrdering(K)
  <2> HIDE DEF All
  <2> QED
    BY <1>2, <1>3, WFMin
<1>5. PICK m \in K : B = Before(m)
  OBVIOUS
<1>6. ASSUME NEW y \in K, <<y, m>> \in older PROVE FALSE
  <2>1. K \subseteq Session
    BY DEF Existing
  <2>2. Before(y) \subseteq Before(m)
    BY <1>6, <2>1 DEF AgeOrdered, Ordered
  <2>3. y \in Before(m) /\ y \notin Before(y)
    BY <1>6, <2>1 DEF AgeOrdered, Ordered
  <2>4. <<Before(y), Before(m)>> \in StrictSubsetOrdering(K)
    <3>1. Before(y) \in SUBSET K /\ Before(m) \in SUBSET K /\ Before(y) # Before(m)
      BY <2>3
    <3> HIDE DEF Before
    <3> QED
      BY <3>1, <2>2 DEF StrictSubsetOrdering
  <2> QED
    BY <1>4, <1>5, <2>4
<1> QED
  BY <1>6

\* Pruning leaves as many sessions as may be kept.
LEMMA PruningBounds ==
  ASSUME AgeOrdered
  PROVE  /\ IsFiniteSet(Existing \ Pruned)
         /\ Cardinality(Existing \ Pruned) <= MaxSessions
<1> DEFINE K == Existing \ Pruned
           After(s) == {u \in Existing : <<s, u>> \in older}
<1>1. IsFiniteSet(Existing)
  BY SessionAssumption, FS_Subset DEF Existing
<1>2. IsFiniteSet(K)
  BY <1>1, FS_Subset
<1>3. CASE K = {}
  BY <1>3, FS_EmptySet, MaxAssumption
<1>4. CASE K # {}
  <2>1. PICK m \in K : \A u \in K : <<u, m>> \notin older
    BY <1>4, OldestExists
  <2>2. K \ {m} \subseteq After(m)
    BY <2>1 DEF AgeOrdered, Ordered
  <2>3. IsFiniteSet(After(m)) /\ Cardinality(After(m)) \in Nat
    BY <1>1, FS_Subset, FS_CardinalityType
  <2>4. Cardinality(After(m)) < MaxSessions
    BY <2>1, <2>3, MaxAssumption DEF Pruned, Existing
  <2>5. Cardinality(K \ {m}) <= Cardinality(After(m))
    BY <2>2, <2>3, FS_Subset
  <2>6. Cardinality(K \ {m}) = Cardinality(K) - 1
    BY <1>2, FS_RemoveElement
  <2>7. Cardinality(K) \in Nat
    BY <1>2, FS_CardinalityType
  <2> QED
    BY <1>2, <2>3, <2>4, <2>5, <2>6, <2>7, MaxAssumption
<1> QED
  BY <1>2, <1>3, <1>4

-----------------------------------------------------------------------------
(* What each operator on the rows preserves                                 *)

RowsOK ==
  /\ row \in [Session -> State \cup {None}]
  /\ last \in [Session -> State \cup {None}]
  /\ older \subseteq Session \X Session
  /\ RowMatchesHistory
  /\ AgeOrdered
  /\ SessionsBounded

LEMMA ReplaceOK ==
  ASSUME RowsOK, NEW s \in Session, NEW entry \in {None, "Task"}, Replace(s, entry)
  PROVE  RowsOK' /\ row'[s] = "Task"
<1> DEFINE kept == Existing \ (Pruned \cup {s})
<1>0. kept \subseteq Session /\ "Task" \in State /\ "Task" # None
  BY NoneAssumption DEF Existing, State
<1>1. /\ row' = [u \in Session |-> IF u = s THEN "Task"
                                   ELSE IF u \in kept THEN row[u] ELSE None]
      /\ last' = [u \in Session |-> IF u = s THEN entry
                                    ELSE IF u \in kept THEN last[u] ELSE None]
      /\ older' = {e \in older : e[1] \in kept /\ e[2] \in kept}
                  \cup {<<u, s>> : u \in kept}
  BY DEF Replace
<1>2. /\ row' \in [Session -> State \cup {None}]
      /\ last' \in [Session -> State \cup {None}]
      /\ row'[s] = "Task"
  BY <1>0, <1>1 DEF RowsOK
<1>3. Existing' = kept \cup {s}
  BY <1>0, <1>1 DEF Existing
<1>4. RowMatchesHistory'
  BY <1>0, <1>1, <1>3 DEF RowsOK, RowMatchesHistory, Existing
<1>5. older' \subseteq Session \X Session
  BY <1>0, <1>1 DEF RowsOK
<1>6. AgeOrdered'
  <2>1. Ordered({e \in older : e[1] \in kept /\ e[2] \in kept} \cup {<<u, s>> : u \in kept},
                kept \cup {s})
    <3>1. kept \in SUBSET Existing /\ s \notin kept /\ Ordered(older, Existing)
      BY DEF RowsOK, AgeOrdered
    <3> HIDE DEF kept
    <3> QED
      BY <3>1, NewestIsLast
  <2> QED
    BY <1>1, <1>3, <2>1 DEF AgeOrdered
<1>7. SessionsBounded'
  <2>1. /\ IsFiniteSet(Existing \ Pruned)
        /\ Cardinality(Existing \ Pruned) <= MaxSessions
    BY PruningBounds DEF RowsOK
  <2>2. kept \subseteq Existing \ Pruned
    OBVIOUS
  <2>3. /\ IsFiniteSet(kept)
        /\ Cardinality(kept) <= Cardinality(Existing \ Pruned)
    BY <2>1, <2>2, FS_Subset
  <2>4. Cardinality(Existing \ Pruned) \in Nat /\ Cardinality(kept) \in Nat
    BY <2>1, <2>3, FS_CardinalityType
  <2>5. Cardinality(kept \cup {s}) <= Cardinality(kept) + 1
    BY <2>3, <2>4, FS_AddElement
  <2>6. Cardinality(kept \cup {s}) \in Nat
    BY <2>3, FS_AddElement, FS_CardinalityType
  <2> QED
    BY <1>3, <2>1, <2>3, <2>4, <2>5, <2>6, MaxAssumption DEF SessionsBounded
<1> QED
  BY <1>2, <1>4, <1>5, <1>6, <1>7 DEF RowsOK

LEMMA RecordOK ==
  ASSUME RowsOK, Mine \in Session, NEW state \in State, Record(state)
  PROVE  /\ RowsOK'
         /\ row' = IF row[Mine] = None THEN row ELSE [row EXCEPT ![Mine] = state]
         /\ client' = client
<1>1. state # None
  BY NoneAssumption
<1>2. /\ row' \in [Session -> State \cup {None}]
      /\ last' \in [Session -> State \cup {None}]
      /\ older' = older
      /\ Existing' = Existing
      /\ row' = IF row[Mine] = None THEN row ELSE [row EXCEPT ![Mine] = state]
  BY <1>1 DEF Record, RowsOK, Existing
<1>3. RowMatchesHistory'
  BY <1>1, <1>2 DEF Record, RowsOK, Existing, RowMatchesHistory
<1> QED
  BY <1>2, <1>3 DEF Record, RowsOK, AgeOrdered, SessionsBounded

LEMMA DeleteOK ==
  ASSUME RowsOK, NEW s \in Session, DeleteSession(s)
  PROVE  RowsOK' /\ row' = [row EXCEPT ![s] = None]
<1>1. /\ row' = [row EXCEPT ![s] = None]
      /\ last' = [last EXCEPT ![s] = None]
      /\ older' = {e \in older : s \notin {e[1], e[2]}}
  BY DEF DeleteSession
<1>2. /\ row' \in [Session -> State \cup {None}]
      /\ last' \in [Session -> State \cup {None}]
      /\ older' \subseteq Session \X Session
      /\ Existing' = Existing \ {s}
  BY <1>1 DEF RowsOK, Existing
<1>3. RowMatchesHistory'
  BY <1>1, <1>2 DEF RowsOK, Existing, RowMatchesHistory
<1>4. AgeOrdered'
  BY <1>1, <1>2 DEF RowsOK, AgeOrdered, Ordered
<1>5. SessionsBounded'
  <2>1. IsFiniteSet(Existing)
    BY SessionAssumption, FS_Subset DEF Existing
  <2>2. /\ Cardinality(Existing \ {s}) <= Cardinality(Existing)
        /\ Cardinality(Existing) \in Nat /\ Cardinality(Existing \ {s}) \in Nat
    BY <2>1, FS_Subset, FS_RemoveElement, FS_CardinalityType
  <2> QED
    BY <1>2, <2>2, MaxAssumption DEF RowsOK, SessionsBounded
<1> QED
  BY <1>1, <1>2, <1>3, <1>4, <1>5 DEF RowsOK

-----------------------------------------------------------------------------
(* The invariant                                                            *)

LEMMA InitIInv == Init => IInv
<1> SUFFICES ASSUME Init PROVE IInv
  OBVIOUS
<1>0. "Task" \in State /\ "SessionStarted" \in State /\ "Task" # None
  BY NoneAssumption DEF State
<1>1. TypeOK
  BY <1>0, SessionAssumption DEF Init, TypeOK, Machine, Started
<1>2. Existing = {Default}
  BY <1>0, SessionAssumption DEF Init, Existing
<1>3. RowMatchesHistory /\ MemoryMatchesRow /\ RowBehind /\ AgeOrdered
  BY <1>0, <1>2, SessionAssumption
     DEF Init, RowMatchesHistory, MemoryMatchesRow, RowBehind, AgeOrdered, Ordered, Started, Mine
<1>4. SessionsBounded
  <2>1. Cardinality({Default}) = 1
    BY FS_Singleton
  <2> QED
    BY <1>2, <2>1, MaxAssumption DEF SessionsBounded
<1> QED
  BY <1>1, <1>3, <1>4 DEF IInv

\* A move of memory that is recorded: memory and row are then together again.
LEMMA MoveOK ==
  ASSUME IInv, NEW to \in State,
         machine' \in Machine, machine'.session = Mine, machine'.current = to,
         Record(to)
  PROVE  IInv'
<1>1. RowsOK /\ Mine \in Session
  BY DEF IInv, RowsOK, TypeOK, Machine, Mine
<1>2. /\ RowsOK'
      /\ row' = IF row[Mine] = None THEN row ELSE [row EXCEPT ![Mine] = to]
      /\ client' = client
  BY <1>1, RecordOK
<1>3. TypeOK'
  BY <1>2 DEF RowsOK, IInv, TypeOK
<1>4. Mine' = Mine
  BY DEF Mine
<1>5. row'[Mine] \in {None, to}
  BY <1>1, <1>2 DEF RowsOK
<1>6. RowBehind'
  BY <1>2, <1>4, <1>5 DEF RowBehind
<1>7. MemoryMatchesRow'
  <2>1. row[Mine] = machine.current => row[Mine] # None
    BY NoneAssumption DEF IInv, TypeOK, Machine
  <2> QED
    BY <1>1, <1>2, <1>4, <1>5, <2>1 DEF IInv, MemoryMatchesRow, RowsOK
<1> QED
  BY <1>2, <1>3, <1>6, <1>7 DEF RowsOK, IInv

\* Rows and session of the machine are left alone, and so is its state unless
\* the client forces transitions.
LEMMA MemoryOnly ==
  ASSUME IInv, machine' \in Machine, machine'.session = Mine,
         machine'.current = machine.current \/ "legacy" \in client,
         UNCHANGED <<row, last, older, client>>
  PROVE  IInv'
  BY DEF IInv, TypeOK, RowMatchesHistory, MemoryMatchesRow, RowBehind, AgeOrdered,
         SessionsBounded, Existing, Mine

LEMMA TransitionOK ==
  ASSUME IInv, NEW next \in State, Transition(next)
  PROVE  IInv'
<1>1. /\ machine' \in Machine /\ machine'.session = Mine /\ machine'.current = next
      /\ Record(next)
  BY DEF Transition, Move, IInv, TypeOK, Machine, Mine
<1> QED
  BY <1>1, MoveOK

LEMMA NextIInv == IInv /\ [Next]_vars => IInv'
<1> SUFFICES ASSUME IInv, [Next]_vars PROVE IInv'
  OBVIOUS
<1> USE DEF Mine
<1>0. /\ machine \in Machine /\ Mine \in Session /\ RowsOK
      /\ "Task" \in State /\ "SessionStarted" \in State /\ "Recovered" \in State
      /\ Legacy \subseteq State
  BY DEF IInv, TypeOK, Machine, RowsOK, State, Legacy
<1>1. ASSUME NEW s \in Session, StartExecution(s) PROVE IInv'
  <2>1. RowsOK' /\ row'[s] = "Task"
    BY <1>0, <1>1, ReplaceOK DEF StartExecution
  <2>2. machine' = Started(s) /\ client' = client
    BY <1>1 DEF StartExecution
  <2>3. TypeOK'
    BY <1>0, <2>1, <2>2 DEF IInv, TypeOK, RowsOK, Started, Machine
  <2>4. MemoryMatchesRow' /\ RowBehind'
    BY <2>1, <2>2 DEF MemoryMatchesRow, RowBehind, Started
  <2> QED
    BY <2>1, <2>3, <2>4 DEF IInv, RowsOK
<1>2. ASSUME NEW s \in Session, CreateSession(s) PROVE IInv'
  <2>1. RowsOK' /\ row'[s] = "Task"
    BY <1>0, <1>2, ReplaceOK DEF CreateSession
  <2>2. UNCHANGED <<machine, client>> /\ "sessions" \in client
    BY <1>2 DEF CreateSession
  <2>3. TypeOK' /\ MemoryMatchesRow'
    BY <2>1, <2>2 DEF IInv, TypeOK, RowsOK, MemoryMatchesRow
  <2>4. row'[Mine] \in {row[Mine], None, "Task"}
    BY <1>0, <1>2 DEF CreateSession, Replace
  <2>5. RowBehind'
    BY <2>2, <2>4 DEF IInv, RowBehind
  <2> QED
    BY <2>1, <2>3, <2>5 DEF IInv, RowsOK
<1>3. ASSUME NEW s \in Session, DeleteSession(s) PROVE IInv'
  <2>1. RowsOK' /\ row' = [row EXCEPT ![s] = None]
    BY <1>0, <1>3, DeleteOK
  <2>2. UNCHANGED <<machine, client>> /\ "sessions" \in client
    BY <1>3 DEF DeleteSession
  <2>3. TypeOK' /\ MemoryMatchesRow'
    BY <2>1, <2>2 DEF IInv, TypeOK, RowsOK, MemoryMatchesRow
  <2>4. RowBehind'
    BY <1>0, <2>1, <2>2 DEF IInv, RowBehind, RowsOK
  <2> QED
    BY <2>1, <2>3, <2>4 DEF IInv, RowsOK
<1>4. ASSUME NEW state \in State, Recover(state) PROVE IInv'
  <2>1. PICK to \in State : /\ machine' \in Machine /\ machine'.session = Mine
                            /\ machine'.current = to /\ Record(to)
    <3>1. CASE Mine \in Existing /\ ~machine.paused /\ state \in Table["Recovered"]
      <4>1. Move("Recovered", state)
        BY <1>4, <3>1 DEF Recover
      <4> QED
        BY <1>0, <4>1 DEF Move, Machine
    <3>2. CASE ~(Mine \in Existing /\ ~machine.paused /\ state \in Table["Recovered"])
      <4>1. machine' = [machine EXCEPT !.current = "Recovered"] /\ Record("Recovered")
        BY <1>4, <3>2 DEF Recover
      <4> QED
        BY <1>0, <4>1 DEF Machine
    <3> QED
      BY <3>1, <3>2
  <2> QED
    BY <2>1, MoveOK
<1>5. ASSUME NEW next \in Legacy, LegacyTransition(next) PROVE IInv'
  <2>1. CASE Transition(next)
    BY <1>0, <2>1, TransitionOK
  <2>2. CASE ~Transition(next)
    <3>1. /\ machine' = [machine EXCEPT !.current = next] /\ "legacy" \in client
          /\ UNCHANGED <<row, last, older, client>>
      BY <1>5, <2>2 DEF LegacyTransition
    <3>2. machine' \in Machine /\ machine'.session = Mine
      BY <1>0, <3>1 DEF Machine
    <3> QED
      BY <3>1, <3>2, MemoryOnly
  <2> QED
    BY <2>1, <2>2
<1>6. CASE Rollback
  <2>1. /\ machine' \in Machine /\ machine'.session = Mine
        /\ machine'.current = machine.previous /\ Record(machine.previous)
        /\ machine.previous \in State
    BY <1>0, <1>6 DEF Rollback, Machine
  <2> QED
    BY <2>1, MoveOK
<1>7. CASE Complete
  <2>1. DOMAIN Toward \subseteq State /\ "Summary" \in State /\ "Completed" \in State
    BY DEF Toward, State
  <2>2. \A c \in DOMAIN Toward : Toward[c] \in State
    BY DEF Toward, State
  <2>3. PICK to \in State : /\ machine' \in Machine /\ machine'.session = Mine
                            /\ machine'.current = to /\ Record(to)
    <3>1. CASE Mine \in Existing
      BY <1>0, <1>7, <2>1, <3>1 DEF Complete, Move, Machine
    <3>2. CASE Mine \notin Existing
      <4>1. Move(machine.current, Toward[machine.current]) /\ machine.current \in DOMAIN Toward
        BY <1>7, <3>2 DEF Complete
      <4>2. Toward[machine.current] \in State /\ machine.current \in State
        BY <2>1, <2>2, <4>1
      <4> QED
        BY <1>0, <4>1, <4>2 DEF Move, Machine
    <3> QED
      BY <3>1, <3>2
  <2> QED
    BY <2>3, MoveOK
<1>8. CASE Pause \/ Resume
  <2>1. /\ machine' \in Machine /\ machine'.session = Mine
        /\ machine'.current = machine.current
        /\ UNCHANGED <<row, last, older, client>>
    BY <1>0, <1>8 DEF Pause, Resume, Machine
  <2> QED
    BY <2>1, MemoryOnly
<1>9. CASE UNCHANGED vars
  BY <1>9, MemoryOnly, <1>0 DEF vars
<1> QED
  BY <1>1, <1>2, <1>3, <1>4, <1>5, <1>6, <1>7, <1>8, <1>9, TransitionOK, SessionAssumption
     DEF Next, Restart, UpdateMetadata

THEOREM SpecIInv == Spec => []IInv
  BY InitIInv, NextIInv, PTL DEF Spec

\* Every reachable state of Context OS is well typed: whoever writes, and even
\* after the machine has been started again, a rollback has a state to go to.
THEOREM ContextTypeCorrect == Spec => []TypeOK
  BY SpecIInv, PTL DEF IInv

\* The sessions table and the history tell the same story (session_memory.ts:56).
THEOREM HistoryAgrees == Spec => []RowMatchesHistory
  BY SpecIInv, PTL DEF IInv

\* A client that neither forces transitions nor writes rows of sessions finds
\* memory and row together after each call, also after one that throws half-way.
THEOREM MemoryAgrees == Spec => []MemoryMatchesRow
  BY SpecIInv, PTL DEF IInv

\* There is never more than one session above the limit (session_memory.ts:43).
THEOREM PruningKeepsUp == Spec => []SessionsBounded
  BY SpecIInv, PTL DEF IInv

-----------------------------------------------------------------------------
(* The rows implement SessionLifecycle                                      *)

Phases == [s \in Session |-> IF Orderly THEN PhaseOf(row[s])
                             ELSE IF s = Default THEN "active" ELSE "absent"]

\* A state may follow whatever is not ended, and only that.
LEMMA TableFacts ==
  /\ PhaseOf(None) = "absent"
  /\ \A s \in State : PhaseOf(s) \in {"active", "failed", "ended"}
  /\ \A s \in State : PhaseOf(s) = "ended" => Table[s] = {}
  /\ PhaseOf("Task") = "active" /\ PhaseOf("Failed") = "failed"
  /\ \A s \in DOMAIN Toward : PhaseOf(s) = "active"
<1>1. \A s \in State : s # None
  BY NoneAssumption
<1>2. \A s \in DOMAIN Toward : s \in State
  BY DEF Toward, State
<1>3. "Task" \in State /\ "Failed" \in State
  BY DEF State
<1>4. \A s \in DOMAIN Toward : PhaseOf(s) = "active"
  BY <1>1, <1>2 DEF Toward, PhaseOf
<1>5. \A s \in State : PhaseOf(s) = "ended" => s \in {"Completed", "Cancelled"}
  BY <1>1 DEF PhaseOf
<1>6. \A s \in State : s \in {"Completed", "Cancelled"} => Table[s] = {}
  BY DEF Table
<1>7. PhaseOf(None) = "absent"
  BY NoneAssumption DEF PhaseOf, State
<1>8. \A s \in State : PhaseOf(s) \in {"active", "failed", "ended"}
  BY <1>1 DEF PhaseOf
<1>9. PhaseOf("Task") = "active" /\ PhaseOf("Failed") = "failed"
  BY <1>1, <1>3 DEF PhaseOf
<1> QED
  BY <1>4, <1>5, <1>6, <1>7, <1>8, <1>9

\* The row of a session that has not ended may go anywhere.
LEMMA LifecycleStep ==
  ASSUME IInv, Orderly, UNCHANGED client, NEW to \in State, Record(to),
         row[Mine] = None \/ PhaseOf(row[Mine]) \in {"active", "failed"}
  PROVE  [Lifecycle!Next]_Phases
<1>0. RowsOK /\ Mine \in Session
  BY DEF IInv, RowsOK, TypeOK, Machine, Mine
<1>1. row' = IF row[Mine] = None THEN row ELSE [row EXCEPT ![Mine] = to]
  BY <1>0, RecordOK
<1>2. CASE row[Mine] = None
  BY <1>1, <1>2 DEF Phases, Orderly
<1>3. CASE row[Mine] # None
  <2> DEFINE p == PhaseOf(row[Mine])
             q == PhaseOf(to)
  <2>1. p \in {"active", "failed"} /\ q \in {"active", "failed", "ended"}
    BY <1>3, TableFacts
  <2>2. Phases' = [Phases EXCEPT ![Mine] = q]
    BY <1>0, <1>1, <1>3 DEF Phases, Orderly, RowsOK
  <2>3. Phases[Mine] = p
    BY <1>0 DEF Phases
  <2> HIDE DEF p, q
  <2>4. CASE p = q
    BY <1>0, <2>2, <2>3, <2>4 DEF Phases
  <2>5. CASE p = "active" /\ q = "failed"
    BY <1>0, <2>2, <2>3, <2>5 DEF Lifecycle!Next, Lifecycle!Fail, Phases
  <2>6. CASE p = "failed" /\ q = "active"
    BY <1>0, <2>2, <2>3, <2>6 DEF Lifecycle!Next, Lifecycle!Recover, Phases
  <2>7. CASE q = "ended"
    BY <1>0, <2>1, <2>2, <2>3, <2>7 DEF Lifecycle!Next, Lifecycle!End, Phases
  <2> QED
    BY <2>1, <2>4, <2>5, <2>6, <2>7
<1> QED
  BY <1>2, <1>3

\* Creating or re-creating a session starts it.
LEMMA LifecycleStart ==
  ASSUME IInv, Orderly, UNCHANGED client, NEW s \in Session, NEW entry, Replace(s, entry)
  PROVE  Lifecycle!Next
<1> DEFINE kept == Existing \ (Pruned \cup {s})
<1>1. row' = [u \in Session |-> IF u = s THEN "Task"
                                ELSE IF u \in kept THEN row[u] ELSE None]
  BY DEF Replace
<1>2. Phases' = [u \in Session |->
                   IF u = s THEN "active"
                   ELSE IF u \in Session \ kept THEN "absent" ELSE Phases[u]]
  <2> HIDE DEF kept
  <2> QED
    BY <1>1, TableFacts DEF Phases, Orderly
<1>3. Session \ kept \in SUBSET Session
  OBVIOUS
<1> HIDE DEF kept
<1> QED
  BY <1>2, <1>3 DEF Lifecycle!Next, Lifecycle!Start, Phases

LEMMA LifecycleNext == IInv /\ [Next]_vars => [Lifecycle!Next]_Phases
<1> SUFFICES ASSUME IInv, [Next]_vars PROVE [Lifecycle!Next]_Phases
  OBVIOUS
<1>0. UNCHANGED client
  BY DEF Next, vars, StartExecution, CreateSession, UpdateMetadata, DeleteSession,
         Transition, Recover, LegacyTransition, Rollback, Complete, Pause, Resume,
         Restart, Move, Record
<1>1. CASE ~Orderly
  BY <1>0, <1>1 DEF Phases, Orderly
<1>2. CASE Orderly
  <2> USE <1>0, <1>2
  <2>0. /\ "legacy" \notin client /\ "rollback" \notin client
        /\ row[Mine] \in {None, "Task", machine.current}
        /\ machine.current \in State
    BY DEF Orderly, IInv, RowBehind, TypeOK, Machine
  <2>1. ASSUME NEW s \in Session, StartExecution(s) \/ CreateSession(s)
        PROVE  [Lifecycle!Next]_Phases
    <3>1. \E entry : Replace(s, entry)
      BY <2>1 DEF StartExecution, CreateSession
    <3> QED
      BY <3>1, LifecycleStart
  <2>2. ASSUME NEW s \in Session, DeleteSession(s) PROVE [Lifecycle!Next]_Phases
    <3>1. Phases' = [Phases EXCEPT ![s] = "absent"]
      BY <2>2, TableFacts DEF DeleteSession, Phases, Orderly, IInv, TypeOK
    <3> QED
      BY <3>1 DEF Lifecycle!Next, Lifecycle!Remove, Phases
  <2>3. ASSUME NEW next \in State, Transition(next) PROVE [Lifecycle!Next]_Phases
    <3>1. Record(next) /\ next \in Table[machine.current]
      BY <2>3 DEF Transition, Move
    <3>2. row[Mine] = None \/ PhaseOf(row[Mine]) \in {"active", "failed"}
      BY <2>0, <3>1, TableFacts
    <3> QED
      BY <3>1, <3>2, LifecycleStep
  <2>4. ASSUME NEW target \in State, Recover(target) PROVE [Lifecycle!Next]_Phases
    <3>1. machine.current = "Failed" /\ \E to \in State : Record(to)
      BY <2>4 DEF Recover, Move, State
    <3>2. row[Mine] = None \/ PhaseOf(row[Mine]) \in {"active", "failed"}
      BY <2>0, <3>1, TableFacts
    <3> QED
      BY <3>1, <3>2, LifecycleStep
  <2>5. CASE Complete
    <3>1. machine.current \in DOMAIN Toward
      BY <2>5 DEF Complete
    <3>2. row[Mine] = None \/ PhaseOf(row[Mine]) \in {"active", "failed"}
      BY <2>0, <3>1, TableFacts
    <3>3. \E to \in State : Record(to)
      <4>1. \A c \in DOMAIN Toward : Toward[c] \in State
        BY DEF Toward, State
      <4>2. "Completed" \in State
        BY DEF State
      <4> QED
        BY <2>5, <3>1, <4>1, <4>2 DEF Complete, Move
    <3> QED
      BY <3>2, <3>3, LifecycleStep
  <2>6. CASE Pause \/ Resume \/ UNCHANGED vars
    BY <2>6 DEF Pause, Resume, vars, Phases, Orderly
  <2> QED
    BY <2>0, <2>1, <2>2, <2>3, <2>4, <2>5, <2>6, SessionAssumption
       DEF Next, Restart, UpdateMetadata, LegacyTransition, Rollback
<1> QED
  BY <1>1, <1>2

LEMMA LifecycleInit == Init => Lifecycle!Init
<1> SUFFICES ASSUME Init PROVE Lifecycle!Init
  OBVIOUS
<1>1. Phases = [u \in Session |-> IF u = Default THEN "active" ELSE "absent"]
  BY TableFacts DEF Init, Phases
<1> QED
  BY <1>1, SessionAssumption DEF Lifecycle!Init, Phases

\* For any sessions, limit and callers that neither force transitions nor roll back,
\* the rows implement SessionLifecycle: what has ended stays ended until it is
\* started again (state_machine.ts:71).
THEOREM ImplementsSessionLifecycle == Spec => ImplementsLifecycle
<1>1. IInv /\ [Next]_vars => [Lifecycle!Next]_Phases
  BY LifecycleNext
<1> QED
  BY <1>1, LifecycleInit, SpecIInv, PTL DEF Spec, ImplementsLifecycle, Lifecycle!Spec, Phases

=============================================================================
