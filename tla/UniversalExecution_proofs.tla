----------------------- MODULE UniversalExecution_proofs -----------------------
(***************************************************************************)
(* The reservations and the sandboxes of the Universal Execution Layer are *)
(* kept right for any number of calls, sessions, resources and any pool.   *)
(***************************************************************************)
EXTENDS UniversalExecution, FiniteSetTheorems, FunctionTheorems,
        WellFoundedInduction, TLAPS

\* Each sandbox is that of its owner's session.
SandboxesOwned ==
  \A s \in Session : owner[s] # NoExecution => SessionOf[owner[s]] = s

\* A call that has not begun has never reserved anything.
IdleUnreserved == \A e \in Execution : stage[e] = "idle" => reservation[e] = "none"

\* Without "snapshot" there is nothing to restore.
LeaseInv == NoRestore => snapshot = {} /\ IdleUnreserved /\ LeasesAgree

Total(S, r) == MapThenSumSet(LAMBDA e : Demand[e][r], S)

\* The reservations res fit the pool p, which is the initial one.
Bounded(p, res) ==
  /\ p = InitialPool
  /\ Cardinality(HeldIn(res)) <= InitialPool.slots
  /\ \A r \in Resource : Total(HeldIn(res), r) <= InitialPool.amount[r]

\* What a restore brings back fitted the same pool.
PoolInv ==
  FixedPool => /\ Bounded(pool, reservation)
               /\ \A s \in snapshot : Bounded(s.pool, s.reservation)

IInv ==
  /\ TypeOK
  /\ SandboxesOwned
  /\ SandboxesAreDestroyed
  /\ LeaseInv
  /\ PoolInv

-----------------------------------------------------------------------------
(* Sums of demands.  The fold of the library takes its elements in an order *)
(* that CHOOSE picks; the number of units demanded does not depend on any.  *)

Units(S, r) == {u \in S \X Nat : u[2] \in 1 .. Demand[u[1]][r]}

LEMMA UnitsOfOne ==
  ASSUME NEW e \in Execution, NEW r \in Resource
  PROVE  /\ IsFiniteSet(Units({e}, r))
         /\ Cardinality(Units({e}, r)) = Demand[e][r]
<1> DEFINE n == Demand[e][r]
<1>1. n \in Nat
  BY DemandAssumption
<1>2. Units({e}, r) = {e} \X (1 .. n)
  BY <1>1 DEF Units
<1> HIDE DEF n
<1>3. IsFiniteSet(1 .. n) /\ Cardinality(1 .. n) = n
  <2>1. /\ IsFiniteSet(1 .. n)
        /\ Cardinality(1 .. n) = IF 1 > n THEN 0 ELSE n - 1 + 1
    BY <1>1, FS_Interval
  <2> QED
    BY <1>1, <2>1
<1>4. IsFiniteSet({e}) /\ Cardinality({e}) = 1
  BY FS_Singleton
<1>5. /\ IsFiniteSet({e} \X (1 .. n))
      /\ Cardinality({e} \X (1 .. n)) = Cardinality({e}) * Cardinality(1 .. n)
  BY <1>3, <1>4, FS_Product
<1>6. Cardinality({e} \X (1 .. n)) = n
  BY <1>1, <1>3, <1>4, <1>5
<1> QED
  BY <1>2, <1>5, <1>6 DEF n

LEMMA UnitsFinite ==
  ASSUME NEW S \in SUBSET Execution, NEW r \in Resource
  PROVE  /\ IsFiniteSet(Units(S, r))
         /\ Cardinality(Units(S, r)) \in Nat
<1> DEFINE Parts == {Units({e}, r) : e \in S}
           part  == [e \in S |-> Units({e}, r)]
<1>1. IsFiniteSet(S)
  BY ExecutionAssumption, FS_Subset
<1>2. part \in Surjection(S, Parts)
  BY DEF Surjection
<1>3. IsFiniteSet(Parts)
  <2> HIDE DEF part, Parts
  <2> QED
    BY <1>1, <1>2, FS_Surjection
<1>4. \A U \in Parts : IsFiniteSet(U)
  BY UnitsOfOne
<1>5. Units(S, r) = UNION Parts
  BY DEF Units
<1> HIDE DEF Parts
<1>6. IsFiniteSet(Units(S, r))
  BY <1>3, <1>4, <1>5, FS_UNION
<1> QED
  BY <1>6, FS_CardinalityType

\* The units of disjoint sets of executions add up.
LEMMA UnitsAdd ==
  ASSUME NEW S \in SUBSET Execution, NEW e \in Execution \ S, NEW r \in Resource
  PROVE  Cardinality(Units(S \cup {e}, r)) = Cardinality(Units(S, r)) + Demand[e][r]
<1> DEFINE A == Units(S, r)
           B == Units({e}, r)
<1>1. Units(S \cup {e}, r) = A \cup B
  BY DEF Units
<1>2. A \cap B = {}
  BY DEF Units
<1>3. /\ IsFiniteSet(A) /\ Cardinality(A) \in Nat
      /\ IsFiniteSet(B) /\ Cardinality(B) = Demand[e][r] /\ Demand[e][r] \in Nat
  BY UnitsFinite, UnitsOfOne, DemandAssumption
<1> HIDE DEF A, B
<1>4. Cardinality(A \cap B) = 0
  BY <1>2, FS_EmptySet, Zenon
<1>5. /\ IsFiniteSet(A \cup B)
      /\ Cardinality(A \cup B) = Cardinality(A) + Cardinality(B) - Cardinality(A \cap B)
  BY <1>3, FS_Union
<1>6. Cardinality(A \cup B) = Cardinality(A) + Demand[e][r]
  BY <1>3, <1>4, <1>5
<1>7. Cardinality(Units(S \cup {e}, r)) = Cardinality(A \cup B)
  BY <1>1, Zenon
<1> QED
  BY <1>6, <1>7 DEF A

\* What the fold computes, by well-founded induction on the subsets of S.
LEMMA TotalIsUnits ==
  ASSUME NEW S \in SUBSET Execution, NEW r \in Resource
  PROVE  Total(S, r) = Cardinality(Units(S, r))
<1> DEFINE Pick(s) == CHOOSE x \in s : TRUE
           Fold(it) == [s \in SUBSET S |->
                          IF s = {} THEN 0
                          ELSE LET x == Pick(s) IN Demand[x][r] + it[s \ {x}]]
           count    == [s \in SUBSET S |-> Cardinality(Units(s, r))]
<1>1. ASSUME NEW s \in SUBSET S, s # {}
      PROVE  /\ Pick(s) \in s
             /\ s \ {Pick(s)} \in SUBSET S
             /\ count[s] = Demand[Pick(s)][r] + count[s \ {Pick(s)}]
  <2>1. Pick(s) \in s
    BY <1>1
  <2> HIDE DEF Pick
  <2>2. s \ {Pick(s)} \in SUBSET S /\ (s \ {Pick(s)}) \cup {Pick(s)} = s
    BY <2>1
  <2>3. Cardinality(Units(s, r))
          = Cardinality(Units(s \ {Pick(s)}, r)) + Demand[Pick(s)][r]
    BY <2>1, <2>2, UnitsAdd
  <2>4. Cardinality(Units(s \ {Pick(s)}, r)) \in Nat /\ Demand[Pick(s)][r] \in Nat
    BY <2>1, <2>2, UnitsFinite, DemandAssumption
  <2> QED
    BY <2>1, <2>2, <2>3, <2>4
<1>2. count[{}] = 0
  <2>1. Units({}, r) = {}
    BY DEF Units
  <2> QED
    BY <2>1, FS_EmptySet
<1> HIDE DEF Pick
<1>3. count = Fold(count)
  <2>1. \A s \in SUBSET S : count[s] = Fold(count)[s]
    BY <1>1, <1>2
  <2> QED
    BY <2>1
<1>4. PICK iter : iter = CHOOSE it : it = Fold(it)
  OBVIOUS
<1> HIDE DEF count
<1>5. iter = Fold(iter)
  BY <1>3, <1>4
<1>6. iter[S] = count[S]
  <2> DEFINE Wrong == {s \in SUBSET S : iter[s] # count[s]}
  <2>1. IsFiniteSet(S)
    BY ExecutionAssumption, FS_Subset
  <2>2. IsWellFoundedOn(StrictSubsetOrdering(S), SUBSET S)
    BY <2>1, FS_StrictSubsetOrderingWellFounded, FS_FiniteSubsetsOfFinite
  <2>3. SUFFICES ASSUME Wrong # {} PROVE FALSE
    OBVIOUS
  <2>4. PICK s \in Wrong : \A p \in Wrong : <<p, s>> \notin StrictSubsetOrdering(S)
    <3>1. Wrong \subseteq SUBSET S
      OBVIOUS
    <3> HIDE DEF Wrong
    <3> QED
      BY <2>2, <2>3, <3>1, WFMin
  <2>5. s # {}
    BY <1>2, <1>5, <2>4
  <2>6. /\ s \ {Pick(s)} \in SUBSET S
        /\ count[s] = Demand[Pick(s)][r] + count[s \ {Pick(s)}]
        /\ Pick(s) \in s
    BY <1>1, <2>4, <2>5
  <2>7. s \ {Pick(s)} \notin Wrong
    BY <2>4, <2>6 DEF StrictSubsetOrdering
  <2>8. iter[s] = Demand[Pick(s)][r] + iter[s \ {Pick(s)}]
    BY <1>5, <2>4, <2>5
  <2> QED
    BY <2>4, <2>6, <2>7, <2>8
<1>7. Total(S, r) = iter[S]
  BY <1>4 DEF Total, MapThenSumSet, MapThenFoldSet, Pick
<1> QED
  BY <1>6, <1>7 DEF count

\* The three facts about sums that the steps need.
LEMMA TotalFacts ==
  ASSUME NEW S \in SUBSET Execution, NEW r \in Resource
  PROVE  /\ Total(S, r) \in Nat
         /\ S = {} => Total(S, r) = 0
         /\ \A e \in Execution \ S : Total(S \cup {e}, r) = Total(S, r) + Demand[e][r]
         /\ \A T \in SUBSET S : Total(T, r) <= Total(S, r)
<1>1. Total(S, r) \in Nat
  BY TotalIsUnits, UnitsFinite
<1>2. ASSUME S = {} PROVE Total(S, r) = 0
  <2>1. Units({}, r) = {}
    BY DEF Units
  <2> QED
    BY <1>2, <2>1, TotalIsUnits, FS_EmptySet
<1>3. ASSUME NEW e \in Execution \ S
      PROVE  Total(S \cup {e}, r) = Total(S, r) + Demand[e][r]
  <2>1. Cardinality(Units(S \cup {e}, r)) = Cardinality(Units(S, r)) + Demand[e][r]
    BY UnitsAdd
  <2>2. S \cup {e} \in SUBSET Execution
    OBVIOUS
  <2>3. Total(S \cup {e}, r) = Cardinality(Units(S \cup {e}, r))
    BY <2>2, TotalIsUnits
  <2> QED
    BY <2>1, <2>3, TotalIsUnits
<1>4. ASSUME NEW T \in SUBSET S PROVE Total(T, r) <= Total(S, r)
  <2>1. Units(T, r) \subseteq Units(S, r)
    BY DEF Units
  <2> QED
    BY <2>1, TotalIsUnits, UnitsFinite, FS_Subset
<1> QED
  BY <1>1, <1>2, <1>3, <1>4

-----------------------------------------------------------------------------
LEMMA HeldFinite ==
  ASSUME NEW res
  PROVE  /\ IsFiniteSet(HeldIn(res))
         /\ Cardinality(HeldIn(res)) \in Nat
<1>1. HeldIn(res) \subseteq Execution
  BY DEF HeldIn
<1> QED
  BY <1>1, ExecutionAssumption, FS_Subset, FS_CardinalityType

\* A release takes a reservation away, and none but e's.
LEMMA ReleaseOK ==
  ASSUME TypeOK, NEW e \in Execution, Release(e)
  PROVE  /\ reservation' \in [Execution -> Lease]
         /\ history' \in [Execution -> Lease]
         /\ HeldIn(reservation') = Held \ {e}
         /\ \A f \in Execution \ {e} : reservation'[f] = reservation[f]
         /\ history = reservation => history' = reservation'
BY DEF TypeOK, Release, Lease, Held, HeldIn

\* A reservation is e's, and the others stay.
LEMMA ReserveOK ==
  ASSUME TypeOK, NEW e \in Execution, Reserve(e)
  PROVE  /\ reservation' \in [Execution -> Lease]
         /\ history' \in [Execution -> Lease]
         /\ HeldIn(reservation') = Held \cup {e}
BY DEF TypeOK, Reserve, Lease, Held, HeldIn

\* What validateResources lets pass fits together with what is reserved.
LEMMA GrantFits ==
  ASSUME Bounded(pool, reservation), NEW e \in Execution, Fits(Demand[e])
  PROVE  /\ Cardinality(Held \cup {e}) <= InitialPool.slots
         /\ \A r \in Resource : Total(Held \cup {e}, r) <= InitialPool.amount[r]
<1>1. /\ pool = InitialPool /\ InitialPool.slots \in Nat
      /\ \A r \in Resource : InitialPool.amount[r] \in Nat /\ Demand[e][r] \in Nat
  BY PoolAssumption, DemandAssumption DEF Bounded, Pool
<1>2. Cardinality(Held \cup {e}) <= InitialPool.slots
  <2>1. Cardinality(Held) < InitialPool.slots
    BY <1>1 DEF Fits
  <2>2. IsFiniteSet(Held) /\ Cardinality(Held) \in Nat
    BY HeldFinite DEF Held
  <2>3. Cardinality(Held \cup {e}) \in {Cardinality(Held), Cardinality(Held) + 1}
    BY <2>2, FS_AddElement
  <2> QED
    BY <1>1, <2>1, <2>2, <2>3
<1>3. ASSUME NEW r \in Resource PROVE Total(Held \cup {e}, r) <= InitialPool.amount[r]
  <2>1. Held \in SUBSET Execution
    BY DEF Held, HeldIn
  <2>2. Total(Held, r) \in Nat /\ Total(Held, r) <= InitialPool.amount[r]
    BY <2>1, TotalFacts DEF Bounded, Held
  <2>3. CASE e \in Held
    <3>1. Held \cup {e} = Held
      BY <2>3
    <3> QED
      BY <2>2, <3>1
  <2>4. CASE e \notin Held
    <3>1. Total(Held \cup {e}, r) = Total(Held, r) + Demand[e][r]
      BY <2>1, <2>4, TotalFacts
    <3>2. Demand[e][r] = 0 \/ Demand[e][r] <= Available(r)
      BY DEF Fits
    <3>3. Available(r) = InitialPool.amount[r] - Total(Held, r)
      BY <1>1, <2>2 DEF Available, Allocated, Total
    <3> QED
      BY <1>1, <2>2, <3>1, <3>2, <3>3
  <2> QED
    BY <2>3, <2>4
<1> QED
  BY <1>2, <1>3

-----------------------------------------------------------------------------
LEMMA InitIInv == Init => IInv
<1> SUFFICES ASSUME Init PROVE IInv
  OBVIOUS
<1>1. TypeOK
  BY PoolAssumption DEF Init, TypeOK, Lease, Stage, Outcome
<1>2. HeldIn(reservation) = {}
  BY DEF Init, HeldIn
<1>3. PoolInv
  <2>1. /\ InitialPool.slots \in Nat
        /\ \A r \in Resource : InitialPool.amount[r] \in Nat
    BY PoolAssumption DEF Pool
  <2>2. \A r \in Resource : Total({}, r) = 0
    BY TotalFacts
  <2> QED
    BY <1>2, <2>1, <2>2, FS_EmptySet DEF Init, PoolInv, Bounded
<1>4. LeaseInv
  BY DEF Init, LeaseInv, IdleUnreserved, LeasesAgree
<1> QED
  BY <1>1, <1>3, <1>4 DEF Init, IInv, SandboxesOwned, SandboxesAreDestroyed

\* The calls of ResourceManager that no pipeline makes.
LEMMA ManagerIInv ==
  ASSUME IInv, RegisterResource \/ CreateSnapshot \/ RestoreSnapshot
  PROVE  IInv'
<1>1. /\ pool \in Pool /\ reservation \in [Execution -> Lease]
      /\ \A s \in snapshot : s \in [pool : Pool, reservation : [Execution -> Lease]]
  BY DEF IInv, TypeOK
<1>2. /\ UNCHANGED <<history, owner, stage, outcome, work>>
      /\ pool' \in Pool /\ reservation' \in [Execution -> Lease]
      /\ \A s \in snapshot' : s \in [pool : Pool, reservation : [Execution -> Lease]]
  BY <1>1, PoolAssumption DEF RegisterResource, CreateSnapshot, RestoreSnapshot
<1>3. TypeOK'
  BY <1>2 DEF IInv, TypeOK
<1>4. SandboxesOwned' /\ SandboxesAreDestroyed'
  BY <1>2 DEF IInv, SandboxesOwned, SandboxesAreDestroyed, InFlight
<1>5. LeaseInv'
  BY DEF IInv, LeaseInv, IdleUnreserved, LeasesAgree, NoRestore, RegisterResource,
         CreateSnapshot, RestoreSnapshot
<1>6. PoolInv'
  BY DEF IInv, PoolInv, FixedPool, RegisterResource, CreateSnapshot,
         RestoreSnapshot
<1> QED
  BY <1>3, <1>4, <1>5, <1>6 DEF IInv

\* The steps of one call.
Step(e) ==
  \/ Reject(e) \/ Refuse(e) \/ Begin(e)
  \/ Succeed(e) \/ Fail(e) \/ TimeOut(e) \/ EndLate(e)
  \/ RolledBack(e) \/ CleanedUp(e)

LEMMA StepTypeOK ==
  ASSUME TypeOK, NEW e \in Execution, Step(e)
  PROVE  TypeOK'
<1>1. CASE Reject(e)
  BY <1>1 DEF Reject, TypeOK, Stage, Outcome
<1>2. CASE Refuse(e)
  BY <1>2, SessionAssumption DEF Refuse, CreateSandbox, TypeOK, Stage, Outcome
<1>3. CASE Begin(e)
  BY <1>3, ReserveOK, SessionAssumption
     DEF Begin, Allowed, CreateSandbox, TypeOK, Stage
<1>4. CASE Succeed(e)
  BY <1>4, ReleaseOK DEF Succeed, TypeOK, Stage, Outcome
<1>5. CASE Fail(e)
  BY <1>5, ReleaseOK DEF Fail, AfterFailure, TypeOK, Stage, Outcome
<1>6. CASE TimeOut(e)
  BY <1>6, ReleaseOK DEF TimeOut, AfterFailure, TypeOK, Stage, Outcome
<1>7. CASE EndLate(e)
  BY <1>7 DEF EndLate, TypeOK
<1>8. CASE RolledBack(e)
  BY <1>8 DEF RolledBack, TypeOK, Stage, Outcome
<1>9. CASE CleanedUp(e)
  BY <1>9, SessionAssumption DEF CleanedUp, TypeOK, Stage
<1> QED
  BY <1>1, <1>2, <1>3, <1>4, <1>5, <1>6, <1>7, <1>8, <1>9 DEF Step

\* Only a call's own first and last steps touch the sandbox of its session.
LEMMA StepSandboxes ==
  ASSUME TypeOK, SandboxesOwned, SandboxesAreDestroyed,
         NEW e \in Execution, Step(e)
  PROVE  SandboxesOwned' /\ SandboxesAreDestroyed'
<1>1. /\ owner \in [Session -> Execution \cup {NoExecution}]
      /\ stage \in [Execution -> Stage]
      /\ e # NoExecution /\ SessionOf[e] \in Session
  BY ExecutionAssumption, SessionAssumption DEF TypeOK
<1>2. CASE Refuse(e) \/ Begin(e)
  <2>1. /\ owner' = [owner EXCEPT ![SessionOf[e]] = e]
        /\ stage' \in {[stage EXCEPT ![e] = "cleaningUp"],
                       [stage EXCEPT ![e] = "executing"]}
    BY <1>2 DEF Refuse, Begin, CreateSandbox
  <2> QED
    BY <1>1, <2>1 DEF SandboxesOwned, SandboxesAreDestroyed, InFlight
<1>3. CASE CleanedUp(e)
  <2>1. /\ owner' = [owner EXCEPT ![SessionOf[e]] = NoExecution]
        /\ stage' = [stage EXCEPT ![e] = "ended"]
    BY <1>3 DEF CleanedUp
  <2>2. ASSUME NEW s \in Session, owner'[s] # NoExecution
        PROVE  /\ owner'[s] = owner[s] /\ owner[s] # NoExecution
               /\ owner[s] # e
    BY <1>1, <2>1, <2>2 DEF SandboxesOwned
  <2> QED
    BY <1>1, <2>1, <2>2 DEF SandboxesOwned, SandboxesAreDestroyed, InFlight
<1>4. CASE Reject(e)
  <2>1. /\ owner' = owner /\ stage[e] = "idle"
        /\ stage' = [stage EXCEPT ![e] = "ended"]
    BY <1>4 DEF Reject
  <2> QED
    BY <1>1, <2>1 DEF SandboxesOwned, SandboxesAreDestroyed, InFlight
<1>5. CASE Succeed(e) \/ Fail(e) \/ TimeOut(e) \/ RolledBack(e)
  <2>1. /\ owner' = owner
        /\ stage' \in {[stage EXCEPT ![e] = "cleaningUp"],
                       [stage EXCEPT ![e] = "rollingBack"]}
    BY <1>5 DEF Succeed, Fail, TimeOut, RolledBack, AfterFailure
  <2> QED
    BY <1>1, <2>1 DEF SandboxesOwned, SandboxesAreDestroyed, InFlight
<1>6. CASE EndLate(e)
  BY <1>6 DEF EndLate, SandboxesOwned, SandboxesAreDestroyed, InFlight
<1> QED
  BY <1>2, <1>3, <1>4, <1>5, <1>6 DEF Step

\* Begin reserves, the three ends of the race release, nothing else does.
LEMMA StepLeases ==
  ASSUME TypeOK, LeaseInv, NEW e \in Execution, Step(e)
  PROVE  LeaseInv'
<1> SUFFICES ASSUME NoRestore PROVE (snapshot = {} /\ IdleUnreserved /\ LeasesAgree)'
  BY DEF LeaseInv, NoRestore
<1>1. /\ snapshot = {} /\ history = reservation
      /\ \A f \in Execution : reservation[f] = "held" <=> stage[f] = "executing"
      /\ \A f \in Execution : stage[f] = "idle" => reservation[f] = "none"
      /\ stage \in [Execution -> Stage] /\ reservation \in [Execution -> Lease]
  BY DEF LeaseInv, IdleUnreserved, LeasesAgree, TypeOK
<1>2. snapshot' = {}
  BY <1>1 DEF Step, Reject, Refuse, Begin, Succeed, Fail, TimeOut, EndLate,
              RolledBack, CleanedUp
<1>3. CASE Begin(e)
  BY <1>1, <1>2, <1>3 DEF Begin, Reserve, IdleUnreserved, LeasesAgree
<1>4. CASE Succeed(e) \/ Fail(e) \/ TimeOut(e)
  <2>1. /\ Release(e)
        /\ stage[e] = "executing"
        /\ stage' \in {[stage EXCEPT ![e] = "cleaningUp"],
                       [stage EXCEPT ![e] = "rollingBack"]}
    BY <1>4 DEF Succeed, Fail, TimeOut, AfterFailure
  <2>2. /\ reservation' = [reservation EXCEPT ![e] = "released"]
        /\ history' = [history EXCEPT ![e] = "released"]
    BY <1>1, <2>1 DEF Release
  <2> QED
    BY <1>1, <1>2, <2>1, <2>2 DEF IdleUnreserved, LeasesAgree
<1>5. CASE Reject(e) \/ Refuse(e) \/ EndLate(e) \/ RolledBack(e) \/ CleanedUp(e)
  <2>1. /\ UNCHANGED <<reservation, history>>
        /\ \/ stage' = stage
           \/ /\ stage[e] # "executing"
              /\ stage' \in {[stage EXCEPT ![e] = "cleaningUp"],
                             [stage EXCEPT ![e] = "ended"]}
    BY <1>5 DEF Reject, Refuse, EndLate, RolledBack, CleanedUp
  <2> QED
    BY <1>1, <1>2, <2>1 DEF IdleUnreserved, LeasesAgree
<1> QED
  BY <1>3, <1>4, <1>5 DEF Step

LEMMA StepPool ==
  ASSUME TypeOK, PoolInv, NEW e \in Execution, Step(e)
  PROVE  PoolInv'
<1> SUFFICES ASSUME FixedPool
             PROVE  /\ Bounded(pool', reservation')
                    /\ \A s \in snapshot' : Bounded(s.pool, s.reservation)
  BY DEF PoolInv, FixedPool
<1>1. Bounded(pool, reservation)
  BY DEF PoolInv
<1>2. pool' = pool /\ snapshot' = snapshot
  BY DEF Step, Reject, Refuse, Begin, Succeed, Fail, TimeOut, EndLate,
         RolledBack, CleanedUp
<1>3. Bounded(pool, reservation')
  <2>1. CASE Begin(e)
    <3>1. HeldIn(reservation') = Held \cup {e}
      BY <2>1, ReserveOK DEF Begin
    <3>2. Fits(Demand[e])
      BY <2>1 DEF Begin, Allowed
    <3> QED
      BY <1>1, <3>1, <3>2, GrantFits DEF Bounded
  <2>2. CASE Succeed(e) \/ Fail(e) \/ TimeOut(e)
    <3>1. HeldIn(reservation') = Held \ {e}
      BY <2>2, ReleaseOK DEF Succeed, Fail, TimeOut
    <3>2. Cardinality(Held \ {e}) <= InitialPool.slots
      <4>1. Cardinality(Held \ {e}) <= Cardinality(Held)
        BY HeldFinite, FS_Subset DEF Held
      <4>2. Cardinality(Held \ {e}) \in Nat /\ Cardinality(Held) \in Nat
        BY HeldFinite, FS_RemoveElement, FS_CardinalityType DEF Held
      <4> QED
        BY <1>1, <4>1, <4>2, PoolAssumption DEF Bounded, Held, Pool
    <3>3. ASSUME NEW r \in Resource PROVE Total(Held \ {e}, r) <= InitialPool.amount[r]
      <4>1. Held \in SUBSET Execution /\ Held \ {e} \in SUBSET Held
        BY DEF Held, HeldIn
      <4>2. /\ Total(Held, r) \in Nat /\ Total(Held \ {e}, r) \in Nat
            /\ Total(Held \ {e}, r) <= Total(Held, r)
        BY <4>1, TotalFacts
      <4>3. Total(Held, r) <= InitialPool.amount[r] /\ InitialPool.amount[r] \in Nat
        BY <1>1, PoolAssumption DEF Bounded, Held, Pool
      <4> QED
        BY <4>2, <4>3
    <3> QED
      BY <1>1, <3>1, <3>2, <3>3 DEF Bounded
  <2>3. CASE Reject(e) \/ Refuse(e) \/ EndLate(e) \/ RolledBack(e) \/ CleanedUp(e)
    <3>1. reservation' = reservation
      BY <2>3 DEF Reject, Refuse, EndLate, RolledBack, CleanedUp
    <3> QED
      BY <1>1, <3>1
  <2> QED
    BY <2>1, <2>2, <2>3 DEF Step
<1> QED
  BY <1>2, <1>3 DEF PoolInv

LEMMA SpecIInv == Spec => []IInv
<1>1. IInv /\ UNCHANGED vars => IInv'
  BY DEF IInv, TypeOK, SandboxesOwned, SandboxesAreDestroyed, InFlight, LeaseInv,
         IdleUnreserved, LeasesAgree, PoolInv, vars
<1>2. IInv /\ [Next]_vars => IInv'
  <2> SUFFICES ASSUME IInv, Next PROVE IInv'
    BY <1>1
  <2>1. CASE RegisterResource \/ CreateSnapshot \/ RestoreSnapshot
    BY <2>1, ManagerIInv
  <2>2. ASSUME NEW e \in Execution, Step(e) PROVE IInv'
    BY <2>2, StepTypeOK, StepSandboxes, StepLeases, StepPool DEF IInv
  <2> QED
    BY <2>1, <2>2 DEF Next, Step
<1> QED
  BY InitIInv, <1>2, PTL DEF Spec

\* With nothing reserved, a call that could run alone is not turned down.
LEMMA IdlePoolAdmits ==
  ASSUME TypeOK, Held = {}, NEW e \in Execution, Admissible(e)
  PROVE  Negotiated(e) /\ Allowed(e)
<1>1. \A r \in Resource : Allocated(r) = 0
  BY TotalFacts DEF Allocated, Total
<1>2. \A r \in Resource : /\ pool.amount[r] \in Nat
                          /\ Demand[e][r] \in Nat /\ PlanDemand[e][r] \in Nat
  BY DemandAssumption DEF TypeOK, Pool
<1>3. \A r \in Resource : Available(r) = pool.amount[r]
  BY <1>1, <1>2 DEF Available
<1>4. Cardinality(Held) < pool.slots
  BY FS_EmptySet DEF Admissible
<1> QED
  BY <1>3, <1>4 DEF Admissible, Negotiated, Allowed, Fits

LEMMA RefusalExplained ==
  ASSUME NoRestore, IInv, [Next]_vars,
         NEW e \in Execution, Admissible(e), outcome[e] = "pending",
         outcome'[e] \in {"rejected", "refused"}
  PROVE  \E f \in Execution \ {e} : stage[f] = "executing"
<1>1. /\ TypeOK
      /\ \A f \in Execution : reservation[f] = "held" <=> stage[f] = "executing"
      /\ outcome \in [Execution -> Outcome]
  BY DEF IInv, TypeOK, LeaseInv, LeasesAgree
<1>2. outcome' # outcome
  BY <1>1
<1>3. PICK f \in Execution : Reject(f) \/ Refuse(f) \/ Succeed(f) \/ Fail(f)
                             \/ TimeOut(f) \/ RolledBack(f)
  BY <1>2 DEF Next, vars, RegisterResource, CreateSnapshot, RestoreSnapshot, Begin,
              EndLate, CleanedUp
<1>4. f = e /\ (Reject(e) \/ Refuse(e))
  BY <1>1, <1>3 DEF Reject, Refuse, Succeed, Fail, TimeOut, AfterFailure, RolledBack
<1>5. stage[e] = "idle" /\ ~(Negotiated(e) /\ Allowed(e))
  BY <1>4 DEF Reject, Refuse
<1>6. Held # {}
  BY <1>1, <1>5, IdlePoolAdmits
<1> QED
  BY <1>1, <1>5, <1>6 DEF Held, HeldIn

-----------------------------------------------------------------------------
(* The state has the right shape for any calls, sessions, resources, pools. *)
THEOREM ExecutionTypeCorrect == Spec => []TypeOK
BY SpecIInv, PTL DEF IInv

(* Calls of one session may replace and destroy each other's sandbox; still *)
(* no sandbox is left behind when the calls are over.                       *)
THEOREM NoSandboxLeft == Spec => []SandboxesAreDestroyed
BY SpecIInv, PTL DEF IInv

(* Without restores, a reservation is held exactly while its call executes, *)
(* in memory and in the ledger.                                             *)
THEOREM LeasesKept ==
  ASSUME NoRestore
  PROVE  Spec => []LeasesAgree
<1>1. IInv => LeasesAgree
  BY NoRestore DEF IInv, LeaseInv
<1> QED
  BY <1>1, SpecIInv, PTL

(* In a pool that is not resized the slots suffice for the reservations,    *)
(* whatever is restored.                                                    *)
THEOREM SlotsKept ==
  ASSUME FixedPool
  PROVE  Spec => []ConcurrencyRespected
<1>1. IInv => ConcurrencyRespected
  BY FixedPool DEF IInv, PoolInv, Bounded, ConcurrencyRespected, Held
<1> QED
  BY <1>1, SpecIInv, PTL

(* Nor do they add up to more than the pool has of any resource: the check  *)
(* and the reservation cannot be separated.                                 *)
THEOREM AmountsKept ==
  ASSUME FixedPool
  PROVE  Spec => []AmountsRespected
<1>1. IInv => AmountsRespected
  BY FixedPool DEF IInv, PoolInv, Bounded, AmountsRespected, Allocated, Total, Held
<1> QED
  BY <1>1, SpecIInv, PTL

(* No capacity is lost on any path through the pipeline, nor by resizing:   *)
(* a call that could run alone is turned down only while another executes.  *)
THEOREM RefusalsExplained ==
  ASSUME NoRestore
  PROVE  Spec => RefusalHasCause
<1>1. IInv /\ [Next]_vars =>
        [\A e \in Execution :
           (/\ Admissible(e)
            /\ outcome[e] = "pending"
            /\ outcome'[e] \in {"rejected", "refused"}) =>
           \E f \in Execution \ {e} : stage[f] = "executing"]_vars
  BY NoRestore, RefusalExplained
<1> QED
  BY <1>1, SpecIInv, PTL DEF Spec, RefusalHasCause

-----------------------------------------------------------------------------
(* The reservations are the leases of ResourceLeases. *)

LEMMA SameTotals ==
  ASSUME NEW S, NEW r
  PROVE  Leases!TotalDemand(S, r) = Total(S, r)
BY DEF Leases!TotalDemand, Leases!MapThenSumSet, Leases!MapThenFoldSet,
       Total, MapThenSumSet, MapThenFoldSet

LEMMA SameCardinality ==
  ASSUME NEW S
  PROVE  Leases!Cardinality(S) = Cardinality(S)
BY DEF Leases!Cardinality, Cardinality

LEMMA LeasesInit == Init => Leases!Init
BY PoolAssumption DEF Init, Leases!Init, Held, HeldIn, Pool

\* What validateResources lets pass does not add to an excess.
LEMMA GrantNoExcess ==
  ASSUME TypeOK, NEW e \in Execution, e \notin Held, Fits(Demand[e]), NEW r \in Resource
  PROVE  Demand[e][r] = 0 \/ Total(Held \cup {e}, r) <= pool.amount[r]
<1>1. pool.amount[r] \in Nat /\ Demand[e][r] \in Nat
  BY DemandAssumption DEF TypeOK, Pool
<1>2. Held \in SUBSET Execution
  BY DEF Held, HeldIn
<1>3. Total(Held, r) \in Nat /\ Total(Held \cup {e}, r) = Total(Held, r) + Demand[e][r]
  BY <1>2, TotalFacts
<1>4. Demand[e][r] = 0 \/ Demand[e][r] <= Available(r)
  BY DEF Fits
<1>5. Available(r) = IF pool.amount[r] < Total(Held, r) THEN 0
                     ELSE pool.amount[r] - Total(Held, r)
  BY DEF Available, Allocated, Total
<1> QED
  BY <1>1, <1>3, <1>4, <1>5

LEMMA LeasesStep ==
  ASSUME NoRestore, IInv, NEW e \in Execution, Step(e)
  PROVE  [Leases!Next]_(Leases!vars)
<1>1. /\ TypeOK
      /\ \A f \in Execution : reservation[f] = "held" <=> stage[f] = "executing"
      /\ \A f \in Execution : stage[f] = "idle" => reservation[f] = "none"
      /\ reservation \in [Execution -> Lease]
  BY DEF IInv, TypeOK, LeaseInv, IdleUnreserved, LeasesAgree
<1>2. pool' = pool
  BY DEF Step, Reject, Refuse, Begin, Succeed, Fail, TimeOut, EndLate, RolledBack, CleanedUp
<1> DEFINE Returned == {f \in Execution : reservation[f] = "released"}
<1>3. CASE Begin(e)
  <2>1. /\ reservation[e] = "none"
        /\ reservation' = [reservation EXCEPT ![e] = "held"]
        /\ Fits(Demand[e])
    BY <1>1, <1>3 DEF Begin, Reserve, Allowed
  <2>2. e \notin Held \cup Returned /\ Held' = Held \cup {e} /\ Returned' = Returned
    BY <1>1, <2>1 DEF Held, HeldIn
  <2>3. /\ Cardinality(Held) < pool.slots
        /\ \A r \in Resource : Demand[e][r] = 0 \/ Total(Held \cup {e}, r) <= pool.amount[r]
    <3>1. Cardinality(Held) < pool.slots
      BY <2>1 DEF Fits
    <3> QED
      BY <1>1, <2>1, <2>2, <3>1, GrantNoExcess
  <2>4. /\ Leases!Cardinality(Held) < pool.slots
        /\ \A r \in Resource : \/ Demand[e][r] = 0
                              \/ Leases!TotalDemand(Held \cup {e}, r) <= pool.amount[r]
    BY <2>3, SameTotals, SameCardinality
  <2>5. Leases!Grant(e)
    BY <1>2, <2>2, <2>4 DEF Leases!Grant
  <2> QED
    BY <2>5 DEF Leases!Next
<1>4. CASE Succeed(e) \/ Fail(e) \/ TimeOut(e)
  <2>1. /\ reservation[e] = "held"
        /\ reservation' = [reservation EXCEPT ![e] = "released"]
    BY <1>1, <1>4 DEF Succeed, Fail, TimeOut, Release
  <2>2. e \in Held /\ Held' = Held \ {e} /\ Returned' = Returned \cup {e}
    BY <1>1, <2>1 DEF Held, HeldIn
  <2>3. Leases!Return(e)
    BY <1>2, <2>2 DEF Leases!Return
  <2> QED
    BY <2>3 DEF Leases!Next
<1>5. CASE Reject(e) \/ Refuse(e) \/ EndLate(e) \/ RolledBack(e) \/ CleanedUp(e)
  <2>1. reservation' = reservation
    BY <1>5 DEF Reject, Refuse, EndLate, RolledBack, CleanedUp
  <2> QED
    BY <1>2, <2>1 DEF Leases!vars, Held, HeldIn
<1> QED
  BY <1>3, <1>4, <1>5 DEF Step

(* Without restores, the pipeline, its sandbox and the manager together     *)
(* implement ResourceLeases: every call is granted its whole demand or      *)
(* nothing, a grant fits what the pool has left, each is returned once.     *)
THEOREM ImplementsResourceLeases ==
  ASSUME NoRestore
  PROVE  Spec => ImplementsLeases
<1>1. IInv /\ [Next]_vars => [Leases!Next]_(Leases!vars)
  <2> SUFFICES ASSUME IInv, [Next]_vars PROVE [Leases!Next]_(Leases!vars)
    OBVIOUS
  <2>1. CASE UNCHANGED vars
    BY <2>1 DEF vars, Leases!vars, Held, HeldIn
  <2>2. CASE RegisterResource
    <3>1. pool' \in Pool /\ UNCHANGED reservation
      BY <2>2, PoolAssumption DEF RegisterResource
    <3>2. Leases!Resize
      BY <3>1 DEF Leases!Resize, Pool, Held, HeldIn
    <3> QED
      BY <3>2 DEF Leases!Next
  <2>3. CASE CreateSnapshot \/ RestoreSnapshot
    <3>1. snapshot = {}
      BY NoRestore DEF IInv, LeaseInv
    <3> QED
      BY <2>3, <3>1, NoRestore DEF NoRestore, CreateSnapshot, RestoreSnapshot
  <2>4. ASSUME NEW e \in Execution, Step(e) PROVE [Leases!Next]_(Leases!vars)
    BY <2>4, NoRestore, LeasesStep
  <2> QED
    BY <2>1, <2>2, <2>3, <2>4 DEF Next, Step
<1> QED
  BY <1>1, LeasesInit, SpecIInv, PTL DEF Spec, ImplementsLeases, Leases!Spec

-----------------------------------------------------------------------------
(* Liveness.  The race between a capability and its timeout is settled;     *)
(* that is what is assumed, and of the timer only.                          *)
RaceSettles(e) == []<>(stage[e] # "executing") \/ []<><<Settle(e)>>_vars

\* Fairness says no less: a call that executes can time out.
LEMMA FairRacesSettle ==
  ASSUME NEW e \in Execution
  PROVE  /\ WF_vars(Settle(e))
         /\ [](stage[e] = "executing" => ENABLED <<Settle(e)>>_vars)
         => RaceSettles(e)
<1>1. stage[e] # "executing" <=> ~(stage[e] = "executing")
  OBVIOUS
<1> QED
  BY <1>1, PTL DEF RaceSettles

(* Without restores every reservation is given back, for any calls, pool    *)
(* and demands: whatever the capability, its rollback and its cleanup do,   *)
(* or never do, it is enough that the race with the timeout is settled.     *)
THEOREM ReservationsComeBack ==
  ASSUME NoRestore
  PROVE  Spec /\ (\A e \in Execution : RaceSettles(e)) => ReservationsReturned
<1>1. ASSUME NEW e \in Execution
      PROVE  Spec /\ RaceSettles(e) => (reservation[e] = "held" ~> reservation[e] # "held")
  <2>1. IInv => /\ reservation[e] = "held" <=> stage[e] = "executing"
                /\ reservation[e] # "held" <=> stage[e] # "executing"
                /\ stage[e] # "executing" <=> ~(stage[e] = "executing")
    BY NoRestore DEF IInv, LeaseInv, LeasesAgree
  <2>2. IInv /\ <<Settle(e)>>_vars => (stage[e] # "executing")'
    BY DEF IInv, TypeOK, Settle, Succeed, Fail, TimeOut, AfterFailure
  <2> QED
    BY <2>1, <2>2, SpecIInv, PTL DEF RaceSettles
<1>2. Spec /\ (\A e \in Execution : RaceSettles(e)) =>
        \A e \in Execution : (reservation[e] = "held" ~> reservation[e] # "held")
  BY <1>1
<1> QED
  BY <1>2 DEF ReservationsReturned

=============================================================================
