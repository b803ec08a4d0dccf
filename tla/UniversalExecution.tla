-------------------------- MODULE UniversalExecution --------------------------
(***************************************************************************)
(* The Universal Execution Layer: calls of UELPipeline.runUELPipeline that *)
(* share the global ResourceManager and ExecutionSandbox.                  *)
(*                                                                         *)
(* A call negotiates, creates the sandbox of its session, validates,       *)
(* reserves and starts the capability without giving up the thread.  From  *)
(* there it waits for the capability or for its timeout, for rollback()    *)
(* and for cleanup(), and other calls run in between.  The timeout is a    *)
(* Promise.race: it settles the call, the capability goes on by itself.    *)
(***************************************************************************)
EXTENDS FiniteSetsExt, Integers

CONSTANTS
  Execution,         \* calls of runUELPipeline; each is made at most once
  Session,           \* request session ids
  SessionOf,         \* [Execution -> Session]
  NoExecution,       \* the owner of a sandbox that does not exist
  Resource,          \* the amounts of a pool: cpu, memoryMb, gpu, diskMb, ...
  Demand,            \* [Execution -> [Resource -> Nat]], manifest.estimatedResources
  PlanDemand,        \* likewise: what the negotiated plan needs in all
  Plannable,         \* calls whose capability is in a plan of healthy ones
  Permitted,         \* calls whose permissions and policy suffice
  SupportsRollback,  \* calls whose capability can roll back
  InitialPool,       \* [amount : [Resource -> Nat], slots : Nat]
  OtherPools,        \* pools that registerResource may set (bound)
  Enabled            \* the ResourceManager calls of this instance

Pool == [amount : [Resource -> Nat], slots : Nat]

Call == {"resize", "snapshot"}

ASSUME ExecutionAssumption == IsFiniteSet(Execution) /\ NoExecution \notin Execution
ASSUME SessionAssumption   == SessionOf \in [Execution -> Session]
ASSUME DemandAssumption    == /\ Demand \in [Execution -> [Resource -> Nat]]
                              /\ PlanDemand \in [Execution -> [Resource -> Nat]]
ASSUME PoolAssumption      == InitialPool \in Pool /\ OtherPools \subseteq Pool
ASSUME CallAssumption      == Enabled \subseteq Call

VARIABLES
  pool,          \* ResourceManager.currentPool
  reservation,   \* ResourceManager.reservations, by the call that made them
  history,       \* resource_history, the ledger in SQLite
  snapshot,      \* the latest row of resource_snapshots ({}: none)
  owner,         \* ExecutionSandbox.activeSessions: who created the sandbox
  stage,         \* where each call of runUELPipeline is
  outcome,       \* how it ends
  work           \* the capability's own execute()

manager == <<pool, reservation, history, snapshot>>
vars    == <<pool, reservation, history, snapshot, owner, stage, outcome, work>>

Lease   == {"none", "held", "released"}
Stage   == {"idle", "executing", "rollingBack", "cleaningUp", "ended"}
Outcome == {"pending", "rejected", "refused", "completed", "failed", "rollbackFailed"}

TypeOK ==
  /\ pool \in Pool
  /\ reservation \in [Execution -> Lease]
  /\ history \in [Execution -> Lease]
  /\ \A s \in snapshot : s \in [pool : Pool, reservation : [Execution -> Lease]]
  /\ owner \in [Session -> Execution \cup {NoExecution}]
  /\ stage \in [Execution -> Stage]
  /\ outcome \in [Execution -> Outcome]
  /\ work \in [Execution -> {"none", "running", "over"}]

Init ==
  /\ pool = InitialPool
  /\ reservation = [e \in Execution |-> "none"]
  /\ history = [e \in Execution |-> "none"]
  /\ snapshot = {}
  /\ owner = [s \in Session |-> NoExecution]
  /\ stage = [e \in Execution |-> "idle"]
  /\ outcome = [e \in Execution |-> "pending"]
  /\ work = [e \in Execution |-> "none"]

-----------------------------------------------------------------------------
(* ResourceManager.  A definition whose comment begins with "Faulty:" is a  *)
(* plausible bug in the one that follows it, and no action uses it.         *)

HeldIn(res) == {e \in Execution : res[e] = "held"}

Held == HeldIn(reservation)

Allocated(r) == MapThenSumSet(LAMBDA e : Demand[e][r], Held)

\* Never negative, not even when the pool has shrunk below what is allocated.
Available(r) == IF pool.amount[r] < Allocated(r) THEN 0
                ELSE pool.amount[r] - Allocated(r)

\* Faulty: concurrency is not a resource.
FitsWithoutSlot(want) ==
  \A r \in Resource : want[r] = 0 \/ want[r] <= Available(r)

\* Faulty: a request is compared with the pool, not with what is left of it.
FitsEmptyPool(want) ==
  /\ \A r \in Resource : want[r] = 0 \/ want[r] <= pool.amount[r]
  /\ Cardinality(Held) < pool.slots

\* validateResources: a demand of zero is never refused.
Fits(want) ==
  /\ \A r \in Resource : want[r] = 0 \/ want[r] <= Available(r)
  /\ Cardinality(Held) < pool.slots

Reserve(e) ==
  /\ reservation' = [reservation EXCEPT ![e] = "held"]
  /\ history' = [history EXCEPT ![e] = "held"]

\* Faulty: the ledger is not updated.
ReleaseInMemory(e) ==
  /\ reservation' = [reservation EXCEPT ![e] = "released"]
  /\ UNCHANGED history

\* releaseResources: nothing if the reservation is not there or is released.
Release(e) ==
  IF reservation[e] = "held"
  THEN /\ reservation' = [reservation EXCEPT ![e] = "released"]
       /\ history' = [history EXCEPT ![e] = "released"]
  ELSE UNCHANGED <<reservation, history>>

RegisterResource ==
  /\ "resize" \in Enabled
  /\ pool' \in OtherPools
  /\ UNCHANGED <<reservation, history, snapshot, owner, stage, outcome, work>>

CreateSnapshot ==
  /\ "snapshot" \in Enabled
  /\ snapshot' = {[pool |-> pool, reservation |-> reservation]}
  /\ UNCHANGED <<pool, reservation, history, owner, stage, outcome, work>>

\* Faulty: reservations made since the snapshot are kept besides the restored.
RestoreMerging ==
  \E s \in snapshot :
    /\ pool' = s.pool
    /\ reservation' = [e \in Execution |-> IF s.reservation[e] = "none"
                                           THEN reservation[e] ELSE s.reservation[e]]
    /\ UNCHANGED <<history, snapshot, owner, stage, outcome, work>>

\* The reservations in memory are replaced, those of calls that have ended or
\* begun since included; the ledger is not.
RestoreSnapshot ==
  \E s \in snapshot :
    /\ pool' = s.pool
    /\ reservation' = s.reservation
    /\ UNCHANGED <<history, snapshot, owner, stage, outcome, work>>

-----------------------------------------------------------------------------
(* UELPipeline and ExecutionSandbox *)

Negotiated(e) == e \in Plannable /\ Fits(PlanDemand[e])

Allowed(e) == e \in Permitted /\ Fits(Demand[e])

\* The negotiation throws: nothing has been created yet.
Reject(e) ==
  /\ stage[e] = "idle"
  /\ ~Negotiated(e)
  /\ stage' = [stage EXCEPT ![e] = "ended"]
  /\ outcome' = [outcome EXCEPT ![e] = "rejected"]
  /\ UNCHANGED <<pool, reservation, history, snapshot, owner, work>>

\* createSandbox replaces a sandbox of the same session.
CreateSandbox(e) == owner' = [owner EXCEPT ![SessionOf[e]] = e]

\* Faulty: a call that is refused leaves without cleaning up.
RefuseAtOnce(e) ==
  /\ stage[e] = "idle"
  /\ Negotiated(e) /\ ~Allowed(e)
  /\ CreateSandbox(e)
  /\ stage' = [stage EXCEPT ![e] = "ended"]
  /\ outcome' = [outcome EXCEPT ![e] = "refused"]
  /\ UNCHANGED <<pool, reservation, history, snapshot, work>>

\* The sandbox refuses permission or resources; its finally block still runs.
Refuse(e) ==
  /\ stage[e] = "idle"
  /\ Negotiated(e) /\ ~Allowed(e)
  /\ CreateSandbox(e)
  /\ stage' = [stage EXCEPT ![e] = "cleaningUp"]
  /\ outcome' = [outcome EXCEPT ![e] = "refused"]
  /\ UNCHANGED <<pool, reservation, history, snapshot, work>>

Begin(e) ==
  /\ stage[e] = "idle"
  /\ Negotiated(e) /\ Allowed(e)
  /\ CreateSandbox(e)
  /\ Reserve(e)
  /\ stage' = [stage EXCEPT ![e] = "executing"]
  /\ work' = [work EXCEPT ![e] = "running"]
  /\ UNCHANGED <<pool, snapshot, outcome>>

Succeed(e) ==
  /\ stage[e] = "executing"
  /\ Release(e)
  /\ stage' = [stage EXCEPT ![e] = "cleaningUp"]
  /\ outcome' = [outcome EXCEPT ![e] = "completed"]
  /\ work' = [work EXCEPT ![e] = "over"]
  /\ UNCHANGED <<pool, snapshot, owner>>

\* Faulty: a failure ends in a status of its own that no caller knows.
AfterFailureUnnamed(e) ==
  /\ stage' = [stage EXCEPT ![e] = "cleaningUp"]
  /\ outcome' = [outcome EXCEPT ![e] = "error"]

\* execute() has returned a failure or thrown, or the timeout has.
AfterFailure(e) ==
  /\ stage' = [stage EXCEPT ![e] = IF e \in SupportsRollback THEN "rollingBack"
                                   ELSE "cleaningUp"]
  /\ outcome' = [outcome EXCEPT ![e] = "failed"]

Fail(e) ==
  /\ stage[e] = "executing"
  /\ Release(e)
  /\ AfterFailure(e)
  /\ work' = [work EXCEPT ![e] = "over"]
  /\ UNCHANGED <<pool, snapshot, owner>>

\* Faulty: only a settled capability gives its reservation back.
TimeOutKeepingLease(e) ==
  /\ stage[e] = "executing"
  /\ AfterFailure(e)
  /\ UNCHANGED <<pool, reservation, history, snapshot, owner, work>>

\* The capability is not told, and goes on.
TimeOut(e) ==
  /\ stage[e] = "executing"
  /\ Release(e)
  /\ AfterFailure(e)
  /\ UNCHANGED <<pool, snapshot, owner, work>>

\* A capability that has timed out comes to its end; nobody hears of it.
EndLate(e) ==
  /\ stage[e] # "executing"
  /\ work[e] = "running"
  /\ work' = [work EXCEPT ![e] = "over"]
  /\ UNCHANGED <<pool, reservation, history, snapshot, owner, stage, outcome>>

\* rollback() has settled; what it throws, the caller gets after the cleanup.
RolledBack(e) ==
  /\ stage[e] = "rollingBack"
  /\ stage' = [stage EXCEPT ![e] = "cleaningUp"]
  /\ \E o \in {"failed", "rollbackFailed"} : outcome' = [outcome EXCEPT ![e] = o]
  /\ UNCHANGED <<pool, reservation, history, snapshot, owner, work>>

\* cleanup() has settled, its error is swallowed; the session's sandbox is
\* destroyed, whoever created it.
CleanedUp(e) ==
  /\ stage[e] = "cleaningUp"
  /\ owner' = [owner EXCEPT ![SessionOf[e]] = NoExecution]
  /\ stage' = [stage EXCEPT ![e] = "ended"]
  /\ UNCHANGED <<pool, reservation, history, snapshot, outcome, work>>

\* The race in enforceTimeout is settled.
Settle(e) == Succeed(e) \/ Fail(e) \/ TimeOut(e)

Next ==
  \/ RegisterResource
  \/ CreateSnapshot
  \/ RestoreSnapshot
  \/ \E e \in Execution : Reject(e)
  \/ \E e \in Execution : Refuse(e)
  \/ \E e \in Execution : Begin(e)
  \/ \E e \in Execution : Succeed(e)
  \/ \E e \in Execution : Fail(e)
  \/ \E e \in Execution : TimeOut(e)
  \/ \E e \in Execution : EndLate(e)
  \/ \E e \in Execution : RolledBack(e)
  \/ \E e \in Execution : CleanedUp(e)

Spec == Init /\ [][Next]_vars

\* enforceTimeout's timer fires unless the capability was faster.  Nothing
\* bounds rollback() and cleanup(), so no fairness is assumed of them.
Fairness == \A e \in Execution : WF_vars(Settle(e))

FairSpec == Spec /\ Fairness

-----------------------------------------------------------------------------
(* Properties *)

FixedPool == "resize" \notin Enabled

NoRestore == "snapshot" \notin Enabled

(* Unless the pool is resized there are never more reservations than it has *)
(* slots, whatever snapshots are restored while calls are in flight.        *)
ConcurrencyRespected == Cardinality(Held) <= pool.slots

(* Likewise, the reservations add up to no more than the pool has: checked  *)
(* twice, against the plan and against the capability, reserved at once.    *)
AmountsRespected == \A r \in Resource : Allocated(r) <= pool.amount[r]

(* Without restores, a call holds a reservation exactly as long as it       *)
(* executes, on every path out of it, and the ledger says the same.         *)
LeasesAgree ==
  /\ \A e \in Execution : reservation[e] = "held" <=> stage[e] = "executing"
  /\ history = reservation

\* The call could run if it were alone.
Admissible(e) ==
  /\ e \in Plannable \cap Permitted
  /\ \A r \in Resource : /\ Demand[e][r] <= pool.amount[r]
                         /\ PlanDemand[e][r] <= pool.amount[r]
  /\ pool.slots > 0

(* No capacity is lost: without restores, a call that could run alone in    *)
(* the pool as it is is turned down only while another one executes.        *)
RefusalHasCause ==
  [][\A e \in Execution :
       (/\ Admissible(e)
        /\ outcome[e] = "pending"
        /\ outcome'[e] \in {"rejected", "refused"}) =>
       \E f \in Execution \ {e} : stage[f] = "executing"]_vars

InFlight(e) == stage[e] \in {"executing", "rollingBack", "cleaningUp"}

(* No sandbox is left behind, also when calls replace and destroy each      *)
(* other's: a sandbox belongs to a call that has yet to clean up.           *)
SandboxesAreDestroyed ==
  \A s \in Session : owner[s] # NoExecution => InFlight(owner[s])

(* A reservation is returned even if the capability never settles.          *)
ReservationsReturned ==
  \A e \in Execution : reservation[e] = "held" ~> reservation[e] # "held"

(* Without restores the reservations are leases, also when the pool is      *)
(* resized while they are held.                                             *)
Leases == INSTANCE ResourceLeases WITH
            amount   <- pool.amount,
            slots    <- pool.slots,
            leased   <- Held,
            returned <- {e \in Execution : reservation[e] = "released"}
ImplementsLeases == Leases!Spec

=============================================================================
