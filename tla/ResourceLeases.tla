---------------------------- MODULE ResourceLeases ----------------------------
(***************************************************************************)
(* What ResourceManager promises to the executions of the Universal        *)
(* Execution Layer: each is granted its whole demand or nothing, a grant   *)
(* fits what the pool has left at that moment, though the pool may change  *)
(* later, and every grant is returned once.                                *)
(***************************************************************************)
EXTENDS FiniteSetsExt, Integers

CONSTANTS
  Execution,
  Resource,
  Demand      \* [Execution -> [Resource -> Nat]]

VARIABLES
  amount,     \* what the pool has of each resource
  slots,      \* how many leases there may be at a time
  leased,
  returned

vars == <<amount, slots, leased, returned>>

TotalDemand(S, r) == MapThenSumSet(LAMBDA e : Demand[e][r], S)

Init ==
  /\ amount \in [Resource -> Nat]
  /\ slots \in Nat
  /\ leased = {}
  /\ returned = {}

Resize ==
  /\ amount' \in [Resource -> Nat]
  /\ slots' \in Nat
  /\ UNCHANGED <<leased, returned>>

\* Leases granted before the pool shrank may exceed it; a new one may not
\* add to the excess.
Grant(e) ==
  /\ e \notin leased \cup returned
  /\ Cardinality(leased) < slots
  /\ \A r \in Resource :
       Demand[e][r] = 0 \/ TotalDemand(leased \cup {e}, r) <= amount[r]
  /\ leased' = leased \cup {e}
  /\ UNCHANGED <<amount, slots, returned>>

Return(e) ==
  /\ e \in leased
  /\ leased' = leased \ {e}
  /\ returned' = returned \cup {e}
  /\ UNCHANGED <<amount, slots>>

Next == Resize \/ \E e \in Execution : Grant(e) \/ Return(e)

Spec == Init /\ [][Next]_vars

=============================================================================
