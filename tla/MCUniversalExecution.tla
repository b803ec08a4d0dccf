------------------------- MODULE MCUniversalExecution -------------------------
(***************************************************************************)
(* Small instances of UniversalExecution: four calls that compete for two  *)
(* amounts and for the slots of a pool.  The plan counts cpu only, as the  *)
(* negotiator counts no disk; d's plan fits the pool and d itself does not *)
(* when much of the disk is taken.                                         *)
(***************************************************************************)
EXTENDS UniversalExecution

CONSTANTS e1, e2, e3, e4, s1, s2

\* e4 needs no cpu, and most of the disk.
MixedDemand ==
  [e \in Execution |-> CASE e = e1 -> [cpu |-> 1, disk |-> 2]
                         [] e = e2 -> [cpu |-> 2, disk |-> 0]
                         [] e = e3 -> [cpu |-> 1, disk |-> 1]
                         [] OTHER  -> [cpu |-> 0, disk |-> 3]]

\* e2's plan has a dependency that needs a cpu as well.
MixedPlans ==
  [e \in Execution |-> [cpu  |-> IF e = e2 THEN 3 ELSE MixedDemand[e].cpu,
                        disk |-> 0]]

\* Three calls fit one by one, two of them together, never all.
SmallPool == [amount |-> [cpu |-> 3, disk |-> 3], slots |-> 2]

\* The pool loses cpus, disk or slots, or has enough for everyone.
Pools == {[amount |-> [cpu |-> 1, disk |-> 3], slots |-> 2],
          [amount |-> [cpu |-> 3, disk |-> 1], slots |-> 1],
          [amount |-> [cpu |-> 4, disk |-> 6], slots |-> 4]}

NoPools == {}

\* e1, e2 and e3 would fit this pool together if it had a third slot; e4 fits
\* with neither e1 nor e3.
RoomyPool == [amount |-> [cpu |-> 4, disk |-> 3], slots |-> 2]

\* All calls are made in one session.
OneSession == [e \in Execution |-> s1]

\* e1 and e2 belong to one session, e3 and e4 to another.
SharedSessions == [e \in Execution |-> IF e \in {e1, e2} THEN s1 ELSE s2]
=============================================================================
