------------------------------- MODULE OneShots -------------------------------
(***************************************************************************)
(* What a scheduler promises of a task that is scheduled to run once: it   *)
(* begins to run, once, unless it is dropped first.                        *)
(***************************************************************************)
CONSTANT Task

VARIABLE phase  \* how far each task has come

Phase == {"unknown", "waiting", "running", "done", "dropped"}

Init == phase = [t \in Task |-> "unknown"]

Goes(t, from, to) == phase[t] = from /\ phase' = [phase EXCEPT ![t] = to]

Accept(t) == Goes(t, "unknown", "waiting")

Start(t) == Goes(t, "waiting", "running")

End(t) == Goes(t, "running", "done")

\* One call may drop one task and accept another in its place.
Drop(t) == /\ phase[t] = "waiting"
           /\ \/ phase' = [phase EXCEPT ![t] = "dropped"]
              \/ \E u \in Task \ {t} :
                   /\ phase[u] \in {"unknown", "running"}
                   /\ phase' = [phase EXCEPT
                        ![t] = "dropped",
                        ![u] = IF phase[u] = "unknown" THEN "waiting" ELSE "done"]

Next == \E t \in Task : Accept(t) \/ Start(t) \/ End(t) \/ Drop(t)

Safe == Init /\ [][Next]_phase

\* A waiting task does not wait for ever.
Spec == /\ Safe
        /\ \A t \in Task : phase[t] = "waiting" ~> phase[t] # "waiting"

=============================================================================
