---------------------------- MODULE DagExecution ----------------------------
(***************************************************************************)
(* What the Execution Intelligence Layer promises about the task rows of   *)
(* one execution, with no schedulers, sessions or polling: tasks of a      *)
(* graph start when everything they depend on is completed, several at a   *)
(* time, end once, and a failed task may be retried or declared completed. *)
(***************************************************************************)
EXTENDS TaskGraph

CONSTANTS Task, Edge

VARIABLES row, deps

vars == <<row, deps>>

Status == {"absent", "waiting", "running", "completed", "failed"}

TypeOK ==
  /\ row \in [Task -> Status]
  /\ deps \subseteq Edge

Init ==
  /\ row = [t \in Task |-> "absent"]
  /\ deps = {}

\* Until something has started, tasks and dependencies come and go.
Build ==
  /\ \A t \in Task : row[t] \in {"absent", "waiting"}
  /\ row' \in [Task -> {"absent", "waiting"}]
  /\ deps' \in SUBSET Edge

\* The tasks that may start when the rows are as given.
Ready(rows) ==
  {t \in Task : /\ rows[t] = "waiting"
                /\ \A d \in Prerequisites(deps, t) : rows[d] = "completed"}

\* Some ready tasks start, and some of these fail at once.
Start(rows) ==
  \E L \in SUBSET Ready(rows) : \E F \in SUBSET L :
    /\ row' = [t \in Task |-> IF t \in F THEN "failed"
                              ELSE IF t \in L THEN "running" ELSE rows[t]]
    /\ UNCHANGED deps

\* A retry, or a skip, of all failed tasks is the beginning of a start.
Reset(status) == [t \in Task |-> IF row[t] = "failed" THEN status ELSE row[t]]

End(t) ==
  /\ row[t] = "running"
  /\ \E s \in {"completed", "failed"} : row' = [row EXCEPT ![t] = s]
  /\ UNCHANGED deps

Next ==
  \/ Build
  \/ Start(row)
  \/ Start(Reset("waiting"))
  \/ Start(Reset("completed"))
  \/ \E t \in Task : End(t)

Spec == Init /\ [][Next]_vars

=============================================================================
