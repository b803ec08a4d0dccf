--------------------------- MODULE SessionLifecycle ---------------------------
(***************************************************************************)
(* What Context OS promises about a session, without a state machine, a    *)
(* database or a pipeline of stages: it is started, it may fail and be     *)
(* recovered, and once it has ended only a new start gives it life again.  *)
(***************************************************************************)

CONSTANT Session

VARIABLE phase

Phase == {"absent", "active", "failed", "ended"}

TypeOK == phase \in [Session -> Phase]

Init == \E s \in Session :
          phase = [u \in Session |-> IF u = s THEN "active" ELSE "absent"]

\* A start may make room by forgetting other sessions.
Start(s) ==
  \E gone \in SUBSET Session :
    phase' = [u \in Session |-> IF u = s THEN "active"
                                ELSE IF u \in gone THEN "absent" ELSE phase[u]]

Remove(s) == phase' = [phase EXCEPT ![s] = "absent"]

Fail(s) ==
  /\ phase[s] = "active"
  /\ phase' = [phase EXCEPT ![s] = "failed"]

Recover(s) ==
  /\ phase[s] = "failed"
  /\ phase' = [phase EXCEPT ![s] = "active"]

End(s) ==
  /\ phase[s] \in {"active", "failed"}
  /\ phase' = [phase EXCEPT ![s] = "ended"]

Next == \E s \in Session : Start(s) \/ Remove(s) \/ Fail(s) \/ Recover(s) \/ End(s)

Spec == Init /\ [][Next]_phase

=============================================================================
