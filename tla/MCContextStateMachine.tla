------------------------ MODULE MCContextStateMachine ------------------------
(***************************************************************************)
(* Three sessions, of which one is kept when another is created, and every *)
(* combination of the optional calls.                                      *)
(***************************************************************************)
EXTENDS ContextStateMachine

CONSTANTS s1, s2, s3

AllClients == SUBSET Call
=============================================================================
