---------------------------- MODULE MCTaskScheduler ----------------------------
(***************************************************************************)
(* Calls of schedule whose ids never collide, or may.                      *)
(***************************************************************************)
EXTENDS TaskScheduler

AllClients == {{}, {"collide"}}

=============================================================================
