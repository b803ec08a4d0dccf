---------------------------- MODULE MCAgentRuntime ----------------------------
(***************************************************************************)
(* Two requests; a tool that reads and one that writes, and messages that  *)
(* make one call, or finish and then write.  Three answers let a call be   *)
(* repeated and the text that follows be judged.                           *)
(***************************************************************************)
EXTENDS AgentRuntime

CONSTANTS read, write

Messages == {<<read>>, <<Finish, write>>}

AllClients == {{}, {"overlap"}}

=============================================================================
