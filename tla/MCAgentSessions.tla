-------------------------- MODULE MCAgentSessions --------------------------
(* Instances of AgentSessions. *)
EXTENDS AgentSessions, TLC

CONSTANTS r1, r2, r3, d1
=============================================================================
