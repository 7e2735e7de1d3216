--------------------------- MODULE MCAgentRequests ---------------------------
(* AgentRequests for TLC: the configurations set MaxQueued only.             *)
EXTENDS AgentRequests
=============================================================================
