------------------------------ MODULE MCAgentRuns ------------------------------
(* AgentRuns for TLC. *)
EXTENDS AgentRuns

CONSTANTS e1, e2, w1, w2
=============================================================================
