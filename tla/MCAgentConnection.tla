-------------------------- MODULE MCAgentConnection --------------------------
(***************************************************************************)
(* Instances of AgentConnection for TLC: one host that connects twice, and  *)
(* one that connects once beside one, for the monitor, that never does.     *)
(***************************************************************************)
EXTENDS AgentConnection

CONSTANTS h1, h2, s1, s2

OneHost == [s \in Sockets |-> h1]

=============================================================================
