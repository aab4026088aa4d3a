---------------------------- MODULE MCAgentRun ----------------------------
(* Instances of AgentRun for TLC. *)
EXTENDS AgentRun, TLC

RequestSymmetry == Permutations(Requests)
=============================================================================
