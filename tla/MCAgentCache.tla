---------------------------- MODULE MCAgentCache ----------------------------
(* Instances of AgentCache for TLC. *)
EXTENDS AgentCache, TLC

\* The requests are alike, and so are the agents of a user.
Alike == Permutations(Tasks) \cup Permutations(Confs)
=============================================================================
