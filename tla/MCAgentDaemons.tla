--------------------------- MODULE MCAgentDaemons ---------------------------
(***************************************************************************)
(* Small instances of AgentDaemons.                                         *)
(***************************************************************************)
EXTENDS AgentDaemons, TLC

None == {}

Perms == Permutations(Agents)
=============================================================================
