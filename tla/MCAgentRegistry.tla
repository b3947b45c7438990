-------------------------- MODULE MCAgentRegistry --------------------------
(* Small instances of AgentRegistry for TLC. *)
EXTENDS AgentRegistry, TLC

CONSTANTS bob, amy, eve      \* candidate nicknames; eve is in no pool

MCNames     == {bob, amy, eve}
MCPools     == {{bob}, {bob, amy}}   \* the lists of two roles overlap
MCPreferred == {<<eve, 0>>}
MCLimits    == {2, 3}

MCSymmetry == Permutations(Agents) \cup Permutations(Reservations) \cup Permutations(Releasers)
=============================================================================
