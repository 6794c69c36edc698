--------------------------- MODULE MCToolServers ---------------------------
(* A small instance of ToolServers: two tool calls, two sessions.           *)
EXTENDS ToolServers, TLC

CONSTANTS a, b

MCCalls == {a, b}
Symmetry == Permutations(MCCalls)
=============================================================================
