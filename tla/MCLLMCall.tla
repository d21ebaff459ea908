------------------------------ MODULE MCLLMCall ------------------------------
(* Three attempts of three ticks that do not fit into the budget, with     *)
(* callers that hedge early, late and not at all.                          *)
EXTENDS LLMCall

MCHedges == {0, 1, 2, 3}
MCPause == [n \in 1 .. 3 |-> n - 1]
=============================================================================
