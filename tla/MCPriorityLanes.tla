--------------------------- MODULE MCPriorityLanes ---------------------------
(* PriorityLanes with a few work blocks, which malloc hands out again and   *)
(* again: the lanes can stay nonempty for as many selections as wanted.     *)
EXTENDS PriorityLanes, TLC

WorkSymmetry == Permutations(Work)
=============================================================================
