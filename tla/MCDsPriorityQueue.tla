--------------------------- MODULE MCDsPriorityQueue ---------------------------
(***************************************************************************)
(* The items of the priority queue's run: three priorities, one of them    *)
(* shared by two items.                                                    *)
(***************************************************************************)
EXTENDS DsPriorityQueue

CONSTANTS low, mid1, mid2, high

MCItem == {low, mid1, mid2, high}
MCPriority ==
  [x \in MCItem |-> CASE x = low -> 1 [] x = high -> 3 [] OTHER -> 2]
=============================================================================
