----------------------------- MODULE PriorityBag -----------------------------
(***************************************************************************)
(* What a priority queue promises: a bag of items that gives back one of   *)
(* least priority.  The abstract specification that DsPriorityQueue        *)
(* implements.                                                             *)
(***************************************************************************)
EXTENDS Naturals

CONSTANTS Item, Priority

VARIABLES
  count,  \* how often each item is queued
  out     \* the item a pop or a peek gave out last

vars == <<count, out>>

Init == count = [x \in Item |-> 0] /\ out \in Item

Queued(x) == count[x] > 0
Least(x) == Queued(x) /\ \A y \in Item : Queued(y) => Priority[x] <= Priority[y]

Push(x) == count' = [count EXCEPT ![x] = @ + 1] /\ UNCHANGED out
Pop(x) == Least(x) /\ out' = x /\ count' = [count EXCEPT ![x] = @ - 1]
Peek(x) == Least(x) /\ out' = x /\ UNCHANGED count
Clear == count' = [x \in Item |-> 0] /\ UNCHANGED out

Next == (\E x \in Item : Push(x) \/ Pop(x) \/ Peek(x)) \/ Clear

Spec == Init /\ [][Next]_vars
=============================================================================
