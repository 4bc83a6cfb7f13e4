----------------------------- MODULE BoundedLifo -----------------------------
(***************************************************************************)
(* What a stack promises: the item given out is the one that was pushed    *)
(* last.  The abstract specification that DsStack implements.              *)
(***************************************************************************)
EXTENDS Naturals, Sequences

CONSTANTS Item, Limit

VARIABLES
  s,    \* the items stacked, the oldest first
  out   \* the item a pop or a peek gave out last

vars == <<s, out>>

Init == s = <<>> /\ out \in Item

Push(x) == Len(s) < Limit /\ s' = Append(s, x) /\ UNCHANGED out
Show == s # <<>> /\ out' = s[Len(s)]
Peek == Show /\ UNCHANGED s
Pop == Show /\ s' = SubSeq(s, 1, Len(s) - 1)
Clear == s' = <<>> /\ UNCHANGED out

Next == (\E x \in Item : Push(x)) \/ Peek \/ Pop \/ Clear

Spec == Init /\ [][Next]_vars
=============================================================================
