---------------------------- MODULE NodeSequence ----------------------------
(***************************************************************************)
(* What a linked list promises: a sequence of distinct nodes.  The         *)
(* abstract specification that DsList implements.                          *)
(***************************************************************************)
EXTENDS Naturals, Sequences, SequencesExt

CONSTANT Node

VARIABLE list   \* the nodes from front to back

Init == list = <<>>

\* A node enters at any position; it is not in the list yet.
Insert(n) ==
  /\ n \notin Range(list)
  /\ \E i \in 1 .. Len(list) + 1 : list' = InsertAt(list, i, n)

\* A node leaves from any position; the others keep their order.
Delete == \E i \in DOMAIN list : list' = RemoveAt(list, i)

Turn == list' = Reverse(list)
Clear == list' = <<>>

Next == (\E n \in Node : Insert(n)) \/ Delete \/ Turn \/ Clear

Spec == Init /\ [][Next]_list
=============================================================================
