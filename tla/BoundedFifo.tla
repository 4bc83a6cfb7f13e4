----------------------------- MODULE BoundedFifo -----------------------------
(***************************************************************************)
(* What a queue between one writer and one reader promises: the abstract   *)
(* specification that DsRingBuf and DsQueue implement.  The reader takes   *)
(* only the element it has just looked at, the oldest one.                 *)
(*                                                                         *)
(* A use that the code is not made for breaks the queue.  What it gives    *)
(* out is arbitrary from then on, until it is next cleared.                *)
(***************************************************************************)
EXTENDS Naturals, Sequences

CONSTANTS Data, Limit

VARIABLES
  q,      \* the elements queued, the oldest first
  out,    \* the element the reader looked at last
  broken  \* nothing is promised

vars == <<q, out, broken>>

Init == q = <<>> /\ out \in Data /\ broken = FALSE

Put(d) == Len(q) < Limit /\ q' = Append(q, d) /\ UNCHANGED <<out, broken>>
Peek == q # <<>> /\ out' = Head(q) /\ UNCHANGED <<q, broken>>
Take == q # <<>> /\ out = Head(q) /\ q' = Tail(q) /\ UNCHANGED <<out, broken>>
Clear == q' = <<>> /\ broken' = FALSE /\ UNCHANGED out
Break == broken' = TRUE

Next == (\E d \in Data : Put(d)) \/ Peek \/ Take \/ Clear \/ Break

Spec == Init /\ [][Next]_vars
=============================================================================
