---------------------------- MODULE DsPriorityQueue ----------------------------
(***************************************************************************)
(* The binary min-heap of src/src/ds_priority_queue.c.                     *)
(*                                                                         *)
(* One step is one iteration of pq_sift_up or pq_sift_down, so that what   *)
(* holds in the middle of a sift can be stated.  Items are pointers, the   *)
(* same one may be queued several times.  compare is the application's; it *)
(* orders the items by a priority that does not change while they are      *)
(* queued.                                                                 *)
(***************************************************************************)
EXTENDS Integers, FiniteSets

CONSTANTS
  Capacity,  \* pq->capacity
  Item,      \* item pointers
  Priority   \* what pq->compare goes by

ASSUME CapacityAssumption == Capacity \in Nat \ {0}
ASSUME PriorityAssumption == Priority \in [Item -> Nat]

VARIABLES
  buffer, size,  \* the fields of ds_pqueue_t
  sift,          \* the sift in progress and its index
  out            \* the item a pop or a peek stored last (*item)

vars == <<buffer, size, sift, out>>

-----------------------------------------------------------------------------
Slot == 0 .. Capacity - 1
NoSift == [pc |-> "rest", idx |-> 0]
AtRest == sift.pc = "rest"

\* compare(a, b) < 0
Before(a, b) == Priority[a] < Priority[b]

\* Mutant: the parent of a heap that starts at 1.
ParentFromOne(i) == i \div 2
Parent(i) == (i - 1) \div 2
Left(i) == 2 * i + 1
Right(i) == 2 * i + 2

\* The storage is the application's: init does not clear it.
Init ==
  /\ buffer \in [Slot -> Item]
  /\ size = 0
  /\ sift = NoSift
  /\ out \in Item

Swap(a, b) == buffer' = [buffer EXCEPT ![a] = buffer[b], ![b] = buffer[a]]

IsEmpty == size = 0
IsFull == size = Capacity

-----------------------------------------------------------------------------
(* ds_pqueue_push and pq_sift_up: size counts the new item only at the end *)

PushBegin(x) ==
  /\ AtRest /\ ~IsFull
  /\ buffer' = [buffer EXCEPT ![size] = x]
  /\ sift' = [pc |-> "up", idx |-> size]
  /\ UNCHANGED <<size, out>>

Rises == sift.idx > 0 /\ Before(buffer[sift.idx], buffer[Parent(sift.idx)])

SiftUp ==
  /\ sift.pc = "up" /\ Rises
  /\ Swap(sift.idx, Parent(sift.idx))
  /\ sift' = [sift EXCEPT !.idx = Parent(@)]
  /\ UNCHANGED <<size, out>>

PushEnd ==
  /\ sift.pc = "up" /\ ~Rises
  /\ size' = size + 1
  /\ sift' = NoSift
  /\ UNCHANGED <<buffer, out>>

-----------------------------------------------------------------------------
(* ds_pqueue_pop and pq_sift_down: size is one less from the start         *)

\* Mutant: an empty heap is popped.
PopUnchecked ==
  /\ AtRest
  /\ out' = buffer[0]
  /\ size' = size - 1
  /\ IF size' > 0
     THEN /\ buffer' = [buffer EXCEPT ![0] = buffer[size']]
          /\ sift' = [pc |-> "down", idx |-> 0]
     ELSE UNCHANGED <<buffer, sift>>

PopBegin ==
  /\ AtRest /\ ~IsEmpty
  /\ out' = buffer[0]
  /\ size' = size - 1
  /\ IF size' > 0
     THEN /\ buffer' = [buffer EXCEPT ![0] = buffer[size']]
          /\ sift' = [pc |-> "down", idx |-> 0]
     ELSE UNCHANGED <<buffer, sift>>

\* Whether a child is in the heap and goes before what slot s holds.
Beats(child, s) == child < size /\ Before(buffer[child], buffer[s])

\* Mutant: the right child is compared with the parent only.
SmallestOfParent(i) ==
  IF Beats(Right(i), i) THEN Right(i) ELSE IF Beats(Left(i), i) THEN Left(i) ELSE i

Smallest(i) ==
  LET s == IF Beats(Left(i), i) THEN Left(i) ELSE i
  IN IF Beats(Right(i), s) THEN Right(i) ELSE s

SiftDown ==
  /\ sift.pc = "down" /\ Smallest(sift.idx) # sift.idx
  /\ Swap(sift.idx, Smallest(sift.idx))
  /\ sift' = [sift EXCEPT !.idx = Smallest(@)]
  /\ UNCHANGED <<size, out>>

PopEnd ==
  /\ sift.pc = "down" /\ Smallest(sift.idx) = sift.idx
  /\ sift' = NoSift
  /\ UNCHANGED <<buffer, size, out>>

-----------------------------------------------------------------------------
(* ds_pqueue_peek, ds_pqueue_reset                                         *)

Peek ==
  /\ AtRest /\ ~IsEmpty
  /\ out' = buffer[0]
  /\ UNCHANGED <<buffer, size, sift>>

Reset ==
  /\ AtRest
  /\ size' = 0
  /\ UNCHANGED <<buffer, sift, out>>

Next ==
  \/ \E x \in Item : PushBegin(x)
  \/ SiftUp \/ PushEnd
  \/ PopBegin \/ SiftDown \/ PopEnd
  \/ Peek \/ Reset

Spec == Init /\ [][Next]_vars

-----------------------------------------------------------------------------
(* Properties                                                              *)

\* The slots that hold items: a push has stored one that size does not count.
Held == IF sift.pc = "up" THEN 0 .. size ELSE 0 .. size - 1

\* Type invariant of the heap and of the sift in progress.
TypeOK ==
  /\ buffer \in [Slot -> Item] /\ size \in 0 .. Capacity
  /\ Held \subseteq Slot
  /\ sift \in [pc : {"rest", "up", "down"}, idx : Slot]
  /\ out \in Item

Children(p) == {Left(p), Right(p)} \cap Held

\* No item goes before its parent, but for the one place where a sift is at work:
\* on its way up, the item it carries, and on its way down, that item's children.
OrderedButAtSift ==
  \A p \in Held : \A c \in Children(p) :
    \/ ~Before(buffer[c], buffer[p])
    \/ sift.pc = "up" /\ c = sift.idx
    \/ sift.pc = "down" /\ p = sift.idx

\* The children of that place do not go before its parent.
OrderedAroundSift ==
  ~AtRest =>
    \A g \in Held : sift.idx \in Children(g) =>
      \A c \in Children(sift.idx) : ~Before(buffer[c], buffer[g])

\* The heap is in order at rest, and in the middle of a sift the only disorder
\* is where the sift works: the next swap mends it and leaves nothing behind.
HeapOrder == OrderedButAtSift /\ OrderedAroundSift

\* How often each item is in the heap.
Places(x) == {i \in Held : buffer[i] = x}
Contents == [x \in Item |-> Cardinality(Places(x))]

Abstract == INSTANCE PriorityBag WITH count <- Contents

\* The heap is a bag: no item is lost or doubled by the swaps, and a pop and a
\* peek give out an item that none goes before.
ImplementsPriorityBag == Abstract!Spec
=============================================================================
