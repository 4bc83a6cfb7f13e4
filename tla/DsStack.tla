------------------------------- MODULE DsStack -------------------------------
(***************************************************************************)
(* The fixed-size stack of src/src/ds_stack.c, used by one caller at a     *)
(* time: each call is one step.  A call that only returns DS_ERR_FULL or   *)
(* DS_ERR_EMPTY is a stuttering step.                                      *)
(***************************************************************************)
EXTENDS Naturals

CONSTANTS
  Capacity,  \* stk->capacity
  Item       \* item pointers

\* What ds_stack_init asks for.
CapacityAssumption == Capacity \in Nat \ {0}

VARIABLES
  buffer, top,  \* the fields of ds_stack_t
  out           \* the item a pop or a peek stored last (*item)

vars == <<buffer, top, out>>

-----------------------------------------------------------------------------
Slot == 0 .. Capacity - 1

IsEmpty == top = 0
IsFull == top = Capacity

\* The storage is the application's: init does not clear it.
Init ==
  /\ buffer \in [Slot -> Item]
  /\ top = 0
  /\ out \in Item

Push(x) ==
  /\ ~IsFull
  /\ buffer' = [buffer EXCEPT ![top] = x]
  /\ top' = top + 1
  /\ UNCHANGED out

\* Mutant: the item is loaded before top is lowered.
PopAboveTop ==
  /\ ~IsEmpty
  /\ out' = buffer[top]
  /\ top' = top - 1
  /\ UNCHANGED buffer

Pop ==
  /\ ~IsEmpty
  /\ top' = top - 1
  /\ out' = buffer[top']
  /\ UNCHANGED buffer

Peek ==
  /\ ~IsEmpty
  /\ out' = buffer[top - 1]
  /\ UNCHANGED <<buffer, top>>

Reset ==
  /\ top' = 0
  /\ UNCHANGED <<buffer, out>>

Next == (\E x \in Item : Push(x)) \/ Pop \/ Peek \/ Reset

Spec == Init /\ [][Next]_vars

-----------------------------------------------------------------------------
(* Properties                                                              *)

\* The items below top, the oldest first.
Contents == [i \in 1 .. top |-> buffer[i - 1]]

Lifo == INSTANCE BoundedLifo WITH s <- Contents, Limit <- Capacity

\* Pushes, pops, peeks and resets in any order behave as a last-in first-out
\* stack of capacity items, whatever the storage held before: no item left above
\* top by a pop or a reset comes back.
ImplementsLifo == Lifo!Spec
=============================================================================
