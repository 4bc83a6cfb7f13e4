-------------------------------- MODULE DsQueue --------------------------------
(***************************************************************************)
(* The FIFO queue of src/src/ds_queue.c between one producer and one       *)
(* consumer, one of which may be an interrupt (ds_queue.h offers it for    *)
(* the buffering of interrupt data).                                       *)
(*                                                                         *)
(* Unlike the ring buffer it has a field that both sides write: count.     *)
(* A call is split at its accesses to the shared fields, in program order; *)
(* count++ and count-- are a load and a store of a plain uint32_t, and the *)
(* other side may come in between.  A call that only returns DS_ERR_FULL   *)
(* or DS_ERR_EMPTY is a stuttering step.                                   *)
(***************************************************************************)
EXTENDS Integers, Sequences

CONSTANTS
  Capacity,     \* q->capacity
  Data,         \* item pointers
  Modes         \* subset of {"tasks", "producer", "consumer"}, see mode

\* What ds_queue_init asks for, and what else the module supposes of its constants.
CapacityAssumption ==
  Capacity \in Nat /\ Capacity >= 2 /\ \E n \in 1 .. 31 : Capacity = 2 ^ n
ModeAssumption == Modes \subseteq {"tasks", "producer", "consumer"}

VARIABLES
  buffer, head, tail, count,  \* the fields of ds_queue_t
  p,     \* the producer's call: progress, item, and count as count++ loaded it
  c,     \* the consumer's call: progress, and count as count-- loaded it
  out,   \* the item the consumer's call stored last (*item)
  mode,  \* fixed: which side is an interrupt that runs to completion
  lost   \* history: one side's change to count was overwritten by the other's

vars == <<buffer, head, tail, count, p, c, out, mode, lost>>

-----------------------------------------------------------------------------
Slot == 0 .. Capacity - 1
Wrap(i) == i % Capacity   \* & q->mask

Advance(i) == Wrap(i + 1)

IsEmpty == count = 0
IsFull == count = Capacity

\* The storage is the application's: init does not clear it.
Init ==
  /\ buffer \in [Slot -> Data]
  /\ head = 0 /\ tail = 0 /\ count = 0
  /\ out \in Data
  /\ p = [pc |-> "rest", item |-> out, seen |-> 0]
  /\ c = [pc |-> "rest", seen |-> 0]
  /\ mode \in Modes
  /\ lost = FALSE

\* An interrupt is entered between two steps of the main loop, and the main
\* loop goes on when it has returned.
ProducerRuns == mode = "consumer" => c.pc = "rest"
ConsumerRuns == mode = "producer" => p.pc = "rest"

-----------------------------------------------------------------------------
(* ds_queue_enqueue                                                        *)

\* Mutant: a full queue is not noticed.
EnqueueBeginUnchecked(x) ==
  /\ ProducerRuns /\ p.pc = "rest"
  /\ p' = [pc |-> "store", item |-> x, seen |-> 0]
  /\ UNCHANGED <<buffer, head, tail, count, c, out, mode, lost>>

EnqueueBegin(x) ==
  /\ ProducerRuns /\ p.pc = "rest"
  /\ ~IsFull
  /\ p' = [pc |-> "store", item |-> x, seen |-> 0]
  /\ UNCHANGED <<buffer, head, tail, count, c, out, mode, lost>>

EnqueueStore ==
  /\ ProducerRuns /\ p.pc = "store"
  /\ buffer' = [buffer EXCEPT ![tail] = p.item]
  /\ p' = [p EXCEPT !.pc = "advance"]
  /\ UNCHANGED <<head, tail, count, c, out, mode, lost>>

EnqueueAdvance ==
  /\ ProducerRuns /\ p.pc = "advance"
  /\ tail' = Advance(tail)
  /\ p' = [p EXCEPT !.pc = "count"]
  /\ UNCHANGED <<buffer, head, count, c, out, mode, lost>>

EnqueueLoadCount ==
  /\ ProducerRuns /\ p.pc = "count"
  /\ p' = [p EXCEPT !.pc = "counting", !.seen = count]
  /\ UNCHANGED <<buffer, head, tail, count, c, out, mode, lost>>

EnqueueStoreCount ==
  /\ ProducerRuns /\ p.pc = "counting"
  /\ count' = p.seen + 1
  /\ lost' = (lost \/ count # p.seen)
  /\ p' = [p EXCEPT !.pc = "rest", !.seen = 0]
  /\ UNCHANGED <<buffer, head, tail, c, out, mode>>

-----------------------------------------------------------------------------
(* ds_queue_dequeue, ds_queue_peek, ds_queue_reset                         *)

DequeueBegin ==
  /\ ConsumerRuns /\ c.pc = "rest"
  /\ ~IsEmpty
  /\ c' = [pc |-> "load", seen |-> 0]
  /\ UNCHANGED <<buffer, head, tail, count, p, out, mode, lost>>

DequeueLoad ==
  /\ ConsumerRuns /\ c.pc = "load"
  /\ out' = buffer[head]
  /\ c' = [c EXCEPT !.pc = "advance"]
  /\ UNCHANGED <<buffer, head, tail, count, p, mode, lost>>

DequeueAdvance ==
  /\ ConsumerRuns /\ c.pc = "advance"
  /\ head' = Advance(head)
  /\ c' = [c EXCEPT !.pc = "count"]
  /\ UNCHANGED <<buffer, tail, count, p, out, mode, lost>>

DequeueLoadCount ==
  /\ ConsumerRuns /\ c.pc = "count"
  /\ c' = [c EXCEPT !.pc = "counting", !.seen = count]
  /\ UNCHANGED <<buffer, head, tail, count, p, out, mode, lost>>

DequeueStoreCount ==
  /\ ConsumerRuns /\ c.pc = "counting"
  /\ count' = c.seen - 1
  /\ lost' = (lost \/ count # c.seen)
  /\ c' = [pc |-> "rest", seen |-> 0]
  /\ UNCHANGED <<buffer, head, tail, p, out, mode>>

PeekBegin ==
  /\ ConsumerRuns /\ c.pc = "rest"
  /\ ~IsEmpty
  /\ c' = [pc |-> "peek", seen |-> 0]
  /\ UNCHANGED <<buffer, head, tail, count, p, out, mode, lost>>

PeekLoad ==
  /\ ConsumerRuns /\ c.pc = "peek"
  /\ out' = buffer[head]
  /\ c' = [c EXCEPT !.pc = "rest"]
  /\ UNCHANGED <<buffer, head, tail, count, p, mode, lost>>

\* Mutant: the count is not cleared.
ResetKeepsCount ==
  /\ p.pc = "rest" /\ c.pc = "rest"
  /\ head' = 0 /\ tail' = 0
  /\ lost' = FALSE
  /\ UNCHANGED <<buffer, count, p, c, out, mode>>

\* Its three stores are no single access: the application keeps the other side
\* out while it resets the queue.
Reset ==
  /\ p.pc = "rest" /\ c.pc = "rest"
  /\ head' = 0 /\ tail' = 0 /\ count' = 0
  /\ lost' = FALSE
  /\ UNCHANGED <<buffer, p, c, out, mode>>

Next ==
  \/ \E x \in Data : EnqueueBegin(x)
  \/ EnqueueStore \/ EnqueueAdvance \/ EnqueueLoadCount \/ EnqueueStoreCount
  \/ DequeueBegin \/ DequeueLoad \/ DequeueAdvance
  \/ DequeueLoadCount \/ DequeueStoreCount
  \/ PeekBegin \/ PeekLoad
  \/ Reset

Spec == Init /\ [][Next]_vars

-----------------------------------------------------------------------------
(* Properties                                                              *)

\* Type invariant of the queue and of the two calls in progress.
TypeOK ==
  /\ buffer \in [Slot -> Data] /\ head \in Slot /\ tail \in Slot
  /\ count \in 0 .. Capacity
  /\ p \in [pc : {"rest", "store", "advance", "count", "counting"},
           item : Data, seen : 0 .. Capacity]
  /\ c \in [pc : {"rest", "load", "advance", "count", "counting", "peek"},
           seen : 0 .. Capacity]
  /\ out \in Data
  /\ mode \in Modes
  /\ lost \in BOOLEAN

\* The item is stored and tail moved, but not counted; taken, but still counted.
Uncounted == p.pc \in {"count", "counting"}
StillCounted == c.pc \in {"count", "counting"}

\* The items in the queue.
Length == IF StillCounted THEN count - 1 ELSE count

\* There is always room for an item on its way in and one for the consumer to
\* take, so count never leaves 0 .. Capacity, even if updates of it were lost.  As
\* long as none was, count, head and tail, which the two sides change in different
\* steps, tell the same: tail is as far ahead of head as count says, but for the
\* item that the producer has stored and not counted yet.
IndicesMatchCount ==
  /\ p.pc # "rest" => count < Capacity
  /\ c.pc # "rest" => count > 0
  /\ ~lost => tail = Wrap(head + Length + (IF Uncounted THEN 1 ELSE 0))

Contents == [i \in 1 .. Length |-> buffer[Wrap(head + i - 1)]]

Fifo ==
  INSTANCE BoundedFifo WITH q <- Contents, Limit <- Capacity, broken <- lost

\* The two sides see a first-in first-out queue of capacity items, however their
\* accesses interleave, from a reset until a change of count is lost.
ImplementsFifo == Fifo!Spec

\* count is "the current number of elements" (ds_queue.h) when no call is in
\* progress, as it must be for "the buffering of interrupt data", which ds_queue.h
\* offers too: no item that was accepted drops out, none is counted twice.
CountsItems == p.pc = "rest" /\ c.pc = "rest" => tail = Wrap(head + count)
=============================================================================
