------------------------------ MODULE DsRingBuf ------------------------------
(***************************************************************************)
(* The ring buffer of src/src/ds_ringbuf.c between one writer and one      *)
(* reader, as in src/examples/ringbuf_uart_example.c, where the writer is  *)
(* the receive interrupt and the reader the main loop.                     *)
(*                                                                         *)
(* A call is split at its accesses to the fields the two sides share.  The *)
(* byte accesses of a call may alias the fields of *rb, so the compiler    *)
(* keeps them in program order with the stores to head and tail.           *)
(* A call that only returns DS_ERR_FULL is a stuttering step.              *)
(*                                                                         *)
(* A batch that takes all of free_space moves head onto tail, and what is  *)
(* in the buffer counts for nothing: the writer has flooded it.  This is   *)
(* over when the reader has found the buffer empty, or has reset it.       *)
(***************************************************************************)
EXTENDS Integers, Sequences

CONSTANTS
  Capacity,      \* rb->capacity
  Data,          \* byte values
  MaxBatch,      \* bound: the length asked of write_batch and read_batch
  Modes          \* subset of {"tasks", "writer", "reader"}, see mode

\* What ds_ringbuf_init asks for.
ASSUME CapacityAssumption ==
  Capacity \in Nat /\ Capacity >= 2 /\ \E n \in 1 .. 31 : Capacity = 2 ^ n
ASSUME BatchAssumption == MaxBatch \in Nat \ {0}
ASSUME ModeAssumption == Modes \subseteq {"tasks", "writer", "reader"}

VARIABLES
  buffer, head, tail,  \* the fields of ds_ringbuf_t
  w,       \* the writer's call: its progress and the bytes it has yet to store
  r,       \* the reader's call: its progress and how many bytes it has yet to take
  out,     \* the byte the reader's call stored last (*data, buf[i])
  mode,    \* fixed: which side is an interrupt that runs to completion
  flooded  \* history: a batch took all of free_space, see above

vars == <<buffer, head, tail, w, r, out, mode, flooded>>

-----------------------------------------------------------------------------
Slot == 0 .. Capacity - 1
Wrap(i) == i % Capacity   \* & rb->mask

\* Mutant: the mask is forgotten.
AdvanceNoMask(i) == i + 1
Advance(i) == Wrap(i + 1)

Batches == UNION {[1 .. n -> Data] : n \in 1 .. MaxBatch}

Available == Wrap(head - tail)
FreeSpace == Capacity - Available
IsEmpty == head = tail
IsFull == Advance(head) = tail

AtRest == [pc |-> "rest", pending |-> <<>>]
Resting == [pc |-> "rest", left |-> 0]

\* The storage is the application's: init does not clear it.
Init ==
  /\ buffer \in [Slot -> Data]
  /\ head = 0 /\ tail = 0
  /\ w = AtRest
  /\ r = Resting
  /\ out \in Data
  /\ mode \in Modes
  /\ flooded = FALSE

\* An interrupt is entered between two steps of the main loop, and the main
\* loop goes on when it has returned.
WriterRuns == mode = "reader" => r.pc = "rest"
ReaderRuns == mode = "writer" => w.pc = "rest"

-----------------------------------------------------------------------------
(* ds_ringbuf_write, ds_ringbuf_write_batch                                *)

Store(bytes) == w' = [pc |-> "store", pending |-> bytes]

WriteBegin(d) ==
  /\ WriterRuns /\ w.pc = "rest"
  /\ ~IsFull
  /\ Store(<<d>>)
  /\ UNCHANGED <<buffer, head, tail, r, out, mode, flooded>>

WriteBatchBegin(bytes) ==
  /\ WriterRuns /\ w.pc = "rest"
  /\ FreeSpace > 0
  /\ Store(SubSeq(bytes, 1, IF Len(bytes) < FreeSpace THEN Len(bytes) ELSE FreeSpace))
  /\ flooded' = (flooded \/ Len(bytes) >= FreeSpace)
  /\ UNCHANGED <<buffer, head, tail, r, out, mode>>

WriteStore ==
  /\ WriterRuns /\ w.pc = "store"
  /\ buffer' = [buffer EXCEPT ![head] = Head(w.pending)]
  /\ w' = [w EXCEPT !.pc = "advance"]
  /\ UNCHANGED <<head, tail, r, out, mode, flooded>>

WriteAdvance ==
  /\ WriterRuns /\ w.pc = "advance"
  /\ head' = Advance(head)
  /\ w' = IF Len(w.pending) = 1 THEN AtRest
          ELSE [pc |-> "store", pending |-> Tail(w.pending)]
  /\ UNCHANGED <<buffer, tail, r, out, mode, flooded>>

-----------------------------------------------------------------------------
(* ds_ringbuf_read, ds_ringbuf_read_batch, ds_ringbuf_peek                 *)

Take(n) == r' = [pc |-> "load", left |-> n]

\* Mutant: the length asked for is not cut to what is there.
ReadBeginUnbounded(n) ==
  /\ ReaderRuns /\ r.pc = "rest"
  /\ ~IsEmpty
  /\ Take(n)
  /\ UNCHANGED <<buffer, head, tail, w, out, mode, flooded>>

\* ds_ringbuf_read is a batch of one.
ReadBegin(n) ==
  /\ ReaderRuns /\ r.pc = "rest"
  /\ ~IsEmpty
  /\ Take(IF n < Available THEN n ELSE Available)
  /\ UNCHANGED <<buffer, head, tail, w, out, mode, flooded>>

ReadLoad ==
  /\ ReaderRuns /\ r.pc = "load"
  /\ out' = buffer[tail]
  /\ r' = IF r.left = 0 THEN Resting ELSE [r EXCEPT !.pc = "advance"]
  /\ UNCHANGED <<buffer, head, tail, w, mode, flooded>>

ReadAdvance ==
  /\ ReaderRuns /\ r.pc = "advance"
  /\ tail' = Advance(tail)
  /\ r' = IF r.left = 1 THEN Resting ELSE [pc |-> "load", left |-> r.left - 1]
  /\ UNCHANGED <<buffer, head, w, out, mode, flooded>>

\* A peek is a read of nothing: it loads and does not advance.
PeekBegin ==
  /\ ReaderRuns /\ r.pc = "rest"
  /\ ~IsEmpty
  /\ Take(0)
  /\ UNCHANGED <<buffer, head, tail, w, out, mode, flooded>>

\* DS_ERR_EMPTY.  A flood that the writer is still at is not over.
ReadRefused ==
  /\ ReaderRuns /\ r.pc = "rest"
  /\ IsEmpty
  /\ flooded' = (flooded /\ w.pc # "rest")
  /\ UNCHANGED <<buffer, head, tail, w, r, out, mode>>

-----------------------------------------------------------------------------
(* ds_ringbuf_reset, called by the main loop while the writer is an         *)
(* interrupt that may come between its two stores.                         *)

ResetHead ==
  /\ mode = "writer" /\ ReaderRuns /\ r.pc = "rest"
  /\ head' = 0
  /\ r' = [r EXCEPT !.pc = "reset"]
  /\ flooded' = FALSE
  /\ UNCHANGED <<buffer, tail, w, out, mode>>

ResetTail ==
  /\ ReaderRuns /\ r.pc = "reset"
  /\ tail' = 0
  /\ r' = Resting
  /\ UNCHANGED <<buffer, head, w, out, mode, flooded>>

WriterStep ==
  \/ \E d \in Data : WriteBegin(d)
  \/ \E bytes \in Batches : WriteBatchBegin(bytes)
  \/ WriteStore \/ WriteAdvance

ReaderStep ==
  \/ \E n \in 1 .. MaxBatch : ReadBegin(n)
  \/ PeekBegin \/ ReadLoad \/ ReadAdvance \/ ReadRefused
  \/ ResetHead \/ ResetTail

Next == WriterStep \/ ReaderStep

Spec == Init /\ [][Next]_vars

-----------------------------------------------------------------------------
(* Properties                                                              *)

\* Type invariant of the buffer and of the two calls in progress.
TypeOK ==
  /\ buffer \in [Slot -> Data] /\ head \in Slot /\ tail \in Slot
  /\ w \in [pc : {"rest", "store", "advance"}, pending : Seq(Data)]
  /\ r \in [pc : {"rest", "load", "advance", "reset"}, left : 0 .. Capacity - 1]
  /\ out \in Data
  /\ mode \in Modes
  /\ flooded \in BOOLEAN

\* Where the reader is, or will be when the reset has finished.
ReadFrom == IF r.pc = "reset" THEN 0 ELSE tail

\* The bytes between tail and head, the oldest first.
Contents ==
  [i \in 1 .. Wrap(head - ReadFrom) |-> buffer[Wrap(ReadFrom + i - 1)]]

\* What a call has checked stays true while the other side moves: the reader
\* never runs past head, the writer never reaches tail, unless a batch was
\* given all of free_space.
NoOverrun ==
  flooded \/ /\ r.left <= Len(Contents)
             /\ Len(w.pending) < Capacity - Len(Contents)

\* A byte a write has accepted joins the contents behind the others: none is
\* dropped, none of the others is overwritten.
NoSilentLoss ==
  [][WriteAdvance => Contents' = Append(Contents, Head(w.pending))]_vars

Fifo ==
  INSTANCE BoundedFifo WITH q <- Contents, Limit <- Capacity - 1, broken <- flooded

\* The two sides see a first-in first-out queue of capacity - 1 bytes, however
\* their accesses interleave, but for what a batch of all of free_space destroys:
\* the reader then finds the buffer empty, or resets it, and has a queue again.
ImplementsFifo == Fifo!Spec
=============================================================================
