----------------------------- MODULE MCContainers -----------------------------
(***************************************************************************)
(* The containers that call nothing back: the priority queue, the stack,   *)
(* the FIFO queue and the bit field.  They share no state, so one run      *)
(* explores them side by side: used tells which one is used and never      *)
(* changes, and the others stay as they were made.                         *)
(***************************************************************************)
EXTENDS MCDsPriorityQueue

CONSTANTS
  StackCapacity, StackItem,
  QueueCapacity, QueueData, Modes,
  W, NumBits

VARIABLES
  stk_buffer, stk_top, stk_out,
  q_buffer, q_head, q_tail, q_count, q_p, q_c, q_out, q_mode, q_lost,
  bf_words, bf_reply,
  used

Stack == INSTANCE DsStack WITH
  Capacity <- StackCapacity, Item <- StackItem,
  buffer <- stk_buffer, top <- stk_top, out <- stk_out

Queue == INSTANCE DsQueue WITH
  Capacity <- QueueCapacity, Data <- QueueData,
  buffer <- q_buffer, head <- q_head, tail <- q_tail, count <- q_count,
  p <- q_p, c <- q_c, out <- q_out, mode <- q_mode, lost <- q_lost

Bits == INSTANCE DsBitfield WITH words <- bf_words, reply <- bf_reply

ASSUME StackAssumption == Stack!CapacityAssumption
ASSUME QueueAssumption == Queue!CapacityAssumption /\ Queue!ModeAssumption
ASSUME BitsAssumption == Bits!WordAssumption /\ Bits!SizeAssumption

heapVars == vars
stackVars == <<stk_buffer, stk_top, stk_out>>
queueVars == <<q_buffer, q_head, q_tail, q_count, q_p, q_c, q_out, q_mode, q_lost>>
bitsVars == <<bf_words, bf_reply>>
mcVars == <<heapVars, stackVars, queueVars, bitsVars, used>>

-----------------------------------------------------------------------------
\* What a container holds that is not used: one of its initial states.
HeapUnused ==
  /\ buffer = [i \in Slot |-> low] /\ size = 0 /\ sift = NoSift /\ out = low

StackUnused ==
  LET x == CHOOSE x \in StackItem : TRUE
  IN /\ stk_buffer = [i \in Stack!Slot |-> x] /\ stk_top = 0 /\ stk_out = x

QueueUnused ==
  LET x == CHOOSE x \in QueueData : TRUE
  IN /\ q_buffer = [i \in Queue!Slot |-> x] /\ q_head = 0 /\ q_tail = 0
     /\ q_count = 0 /\ q_out = x /\ q_mode = (CHOOSE m \in Modes : TRUE)
     /\ q_lost = FALSE
     /\ q_p = [pc |-> "rest", item |-> x, seen |-> 0]
     /\ q_c = [pc |-> "rest", seen |-> 0]

BitsUnused == bf_words = [i \in Bits!Index |-> {}] /\ bf_reply = <<"none", 0>>

MCInit ==
  /\ used \in {"heap", "stack", "queue", "bits"}
  /\ IF used = "heap" THEN Init ELSE HeapUnused
  /\ IF used = "stack" THEN Stack!Init ELSE StackUnused
  /\ IF used = "queue" THEN Queue!Init ELSE QueueUnused
  /\ IF used = "bits" THEN Bits!Init ELSE BitsUnused

MCNext ==
  /\ \/ used = "heap" /\ Next /\ UNCHANGED <<stackVars, queueVars, bitsVars>>
     \/ used = "stack" /\ Stack!Next /\ UNCHANGED <<heapVars, queueVars, bitsVars>>
     \/ used = "queue" /\ Queue!Next /\ UNCHANGED <<heapVars, stackVars, bitsVars>>
     \/ used = "bits" /\ Bits!Next /\ UNCHANGED <<heapVars, stackVars, queueVars>>
  /\ UNCHANGED used

MCSpec == MCInit /\ [][MCNext]_mcVars

-----------------------------------------------------------------------------
(* Properties                                                              *)

\* The stack gives out what was pushed last: see DsStack.
ImplementsLifo == Stack!ImplementsLifo

\* The queue's count, which producer and consumer change in turn, agrees with its
\* indices: see DsQueue.
IndicesMatchCount == Queue!TypeOK /\ Queue!IndicesMatchCount

\* The queue is first-in first-out, however producer and consumer interleave: see
\* DsQueue.
ImplementsFifo == Queue!ImplementsFifo

\* The bit field answers as a set of numbers: see DsBitfield.
ImplementsBitSet == Bits!ImplementsBitSet
=============================================================================
