-------------------------- MODULE MCContainers_proofs --------------------------
(***************************************************************************)
(* The FIFO queue of DsQueue is first-in first-out between a producer and  *)
(* a consumer whose accesses interleave, until a change of count is lost,  *)
(* and its count stays in range even then; the stack of DsStack is last-in *)
(* first-out, and the bit field of DsBitfield is a set of numbers: for     *)
(* every capacity, every set of items and every length of words.           *)
(***************************************************************************)
EXTENDS MCContainers, FiniteSetTheorems, SequenceTheorems, WellFoundedInduction, TLAPS

LEMMA QueueConstants == QueueCapacity \in Nat /\ QueueCapacity >= 2
BY QueueAssumption DEF Queue!CapacityAssumption

USE QueueConstants

-----------------------------------------------------------------------------
(* Sequences                                                               *)

LEMMA EmptyLen ==
  ASSUME NEW S, NEW s \in Seq(S)
  PROVE  Len(s) \in Nat /\ (s = <<>> <=> Len(s) = 0)
<1>1. Len(s) \in Nat /\ <<>> \in Seq(S) /\ Len(<<>>) = 0
  BY LenProperties, EmptySeq
<1>2. Len(s) = 0 => s = <<>>
  BY <1>1, SeqEqual
<1> QED
  BY <1>1, <1>2

-----------------------------------------------------------------------------
(* The slots of the queue                                                  *)

LEMMA WrapIs ==
  ASSUME NEW i \in 0 .. 2 * QueueCapacity - 1
  PROVE  /\ Queue!Wrap(i) = IF i < QueueCapacity THEN i ELSE i - QueueCapacity
         /\ Queue!Wrap(i) \in Queue!Slot
BY DEF Queue!Wrap, Queue!Slot

\* A step from the slot that is j behind slot h leads to the one that is j + 1 behind.
LEMMA Steps ==
  ASSUME NEW h \in Queue!Slot, NEW j \in 0 .. QueueCapacity - 1
  PROVE  /\ Queue!Wrap(h) = h
         /\ Queue!Wrap(h + j) \in Queue!Slot
         /\ Queue!Advance(h) \in Queue!Slot
         /\ Queue!Advance(Queue!Wrap(h + j)) = Queue!Wrap(h + (j + 1))
         /\ Queue!Wrap(Queue!Advance(h) + j) = Queue!Wrap(h + (j + 1))
<1>1. \A i \in Queue!Slot : i \in Int /\ i >= 0 /\ i < QueueCapacity
  BY DEF Queue!Slot
<1>2. h \in 0 .. 2 * QueueCapacity - 1 /\ h + j \in 0 .. 2 * QueueCapacity - 1
      /\ h + 1 \in 0 .. 2 * QueueCapacity - 1
      /\ h + (j + 1) \in 0 .. 2 * QueueCapacity - 1
  BY <1>1
<1> DEFINE k == Queue!Wrap(h + j)
           a == Queue!Wrap(h + 1)
           m == Queue!Wrap(h + (j + 1))
<1>3. /\ Queue!Wrap(h) = h
      /\ k = IF h + j < QueueCapacity THEN h + j ELSE h + j - QueueCapacity
      /\ a = IF h + 1 < QueueCapacity THEN h + 1 ELSE h + 1 - QueueCapacity
      /\ m = IF h + (j + 1) < QueueCapacity THEN h + (j + 1)
             ELSE h + (j + 1) - QueueCapacity
      /\ k \in Queue!Slot /\ a \in Queue!Slot
  BY <1>1, <1>2, WrapIs
<1> HIDE DEF k, a, m
<1>4. k + 1 \in 0 .. 2 * QueueCapacity - 1 /\ a + j \in 0 .. 2 * QueueCapacity - 1
  BY <1>1, <1>3
<1>5. Queue!Wrap(k + 1) = m
  BY <1>1, <1>3, <1>4, WrapIs
<1>6. Queue!Wrap(a + j) = m
  BY <1>1, <1>3, <1>4, WrapIs
<1> QED
  BY <1>3, <1>5, <1>6 DEF Queue!Advance, k, a, m

\* The n items from slot h on.
Items(b, h, n) == [i \in 1 .. n |-> b[Queue!Wrap(h + i - 1)]]

LEMMA ItemsFacts ==
  ASSUME NEW b \in [Queue!Slot -> QueueData], NEW h \in Queue!Slot,
         NEW n \in 0 .. QueueCapacity
  PROVE  /\ Items(b, h, n) \in Seq(QueueData)
         /\ Len(Items(b, h, n)) = n
         /\ \A i \in 1 .. n : /\ Queue!Wrap(h + i - 1) \in Queue!Slot
                              /\ Items(b, h, n)[i] = b[Queue!Wrap(h + i - 1)]
         /\ Items(b, h, n) = <<>> <=> n = 0
<1>1. n \in Nat /\ \A i \in 1 .. n : h + i - 1 \in 0 .. 2 * QueueCapacity - 1
  BY DEF Queue!Slot
<1>2. \A i \in 1 .. n : Queue!Wrap(h + i - 1) \in Queue!Slot
  BY <1>1, WrapIs
<1>3. Items(b, h, n) \in [1 .. n -> QueueData]
  BY <1>2 DEF Items
<1>4. Items(b, h, n) \in Seq(QueueData) /\ Len(Items(b, h, n)) = n
  BY <1>1, <1>3, SeqDef, LenProperties
<1>5. Items(b, h, n) = <<>> <=> n = 0
  BY <1>4, EmptyLen, Zenon
<1> QED
  BY <1>2, <1>4, <1>5 DEF Items

\* One more item counted: the one in the slot behind them.
LEMMA ItemsGrow ==
  ASSUME NEW b \in [Queue!Slot -> QueueData], NEW h \in Queue!Slot,
         NEW n \in 0 .. QueueCapacity - 1
  PROVE  /\ Items(b, h, n + 1) = Append(Items(b, h, n), b[Queue!Wrap(h + n)])
         /\ b[Queue!Wrap(h + n)] \in QueueData
<1> DEFINE s == Items(b, h, n)
           q == Items(b, h, n + 1)
           d == b[Queue!Wrap(h + n)]
<1>0. n \in 0 .. QueueCapacity /\ n + 1 \in 0 .. QueueCapacity
      /\ n + 1 \in 1 .. n + 1 /\ h + (n + 1) - 1 = h + n
  BY DEF Queue!Slot
<1>1. /\ s \in Seq(QueueData) /\ Len(s) = n
      /\ q \in Seq(QueueData) /\ Len(q) = n + 1
      /\ \A i \in 1 .. n : s[i] = b[Queue!Wrap(h + i - 1)]
      /\ \A i \in 1 .. n + 1 : q[i] = b[Queue!Wrap(h + i - 1)]
  BY <1>0, ItemsFacts
<1>2. d \in QueueData
  BY Steps
<1>3. q[n + 1] = d
  <2>1. q[n + 1] = b[Queue!Wrap(h + (n + 1) - 1)]
    BY <1>0, <1>1
  <2> QED
    BY <1>0, <2>1
<1> HIDE DEF s, q, d
<1>4. /\ Append(s, d) \in Seq(QueueData) /\ Len(Append(s, d)) = n + 1
      /\ \A i \in 1 .. n : Append(s, d)[i] = s[i]
      /\ Append(s, d)[n + 1] = d
  BY <1>1, <1>2, AppendProperties
<1>5. \A i \in 1 .. n + 1 : q[i] = Append(s, d)[i]
  <2> TAKE i \in 1 .. n + 1
  <2>1. CASE i = n + 1
    BY <1>3, <1>4, <2>1
  <2>2. CASE i \in 1 .. n
    <3>1. q[i] = b[Queue!Wrap(h + i - 1)]
      BY <1>1
    <3>2. s[i] = b[Queue!Wrap(h + i - 1)]
      BY <1>1, <2>2
    <3> QED
      BY <1>4, <2>2, <3>1, <3>2
  <2> QED
    <3>1. i = n + 1 \/ i \in 1 .. n
      OBVIOUS
    <3> QED
      BY <2>1, <2>2, <3>1
<1>6. q = Append(s, d)
  BY <1>1, <1>4, <1>5, SeqEqual
<1> QED
  BY <1>2, <1>6 DEF s, q, d

\* Without the first of them, they are those from the next slot on.
LEMMA ItemsShrink ==
  ASSUME NEW b \in [Queue!Slot -> QueueData], NEW h \in Queue!Slot,
         NEW n \in 1 .. QueueCapacity
  PROVE  /\ Items(b, h, n) # <<>> /\ Head(Items(b, h, n)) = b[h]
         /\ Tail(Items(b, h, n)) = Items(b, Queue!Advance(h), n - 1)
<1> DEFINE s == Items(b, h, n)
           a == Queue!Advance(h)
           m == n - 1
           q == Items(b, a, m)
<1>0. n \in 0 .. QueueCapacity /\ n - 1 \in 0 .. QueueCapacity
      /\ 0 \in 0 .. QueueCapacity - 1
  OBVIOUS
<1>1. a \in Queue!Slot /\ Queue!Wrap(h) = h /\ m \in 0 .. QueueCapacity
  BY <1>0, Steps
<1>2. /\ s \in Seq(QueueData) /\ Len(s) = n
      /\ q \in Seq(QueueData) /\ Len(q) = n - 1
      /\ \A i \in 1 .. n : s[i] = b[Queue!Wrap(h + i - 1)]
      /\ \A i \in 1 .. n - 1 : q[i] = b[Queue!Wrap(a + i - 1)]
      /\ s # <<>>
  <2>1. /\ s \in Seq(QueueData) /\ Len(s) = n /\ s # <<>>
        /\ \A i \in 1 .. n : s[i] = b[Queue!Wrap(h + i - 1)]
    BY <1>0, ItemsFacts
  <2> HIDE DEF a, m
  <2>2. /\ q \in Seq(QueueData) /\ Len(q) = m
        /\ \A i \in 1 .. m : q[i] = b[Queue!Wrap(a + i - 1)]
    BY <1>1, ItemsFacts
  <2> QED
    BY <2>1, <2>2 DEF m
<1>3. Head(s) = b[h]
  <2>1. Head(s) = s[1] /\ 1 \in 1 .. n /\ h + 1 - 1 = h
    BY <1>2 DEF Queue!Slot
  <2> QED
    BY <1>1, <1>2, <2>1
<1>4. \A i \in 1 .. n - 1 :
        Queue!Wrap(h + (i + 1) - 1) = Queue!Wrap(Queue!Advance(h) + i - 1)
  <2> TAKE i \in 1 .. n - 1
  <2>1. PICK j \in 0 .. QueueCapacity - 1 : j = i - 1
    OBVIOUS
  <2>2. Queue!Wrap(Queue!Advance(h) + j) = Queue!Wrap(h + (j + 1))
    BY Steps
  <2>3. Queue!Advance(h) + i - 1 = Queue!Advance(h) + j /\ h + (i + 1) - 1 = h + (j + 1)
    BY <1>1, <2>1 DEF Queue!Slot
  <2> QED
    BY <2>2, <2>3
<1> HIDE DEF s, q
<1>5. /\ Tail(s) \in Seq(QueueData) /\ Len(Tail(s)) = n - 1
      /\ \A i \in 1 .. n - 1 : Tail(s)[i] = s[i + 1]
  BY <1>2, HeadTailProperties
<1>6. \A i \in 1 .. n - 1 : Tail(s)[i] = q[i]
  <2> TAKE i \in 1 .. n - 1
  <2>1. i + 1 \in 1 .. n
    OBVIOUS
  <2>2. s[i + 1] = b[Queue!Wrap(h + (i + 1) - 1)]
    BY <1>2, <2>1
  <2> QED
    BY <1>2, <1>4, <1>5, <2>2
<1>7. Tail(s) = q
  BY <1>2, <1>5, <1>6, SeqEqual
<1> QED
  BY <1>2, <1>3, <1>7 DEF s, q

\* A store behind the last of them changes none.
LEMMA ItemsUntouched ==
  ASSUME NEW b \in [Queue!Slot -> QueueData], NEW h \in Queue!Slot,
         NEW n \in 0 .. QueueCapacity, NEW m \in 0 .. QueueCapacity - 1, n <= m, NEW d
  PROVE  Items([b EXCEPT ![Queue!Wrap(h + m)] = d], h, n) = Items(b, h, n)
<1>1. \A i \in 1 .. n : /\ Queue!Wrap(h + i - 1) # Queue!Wrap(h + m)
                        /\ Queue!Wrap(h + i - 1) \in Queue!Slot
  <2> TAKE i \in 1 .. n
  <2>1. /\ h + i - 1 \in 0 .. 2 * QueueCapacity - 1
        /\ h + m \in 0 .. 2 * QueueCapacity - 1
    BY DEF Queue!Slot
  <2> QED
    BY <2>1, WrapIs DEF Queue!Slot
<1> QED
  BY <1>1 DEF Items

LEMMA ContentsAre == Queue!Contents = Items(q_buffer, q_head, Queue!Length)
BY DEF Queue!Contents, Items
-----------------------------------------------------------------------------
(* The queue's invariant                                                   *)

PType == [pc : {"rest", "store", "advance", "count", "counting"}, item : QueueData,
          seen : 0 .. QueueCapacity]
CType == [pc : {"rest", "load", "advance", "count", "counting", "peek"},
          seen : 0 .. QueueCapacity]

\* What holds even if a change of count was lost: count is in range, and the value
\* that a side has loaded is no further from its bound than count is.
QueueTyped ==
  /\ Queue!TypeOK
  /\ q_p.pc # "rest" => q_count < QueueCapacity
  /\ q_c.pc # "rest" => q_count > 0
  /\ q_p.pc = "counting" => q_count <= q_p.seen /\ q_p.seen < QueueCapacity
  /\ q_c.pc = "counting" => q_c.seen <= q_count /\ q_c.seen > 0

\* What a lost change spoils: what is counted, or stored behind tail and not counted
\* yet, is between the indices, and the item that a dequeue has loaded is still the
\* oldest one.
QueueWhole ==
  /\ q_tail = Queue!Wrap(q_head + Queue!Length + (IF Queue!Uncounted THEN 1 ELSE 0))
  /\ q_c.pc = "advance" => q_out = q_buffer[q_head]

QueueInv == QueueTyped /\ (~q_lost => QueueWhole)

\* The parts of the first.
LEMMA TypedParts ==
  QueueTyped <=>
    /\ q_buffer \in [Queue!Slot -> QueueData]
    /\ q_head \in Queue!Slot /\ q_tail \in Queue!Slot
    /\ q_count \in 0 .. QueueCapacity /\ q_out \in QueueData /\ q_mode \in Modes
    /\ q_lost \in BOOLEAN
    /\ q_p \in PType /\ q_c \in CType
    /\ q_p.pc # "rest" => q_count < QueueCapacity
    /\ q_c.pc # "rest" => q_count > 0
    /\ q_p.pc = "counting" => q_count <= q_p.seen /\ q_p.seen < QueueCapacity
    /\ q_c.pc = "counting" => q_c.seen <= q_count /\ q_c.seen > 0
BY DEF QueueTyped, Queue!TypeOK, PType, CType

LEMMA TypedPartsNext ==
  QueueTyped' <=>
    /\ q_buffer' \in [Queue!Slot -> QueueData]
    /\ q_head' \in Queue!Slot /\ q_tail' \in Queue!Slot
    /\ q_count' \in 0 .. QueueCapacity /\ q_out' \in QueueData /\ q_mode' \in Modes
    /\ q_lost' \in BOOLEAN
    /\ q_p' \in PType /\ q_c' \in CType
    /\ q_p'.pc # "rest" => q_count' < QueueCapacity
    /\ q_c'.pc # "rest" => q_count' > 0
    /\ q_p'.pc = "counting" => q_count' <= q_p'.seen /\ q_p'.seen < QueueCapacity
    /\ q_c'.pc = "counting" => q_c'.seen <= q_count' /\ q_c'.seen > 0
BY DEF QueueTyped, Queue!TypeOK, PType, CType

LEMMA WholeNext ==
  QueueWhole' <=>
    /\ q_tail' = Queue!Wrap(q_head' + Queue!Length'
                              + (IF Queue!Uncounted' THEN 1 ELSE 0))
    /\ q_c'.pc = "advance" => q_out' = q_buffer'[q_head']
BY DEF QueueWhole

LEMMA QueueInit ==
  ASSUME Queue!Init
  PROVE  QueueInv
<1>1. 0 \in Queue!Slot /\ Queue!Wrap(0) = 0 /\ 0 \in 0 .. QueueCapacity
  BY DEF Queue!Slot, Queue!Wrap
<1>2. q_p \in PType /\ q_p.pc = "rest" /\ q_c \in CType /\ q_c.pc = "rest"
  BY <1>1 DEF Queue!Init, PType, CType
<1>3. Queue!Length = 0 /\ ~Queue!Uncounted
  BY <1>2 DEF Queue!Length, Queue!StillCounted, Queue!Uncounted, Queue!Init
<1>4. QueueTyped
  BY <1>1, <1>2, TypedParts DEF Queue!Init
<1>5. QueueWhole
  <2>1. q_tail = Queue!Wrap(q_head + Queue!Length + 0)
    BY <1>1, <1>3 DEF Queue!Init
  <2> QED
    BY <1>2, <1>3, <2>1 DEF QueueWhole
<1> QED
  BY <1>4, <1>5 DEF QueueInv

-----------------------------------------------------------------------------
(* What holds in any case                                                  *)

\* A change of a call's progress that stays within its type.
LEMMA CallSteps ==
  ASSUME QueueTyped
  PROVE  /\ \A x \in {"rest", "store", "advance", "count"} :
              LET r == [q_p EXCEPT !.pc = x] IN r \in PType /\ r.pc = x
         /\ \A x \in {"rest", "load", "advance", "count", "peek"} :
              LET r == [q_c EXCEPT !.pc = x] IN r \in CType /\ r.pc = x
BY TypedParts DEF PType, CType

\* What count++ and count-- note.
LEMMA CountSteps ==
  ASSUME QueueTyped
  PROVE  /\ LET r == [q_p EXCEPT !.pc = "counting", !.seen = q_count]
            IN r \in PType /\ r.pc = "counting" /\ r.seen = q_count
         /\ LET r == [q_p EXCEPT !.pc = "rest", !.seen = 0]
            IN r \in PType /\ r.pc = "rest"
         /\ LET r == [q_c EXCEPT !.pc = "counting", !.seen = q_count]
            IN r \in CType /\ r.pc = "counting" /\ r.seen = q_count
<1>1. q_count \in 0 .. QueueCapacity /\ 0 \in 0 .. QueueCapacity
      /\ q_p \in PType /\ q_c \in CType
  BY TypedParts
<1> QED
  BY <1>1 DEF PType, CType

LEMMA TypedProducer ==
  ASSUME QueueTyped, NEW x \in QueueData,
         \/ Queue!EnqueueBegin(x) \/ Queue!EnqueueStore \/ Queue!EnqueueAdvance
         \/ Queue!EnqueueLoadCount \/ Queue!EnqueueStoreCount
  PROVE  QueueTyped'
<1>0. /\ q_buffer \in [Queue!Slot -> QueueData]
      /\ q_head \in Queue!Slot /\ q_tail \in Queue!Slot
      /\ q_count \in 0 .. QueueCapacity /\ q_out \in QueueData /\ q_mode \in Modes
      /\ q_lost \in BOOLEAN
      /\ q_p \in PType /\ q_c \in CType
      /\ q_p.pc # "rest" => q_count < QueueCapacity
      /\ q_c.pc # "rest" => q_count > 0
      /\ q_p.pc = "counting" => q_count <= q_p.seen /\ q_p.seen < QueueCapacity
      /\ q_c.pc = "counting" => q_c.seen <= q_count /\ q_c.seen > 0
      /\ 0 \in 0 .. QueueCapacity
  BY TypedParts
<1>1. q_head' = q_head /\ q_c' = q_c /\ q_out' = q_out /\ q_mode' = q_mode
  BY DEF Queue!EnqueueBegin, Queue!EnqueueStore, Queue!EnqueueAdvance,
         Queue!EnqueueLoadCount, Queue!EnqueueStoreCount
<1>2. CASE Queue!EnqueueBegin(x)
  <2>1. /\ q_p' = [pc |-> "store", item |-> x, seen |-> 0]
        /\ q_count # QueueCapacity
        /\ UNCHANGED <<q_buffer, q_tail, q_count, q_lost>>
    BY <1>2 DEF Queue!EnqueueBegin, Queue!IsFull
  <2>2. q_p' \in PType /\ q_p'.pc = "store"
    BY <2>1 DEF PType
  <2> QED
    BY <1>0, <1>1, <2>1, <2>2, TypedPartsNext
<1>3. CASE Queue!EnqueueStore
  <2>1. /\ q_p' = [q_p EXCEPT !.pc = "advance"] /\ q_p.pc = "store"
        /\ q_buffer' = [q_buffer EXCEPT ![q_tail] = q_p.item]
        /\ UNCHANGED <<q_tail, q_count, q_lost>>
    BY <1>3 DEF Queue!EnqueueStore
  <2>2. q_p' \in PType /\ q_p'.pc = "advance"
    BY <1>0, <2>1, CallSteps
  <2>3. q_buffer' \in [Queue!Slot -> QueueData]
    BY <1>0, <2>1 DEF PType
  <2> QED
    BY <1>0, <1>1, <2>1, <2>2, <2>3, TypedPartsNext
<1>4. CASE Queue!EnqueueAdvance
  <2>1. /\ q_p' = [q_p EXCEPT !.pc = "count"] /\ q_p.pc = "advance"
        /\ q_tail' = Queue!Advance(q_tail)
        /\ UNCHANGED <<q_buffer, q_count, q_lost>>
    BY <1>4 DEF Queue!EnqueueAdvance
  <2>2. q_p' \in PType /\ q_p'.pc = "count"
    BY <1>0, <2>1, CallSteps
  <2>3. q_tail' \in Queue!Slot
    <3>1. 0 \in 0 .. QueueCapacity - 1
      OBVIOUS
    <3> QED
      BY <1>0, <2>1, <3>1, Steps
  <2> QED
    BY <1>0, <1>1, <2>1, <2>2, <2>3, TypedPartsNext
<1>5. CASE Queue!EnqueueLoadCount
  <2>1. /\ q_p' = [q_p EXCEPT !.pc = "counting", !.seen = q_count] /\ q_p.pc = "count"
        /\ UNCHANGED <<q_buffer, q_tail, q_count, q_lost>>
    BY <1>5 DEF Queue!EnqueueLoadCount
  <2>2. q_p' \in PType /\ q_p'.pc = "counting" /\ q_p'.seen = q_count
    BY <1>0, <2>1, CountSteps
  <2> QED
    BY <1>0, <1>1, <2>1, <2>2, TypedPartsNext
<1>6. CASE Queue!EnqueueStoreCount
  <2>1. /\ q_p' = [q_p EXCEPT !.pc = "rest", !.seen = 0] /\ q_p.pc = "counting"
        /\ q_count' = q_p.seen + 1
        /\ q_lost' \in BOOLEAN
        /\ UNCHANGED <<q_buffer, q_tail>>
    BY <1>0, <1>6 DEF Queue!EnqueueStoreCount
  <2>2. q_p' \in PType /\ q_p'.pc = "rest"
    BY <1>0, <2>1, CountSteps
  <2>3. q_count' \in 0 .. QueueCapacity /\ q_count' > q_count
    <3>1. q_p.seen \in 0 .. QueueCapacity
      BY <1>0 DEF PType
    <3> QED
      BY <1>0, <2>1, <3>1
  <2>4. q_c.pc = "counting" => q_c.seen <= q_count'
    <3>1. q_c.seen \in 0 .. QueueCapacity
      BY <1>0 DEF CType
    <3> QED
      BY <1>0, <2>3, <3>1
  <2>5. q_c.pc # "rest" => q_count' > 0
    BY <1>0, <2>3
  <2> QED
    BY <1>0, <1>1, <2>1, <2>2, <2>3, <2>4, <2>5, TypedPartsNext
<1> QED
  BY <1>2, <1>3, <1>4, <1>5, <1>6

LEMMA TypedConsumer ==
  ASSUME QueueTyped,
         \/ Queue!DequeueBegin \/ Queue!DequeueLoad \/ Queue!DequeueAdvance
         \/ Queue!DequeueLoadCount \/ Queue!DequeueStoreCount
         \/ Queue!PeekBegin \/ Queue!PeekLoad \/ Queue!Reset
  PROVE  QueueTyped'
<1>0. /\ q_buffer \in [Queue!Slot -> QueueData]
      /\ q_head \in Queue!Slot /\ q_tail \in Queue!Slot
      /\ q_count \in 0 .. QueueCapacity /\ q_out \in QueueData /\ q_mode \in Modes
      /\ q_lost \in BOOLEAN
      /\ q_p \in PType /\ q_c \in CType
      /\ q_p.pc # "rest" => q_count < QueueCapacity
      /\ q_c.pc # "rest" => q_count > 0
      /\ q_p.pc = "counting" => q_count <= q_p.seen /\ q_p.seen < QueueCapacity
      /\ q_c.pc = "counting" => q_c.seen <= q_count /\ q_c.seen > 0
      /\ 0 \in 0 .. QueueCapacity
  BY TypedParts
<1>1. q_p' = q_p /\ q_buffer' = q_buffer /\ q_mode' = q_mode
  BY DEF Queue!DequeueBegin, Queue!DequeueLoad, Queue!DequeueAdvance,
         Queue!DequeueLoadCount, Queue!DequeueStoreCount,
         Queue!PeekBegin, Queue!PeekLoad, Queue!Reset
<1>2. CASE Queue!DequeueBegin \/ Queue!PeekBegin
  <2>1. /\ q_c' \in {[pc |-> "load", seen |-> 0], [pc |-> "peek", seen |-> 0]}
        /\ q_count # 0
        /\ UNCHANGED <<q_head, q_tail, q_count, q_out, q_lost>>
    BY <1>2 DEF Queue!DequeueBegin, Queue!PeekBegin, Queue!IsEmpty
  <2>2. q_c' \in CType /\ q_c'.pc \in {"load", "peek"}
    BY <2>1 DEF CType
  <2> QED
    BY <1>0, <1>1, <2>1, <2>2, TypedPartsNext
<1>3. CASE Queue!DequeueLoad \/ Queue!PeekLoad
  <2>1. /\ \/ q_c' = [q_c EXCEPT !.pc = "advance"] /\ q_c.pc = "load"
           \/ q_c' = [q_c EXCEPT !.pc = "rest"] /\ q_c.pc = "peek"
        /\ q_out' = q_buffer[q_head]
        /\ UNCHANGED <<q_head, q_tail, q_count, q_lost>>
    BY <1>3 DEF Queue!DequeueLoad, Queue!PeekLoad
  <2>2. q_c' \in CType /\ q_c'.pc \in {"advance", "rest"} /\ q_c.pc # "rest"
    BY <1>0, <2>1, CallSteps
  <2>3. q_out' \in QueueData
    BY <1>0, <2>1
  <2> QED
    BY <1>0, <1>1, <2>1, <2>2, <2>3, TypedPartsNext
<1>4. CASE Queue!DequeueAdvance
  <2>1. /\ q_c' = [q_c EXCEPT !.pc = "count"] /\ q_c.pc = "advance"
        /\ q_head' = Queue!Advance(q_head)
        /\ UNCHANGED <<q_tail, q_count, q_out, q_lost>>
    BY <1>4 DEF Queue!DequeueAdvance
  <2>2. q_c' \in CType /\ q_c'.pc = "count"
    BY <1>0, <2>1, CallSteps
  <2>3. q_head' \in Queue!Slot
    <3>1. 0 \in 0 .. QueueCapacity - 1
      OBVIOUS
    <3> QED
      BY <1>0, <2>1, <3>1, Steps
  <2> QED
    BY <1>0, <1>1, <2>1, <2>2, <2>3, TypedPartsNext
<1>5. CASE Queue!DequeueLoadCount
  <2>1. /\ q_c' = [q_c EXCEPT !.pc = "counting", !.seen = q_count] /\ q_c.pc = "count"
        /\ UNCHANGED <<q_head, q_tail, q_count, q_out, q_lost>>
    BY <1>5 DEF Queue!DequeueLoadCount
  <2>2. q_c' \in CType /\ q_c'.pc = "counting" /\ q_c'.seen = q_count
    BY <1>0, <2>1, CountSteps
  <2> QED
    BY <1>0, <1>1, <2>1, <2>2, TypedPartsNext
<1>6. CASE Queue!DequeueStoreCount
  <2>1. /\ q_c' = [pc |-> "rest", seen |-> 0] /\ q_c.pc = "counting"
        /\ q_count' = q_c.seen - 1
        /\ q_lost' \in BOOLEAN
        /\ UNCHANGED <<q_head, q_tail, q_out>>
    BY <1>0, <1>6 DEF Queue!DequeueStoreCount
  <2>2. q_c' \in CType /\ q_c'.pc = "rest"
    BY <2>1 DEF CType
  <2>3. q_count' \in 0 .. QueueCapacity /\ q_count' < q_count
    <3>1. q_c.seen \in 0 .. QueueCapacity
      BY <1>0 DEF CType
    <3> QED
      BY <1>0, <2>1, <3>1
  <2>4. q_p.pc = "counting" => q_count' <= q_p.seen
    <3>1. q_p.seen \in 0 .. QueueCapacity
      BY <1>0 DEF PType
    <3> QED
      BY <1>0, <2>3, <3>1
  <2>5. q_p.pc # "rest" => q_count' < QueueCapacity
    BY <1>0, <2>3
  <2> QED
    BY <1>0, <1>1, <2>1, <2>2, <2>3, <2>4, <2>5, TypedPartsNext
<1>7. CASE Queue!Reset
  <2>1. /\ q_head' = 0 /\ q_tail' = 0 /\ q_count' = 0 /\ q_lost' = FALSE
        /\ q_p.pc = "rest" /\ q_c.pc = "rest"
        /\ UNCHANGED <<q_c, q_out>>
    BY <1>7 DEF Queue!Reset
  <2>2. 0 \in Queue!Slot
    BY DEF Queue!Slot
  <2> QED
    BY <1>0, <1>1, <2>1, <2>2, TypedPartsNext
<1> QED
  BY <1>2, <1>3, <1>4, <1>5, <1>6, <1>7

-----------------------------------------------------------------------------
(* What holds until a change of count is lost                              *)

\* The number of items that the queue holds.
LEMMA LengthIs ==
  ASSUME QueueTyped, QueueWhole
  PROVE  /\ Queue!Length \in 0 .. QueueCapacity
         /\ q_p.pc # "rest" => Queue!Length \in 0 .. QueueCapacity - 1
         /\ (q_c.pc # "rest" /\ ~Queue!StillCounted) => Queue!Length \in 1 .. QueueCapacity
         /\ ~Queue!Uncounted => q_tail = Queue!Wrap(q_head + Queue!Length)
         /\ Queue!Uncounted => q_tail = Queue!Wrap(q_head + (Queue!Length + 1))
<1>1. /\ q_count \in 0 .. QueueCapacity /\ q_head \in Int
      /\ q_p.pc # "rest" => q_count < QueueCapacity
      /\ q_c.pc # "rest" => q_count > 0
      /\ q_tail = Queue!Wrap(q_head + Queue!Length + (IF Queue!Uncounted THEN 1 ELSE 0))
  BY TypedParts DEF QueueWhole, Queue!Slot
<1>2. /\ Queue!Length \in 0 .. QueueCapacity
      /\ q_p.pc # "rest" => Queue!Length \in 0 .. QueueCapacity - 1
      /\ (q_c.pc # "rest" /\ ~Queue!StillCounted) => Queue!Length \in 1 .. QueueCapacity
  BY <1>1 DEF Queue!Length, Queue!StillCounted
<1>3. CASE ~Queue!Uncounted
  <2>1. q_head + Queue!Length + 0 = q_head + Queue!Length
    BY <1>1, <1>2
  <2> QED
    BY <1>1, <1>2, <1>3, <2>1
<1>4. CASE Queue!Uncounted
  <2>1. q_head + Queue!Length + 1 = q_head + (Queue!Length + 1)
    BY <1>1, <1>2
  <2> QED
    BY <1>1, <1>2, <1>4, <2>1
<1> QED
  BY <1>3, <1>4

\* What a step does to the queue that its users see.
QueueStays == Queue!Contents' = Queue!Contents /\ q_out' = q_out
QueueTakes == \/ Queue!Contents # <<>> /\ q_out' = Head(Queue!Contents)
                /\ Queue!Contents' = Queue!Contents
              \/ Queue!Contents # <<>> /\ q_out = Head(Queue!Contents)
                /\ Queue!Contents' = Tail(Queue!Contents) /\ q_out' = q_out
              \/ \E d \in QueueData :
                   /\ Len(Queue!Contents) < QueueCapacity
                   /\ Queue!Contents' = Append(Queue!Contents, d) /\ q_out' = q_out

LEMMA ProducerStep ==
  ASSUME QueueTyped, QueueWhole, ~q_lost', NEW x \in QueueData,
         \/ Queue!EnqueueBegin(x) \/ Queue!EnqueueStore \/ Queue!EnqueueAdvance
         \/ Queue!EnqueueLoadCount \/ Queue!EnqueueStoreCount
  PROVE  QueueWhole' /\ (QueueStays \/ QueueTakes)
<1> USE DEF QueueStays
<1> DEFINE n == Queue!Length
<1>0. /\ q_buffer \in [Queue!Slot -> QueueData]
      /\ q_head \in Queue!Slot /\ q_tail \in Queue!Slot
      /\ q_count \in 0 .. QueueCapacity /\ q_out \in QueueData /\ q_mode \in Modes
      /\ q_p \in PType /\ q_c \in CType
      /\ q_p.pc # "rest" => q_count < QueueCapacity
      /\ q_c.pc # "rest" => q_count > 0
      /\ q_c.pc = "advance" => q_out = q_buffer[q_head]
  BY TypedParts DEF QueueWhole
<1>1. /\ n \in 0 .. QueueCapacity
      /\ q_p.pc # "rest" => n \in 0 .. QueueCapacity - 1
      /\ (q_c.pc # "rest" /\ ~Queue!StillCounted) => n \in 1 .. QueueCapacity
      /\ ~Queue!Uncounted => q_tail = Queue!Wrap(q_head + n)
      /\ Queue!Uncounted => q_tail = Queue!Wrap(q_head + (n + 1))
  BY LengthIs
<1>2. /\ q_head' = q_head /\ q_c' = q_c /\ q_out' = q_out /\ q_mode' = q_mode
  BY DEF Queue!EnqueueBegin, Queue!EnqueueStore, Queue!EnqueueAdvance,
         Queue!EnqueueLoadCount, Queue!EnqueueStoreCount
<1>3. CASE Queue!EnqueueBegin(x)
  <2>1. /\ q_p' = [pc |-> "store", item |-> x, seen |-> 0] /\ q_p.pc = "rest"
        /\ UNCHANGED <<q_buffer, q_tail, q_count>>
    BY <1>3 DEF Queue!EnqueueBegin
  <2>2. ~Queue!Uncounted /\ ~Queue!Uncounted'
    BY <2>1 DEF Queue!Uncounted
  <2>3. Queue!Length' = n /\ Queue!Contents' = Queue!Contents
    BY <1>2, <2>1 DEF Queue!Length, Queue!StillCounted, Queue!Contents
  <2>4. q_tail' = Queue!Wrap(q_head' + Queue!Length' + 0)
    <3>1. q_head + n + 0 = q_head + n
      BY <1>0, <1>1 DEF Queue!Slot
    <3> QED
      BY <1>1, <1>2, <2>1, <2>2, <2>3, <3>1
  <2> QED
    BY <1>0, <1>2, <2>1, <2>2, <2>3, <2>4, WholeNext
<1>4. CASE Queue!EnqueueStore
  <2>1. /\ q_p' = [q_p EXCEPT !.pc = "advance"] /\ q_p.pc = "store"
        /\ q_buffer' = [q_buffer EXCEPT ![q_tail] = q_p.item]
        /\ UNCHANGED <<q_tail, q_count>>
    BY <1>4 DEF Queue!EnqueueStore
  <2>2. q_p'.pc = "advance" /\ ~Queue!Uncounted /\ ~Queue!Uncounted'
    <3>1. q_p'.pc = "advance"
      BY <1>0, <2>1, CallSteps
    <3> QED
      BY <2>1, <3>1 DEF Queue!Uncounted
  <2>3. Queue!Length' = n
    BY <1>2, <2>1 DEF Queue!Length, Queue!StillCounted
  <2>5. PICK m \in 0 .. QueueCapacity - 1 : m = n
    BY <1>1, <2>1
  <2>0. q_tail = Queue!Wrap(q_head + m)
    BY <1>1, <2>2, <2>5
  <2>6. Items(q_buffer', q_head, m) = Items(q_buffer, q_head, m)
    <3>1. m \in 0 .. QueueCapacity /\ m <= m
      OBVIOUS
    <3>2. Items([q_buffer EXCEPT ![Queue!Wrap(q_head + m)] = q_p.item], q_head, m)
            = Items(q_buffer, q_head, m)
      BY <1>0, <3>1, ItemsUntouched
    <3> QED
      BY <2>0, <2>1, <3>2
  <2>7. Queue!Contents' = Queue!Contents
    BY <1>2, <2>3, <2>5, <2>6 DEF Queue!Contents, Items
  <2>8. q_c.pc = "advance" => q_out = q_buffer'[q_head]
    <3>1. q_c.pc = "advance" => m \in 1 .. QueueCapacity - 1
      BY <1>1, <2>5 DEF Queue!StillCounted
    <3>2. q_c.pc = "advance" => q_head # q_tail
      <4>1. q_head \in 0 .. QueueCapacity - 1
        BY <1>0 DEF Queue!Slot
      <4>2. PICK i \in 0 .. 2 * QueueCapacity - 1 : i = q_head + m
        BY <4>1
      <4>3. Queue!Wrap(i) = IF i < QueueCapacity THEN i ELSE i - QueueCapacity
        BY WrapIs
      <4>4. q_tail = Queue!Wrap(i)
        BY <2>0, <4>2
      <4> QED
        BY <3>1, <4>1, <4>2, <4>3, <4>4
    <3> QED
      BY <1>0, <2>1, <3>2
  <2>9. q_tail' = Queue!Wrap(q_head' + Queue!Length' + 0)
    <3>1. q_head + n + 0 = q_head + n
      BY <1>0, <1>1 DEF Queue!Slot
    <3> QED
      BY <1>1, <1>2, <2>1, <2>2, <2>3, <3>1
  <2> QED
    BY <1>0, <1>2, <2>1, <2>2, <2>7, <2>8, <2>9, WholeNext
<1>5. CASE Queue!EnqueueAdvance
  <2>1. /\ q_p' = [q_p EXCEPT !.pc = "count"] /\ q_p.pc = "advance"
        /\ q_tail' = Queue!Advance(q_tail)
        /\ UNCHANGED <<q_buffer, q_count>>
    BY <1>5 DEF Queue!EnqueueAdvance
  <2>2. ~Queue!Uncounted /\ Queue!Uncounted'
    <3>1. q_p'.pc = "count"
      BY <1>0, <2>1, CallSteps
    <3> QED
      BY <2>1, <3>1 DEF Queue!Uncounted
  <2>3. Queue!Length' = n /\ Queue!Contents' = Queue!Contents
    BY <1>2, <2>1 DEF Queue!Length, Queue!StillCounted, Queue!Contents
  <2>4. PICK m \in 0 .. QueueCapacity - 1 : m = n
    BY <1>1, <2>1
  <2>5. q_tail' = Queue!Wrap(q_head + (m + 1))
    <3>1. Queue!Advance(Queue!Wrap(q_head + m)) = Queue!Wrap(q_head + (m + 1))
      BY <1>0, <2>4, Steps
    <3> QED
      BY <1>1, <2>1, <2>2, <2>4, <3>1
  <2>6. q_tail' = Queue!Wrap(q_head' + Queue!Length' + 1)
    <3>1. q_head + m + 1 = q_head + (m + 1)
      BY <1>0 DEF Queue!Slot
    <3> QED
      BY <1>2, <2>3, <2>4, <2>5, <3>1
  <2> QED
    BY <1>0, <1>2, <2>1, <2>2, <2>3, <2>6, WholeNext
<1>7. CASE Queue!EnqueueLoadCount
  <2>1. /\ q_p' = [q_p EXCEPT !.pc = "counting", !.seen = q_count] /\ q_p.pc = "count"
        /\ UNCHANGED <<q_buffer, q_tail, q_count>>
    BY <1>7 DEF Queue!EnqueueLoadCount
  <2>2. Queue!Uncounted /\ Queue!Uncounted'
    <3>1. q_p'.pc = "counting"
      BY <1>0, <2>1, CountSteps
    <3> QED
      BY <2>1, <3>1 DEF Queue!Uncounted
  <2>3. Queue!Length' = n /\ Queue!Contents' = Queue!Contents
    BY <1>2, <2>1 DEF Queue!Length, Queue!StillCounted, Queue!Contents
  <2> QED
    BY <1>2, <2>1, <2>2, <2>3, WholeNext DEF QueueWhole
<1>6. CASE Queue!EnqueueStoreCount
  <2>1. /\ q_p' = [q_p EXCEPT !.pc = "rest", !.seen = 0] /\ q_p.pc = "counting"
        /\ q_count' = q_count + 1
        /\ UNCHANGED <<q_buffer, q_tail>>
    BY <1>6 DEF Queue!EnqueueStoreCount
  <2>2. Queue!Uncounted /\ ~Queue!Uncounted'
    <3>1. q_p'.pc = "rest"
      BY <1>0, <2>1, CountSteps
    <3> QED
      BY <2>1, <3>1 DEF Queue!Uncounted
  <2>3. PICK m \in 0 .. QueueCapacity - 1 : m = n
    BY <1>1, <2>1
  <2>4. Queue!Length' = m + 1
    BY <1>0, <1>2, <2>1, <2>3 DEF Queue!Length, Queue!StillCounted
  <2>5. q_tail' = Queue!Wrap(q_head' + Queue!Length' + 0)
    <3>1. q_head + (m + 1) + 0 = q_head + (m + 1)
      BY <1>0 DEF Queue!Slot
    <3> QED
      BY <1>1, <1>2, <2>1, <2>2, <2>3, <2>4, <3>1
  <2>6. QueueWhole'
    BY <1>0, <1>2, <2>1, <2>2, <2>5, WholeNext
  <2>7. /\ Items(q_buffer, q_head, m + 1)
             = Append(Items(q_buffer, q_head, m), q_buffer[Queue!Wrap(q_head + m)])
        /\ q_buffer[Queue!Wrap(q_head + m)] \in QueueData
        /\ Len(Items(q_buffer, q_head, m)) = m
    <3>1. m \in 0 .. QueueCapacity
      OBVIOUS
    <3> QED
      BY <1>0, <3>1, ItemsGrow, ItemsFacts
  <2>8. Queue!Contents = Items(q_buffer, q_head, m)
        /\ Queue!Contents' = Items(q_buffer, q_head, m + 1)
    BY <1>2, <2>1, <2>3, <2>4 DEF Queue!Contents, Items
  <2>9. Len(Queue!Contents) < QueueCapacity
    BY <2>7, <2>8
  <2> QED
    BY <1>2, <2>6, <2>7, <2>8, <2>9 DEF QueueTakes
<1> QED
  BY <1>3, <1>4, <1>5, <1>6, <1>7

LEMMA ConsumerStep ==
  ASSUME QueueTyped, QueueWhole, ~q_lost',
         \/ Queue!DequeueBegin \/ Queue!DequeueLoad \/ Queue!DequeueAdvance
         \/ Queue!DequeueLoadCount \/ Queue!DequeueStoreCount
         \/ Queue!PeekBegin \/ Queue!PeekLoad
  PROVE  QueueWhole' /\ (QueueStays \/ QueueTakes)
<1> USE DEF QueueStays, QueueTakes
<1> DEFINE n == Queue!Length
           e == IF Queue!Uncounted THEN 1 ELSE 0
<1>0. /\ q_buffer \in [Queue!Slot -> QueueData]
      /\ q_head \in Queue!Slot /\ q_tail \in Queue!Slot
      /\ q_count \in 0 .. QueueCapacity /\ q_out \in QueueData /\ q_mode \in Modes
      /\ q_p \in PType /\ q_c \in CType
      /\ q_tail = Queue!Wrap(q_head + n + e)
      /\ q_p.pc # "rest" => q_count < QueueCapacity
      /\ q_c.pc # "rest" => q_count > 0
      /\ q_c.pc = "advance" => q_out = q_buffer[q_head]
  BY TypedParts DEF QueueWhole
<1>1. /\ n \in 0 .. QueueCapacity
      /\ (q_c.pc # "rest" /\ ~Queue!StillCounted) => n \in 1 .. QueueCapacity
  BY LengthIs
<1>2. /\ q_p' = q_p /\ q_buffer' = q_buffer /\ q_mode' = q_mode
      /\ Queue!Uncounted' = Queue!Uncounted
  <2>1. q_p' = q_p /\ q_buffer' = q_buffer /\ q_mode' = q_mode
    BY DEF Queue!DequeueBegin, Queue!DequeueLoad, Queue!DequeueAdvance,
           Queue!DequeueLoadCount, Queue!DequeueStoreCount, Queue!PeekBegin, Queue!PeekLoad
  <2> QED
    BY <2>1 DEF Queue!Uncounted
<1>3. ASSUME q_head' = q_head, q_tail' = q_tail, Queue!Length' = n
      PROVE  /\ q_tail' = Queue!Wrap(q_head' + Queue!Length'
                                       + (IF Queue!Uncounted' THEN 1 ELSE 0))
             /\ Queue!Contents' = Queue!Contents
  BY <1>0, <1>2, <1>3 DEF Queue!Contents
<1>4. CASE Queue!DequeueBegin \/ Queue!PeekBegin
  <2>1. /\ q_c' \in {[pc |-> "load", seen |-> 0], [pc |-> "peek", seen |-> 0]}
        /\ q_c.pc = "rest"
        /\ UNCHANGED <<q_head, q_tail, q_count, q_out>>
    BY <1>4 DEF Queue!DequeueBegin, Queue!PeekBegin
  <2>2. q_c'.pc \in {"load", "peek"}
    BY <2>1
  <2>3. Queue!Length' = n
    BY <2>1, <2>2 DEF Queue!Length, Queue!StillCounted
  <2> QED
    BY <1>0, <1>2, <1>3, <2>1, <2>2, <2>3, WholeNext
<1>5. CASE Queue!DequeueLoad \/ Queue!PeekLoad
  <2>1. /\ \/ q_c' = [q_c EXCEPT !.pc = "advance"] /\ q_c.pc = "load"
           \/ q_c' = [q_c EXCEPT !.pc = "rest"] /\ q_c.pc = "peek"
        /\ q_out' = q_buffer[q_head]
        /\ UNCHANGED <<q_head, q_tail, q_count>>
    BY <1>5 DEF Queue!DequeueLoad, Queue!PeekLoad
  <2>2. q_c'.pc \in {"advance", "rest"} /\ q_c.pc \in {"load", "peek"}
    BY <1>0, <2>1, CallSteps
  <2>3. Queue!Length' = n
    BY <2>1, <2>2 DEF Queue!Length, Queue!StillCounted
  <2>4. QueueWhole'
    BY <1>0, <1>2, <1>3, <2>1, <2>2, <2>3, WholeNext
  <2>5. Queue!Contents # <<>> /\ Head(Queue!Contents) = q_buffer[q_head]
    <3>1. n \in 1 .. QueueCapacity
      BY <1>1, <2>2 DEF Queue!StillCounted
    <3>2. Items(q_buffer, q_head, n) # <<>>
          /\ Head(Items(q_buffer, q_head, n)) = q_buffer[q_head]
      BY <1>0, <3>1, ItemsShrink
    <3> QED
      BY <3>2, ContentsAre
  <2> QED
    BY <1>3, <2>1, <2>3, <2>4, <2>5
<1>6. CASE Queue!DequeueAdvance
  <2>1. /\ q_c' = [q_c EXCEPT !.pc = "count"] /\ q_c.pc = "advance"
        /\ q_head' = Queue!Advance(q_head)
        /\ UNCHANGED <<q_tail, q_count, q_out>>
    BY <1>6 DEF Queue!DequeueAdvance
  <2>2. q_c'.pc = "count" /\ ~Queue!StillCounted
    <3>1. q_c'.pc = "count"
      BY <1>0, <2>1, CallSteps
    <3> QED
      BY <2>1, <3>1 DEF Queue!StillCounted
  <2>3. PICK m \in 0 .. QueueCapacity - 1 : m = n - 1
    BY <1>1, <2>1, <2>2
  <2>4. Queue!Length' = m /\ n = m + 1
    BY <1>0, <1>1, <2>1, <2>2, <2>3 DEF Queue!Length, Queue!StillCounted
  <2>5. q_head' \in Queue!Slot
        /\ q_tail' = Queue!Wrap(q_head' + Queue!Length'
                                  + (IF Queue!Uncounted' THEN 1 ELSE 0))
    <3>1. PICK j \in 0 .. QueueCapacity - 1 : j = m + e
      <4>1. Queue!Uncounted => q_count < QueueCapacity
        BY <1>0 DEF Queue!Uncounted
      <4> QED
        BY <1>0, <2>1, <2>2, <2>3, <2>4, <4>1 DEF Queue!Length
    <3>2. q_head' \in Queue!Slot /\ Queue!Wrap(q_head' + j) = Queue!Wrap(q_head + (j + 1))
      BY <1>0, <2>1, Steps
    <3>3. q_head' + m + e = q_head' + j /\ q_head + n + e = q_head + (j + 1)
      BY <1>0, <2>4, <3>1, <3>2 DEF Queue!Slot
    <3>4. q_tail' = Queue!Wrap(q_head' + m + e)
      BY <1>0, <2>1, <3>2, <3>3
    <3> QED
      BY <1>2, <2>4, <3>2, <3>4
  <2>6. QueueWhole'
    BY <2>2, <2>5, WholeNext
  <2>7. /\ Queue!Contents # <<>> /\ q_out = Head(Queue!Contents)
        /\ Queue!Contents' = Tail(Queue!Contents)
    <3>1. n \in 1 .. QueueCapacity
      BY <1>1, <2>1, <2>2
    <3>2. /\ Items(q_buffer, q_head, n) # <<>>
          /\ Head(Items(q_buffer, q_head, n)) = q_buffer[q_head]
          /\ Tail(Items(q_buffer, q_head, n))
               = Items(q_buffer, Queue!Advance(q_head), n - 1)
      BY <1>0, <3>1, ItemsShrink
    <3>3. Queue!Contents' = Items(q_buffer, Queue!Advance(q_head), n - 1)
      BY <1>2, <2>1, <2>3, <2>4 DEF Queue!Contents, Items
    <3> QED
      BY <1>0, <2>1, <3>2, <3>3, ContentsAre
  <2> QED
    BY <2>1, <2>6, <2>7
<1>7. CASE Queue!DequeueLoadCount
  <2>1. /\ q_c' = [q_c EXCEPT !.pc = "counting", !.seen = q_count] /\ q_c.pc = "count"
        /\ UNCHANGED <<q_head, q_tail, q_count, q_out>>
    BY <1>7 DEF Queue!DequeueLoadCount
  <2>2. q_c'.pc = "counting"
    BY <1>0, <2>1, CountSteps
  <2>3. Queue!Length' = n
    BY <2>1, <2>2 DEF Queue!Length, Queue!StillCounted
  <2> QED
    BY <1>0, <1>2, <1>3, <2>1, <2>2, <2>3, WholeNext
<1>8. CASE Queue!DequeueStoreCount
  <2>1. /\ q_c' = [pc |-> "rest", seen |-> 0] /\ q_c.pc = "counting"
        /\ q_count' = q_count - 1
        /\ UNCHANGED <<q_head, q_tail, q_out>>
    BY <1>8 DEF Queue!DequeueStoreCount
  <2>2. Queue!Length' = n
    BY <2>1 DEF Queue!Length, Queue!StillCounted
  <2> QED
    BY <1>0, <1>2, <1>3, <2>1, <2>2, WholeNext
<1> QED
  BY <1>4, <1>5, <1>6, <1>7, <1>8

LEMMA ResetStep ==
  ASSUME Queue!Reset
  PROVE  QueueWhole' /\ Queue!Contents' = <<>> /\ q_out' = q_out /\ q_lost' = FALSE
<1>1. /\ q_head' = 0 /\ q_tail' = 0 /\ q_count' = 0 /\ q_lost' = FALSE
      /\ q_p'.pc = "rest" /\ q_c'.pc = "rest" /\ q_out' = q_out
  BY DEF Queue!Reset
<1>2. Queue!Length' = 0 /\ ~Queue!Uncounted'
  BY <1>1 DEF Queue!Length, Queue!StillCounted, Queue!Uncounted
<1>3. Queue!Wrap(0 + 0 + 0) = 0
  BY DEF Queue!Wrap
<1>4. QueueWhole'
  BY <1>1, <1>2, <1>3, WholeNext
<1>5. Queue!Contents' = <<>>
  BY <1>2 DEF Queue!Contents
<1> QED
  BY <1>1, <1>4, <1>5

LEMMA QueueNext ==
  ASSUME QueueInv, Queue!Next
  PROVE  QueueInv' /\ [Queue!Fifo!Next]_(Queue!Fifo!vars)
<1>1. QueueTyped /\ QueueTyped'
  <2>1. QueueTyped
    BY DEF QueueInv
  <2>2. ASSUME NEW x \in QueueData, Queue!EnqueueBegin(x) PROVE QueueTyped'
    BY <2>1, <2>2, TypedProducer
  <2>3. ASSUME Queue!EnqueueStore \/ Queue!EnqueueAdvance
                 \/ Queue!EnqueueLoadCount \/ Queue!EnqueueStoreCount
        PROVE  QueueTyped'
    <3>1. q_out \in QueueData
      BY <2>1, TypedParts
    <3> QED
      BY <2>1, <2>3, <3>1, TypedProducer
  <2>4. ASSUME \/ Queue!DequeueBegin \/ Queue!DequeueLoad \/ Queue!DequeueAdvance
               \/ Queue!DequeueLoadCount \/ Queue!DequeueStoreCount
               \/ Queue!PeekBegin \/ Queue!PeekLoad \/ Queue!Reset
        PROVE  QueueTyped'
    BY <2>1, <2>4, TypedConsumer
  <2> QED
    BY <2>1, <2>2, <2>3, <2>4 DEF Queue!Next
<1>2. CASE Queue!Reset
  <2>1. Queue!Fifo!Clear
    BY <1>2, ResetStep DEF Queue!Fifo!Clear
  <2> QED
    BY <1>1, <1>2, <2>1, ResetStep DEF QueueInv, Queue!Fifo!Next
<1>3. CASE q_lost'
  <2>1. Queue!Fifo!Break
    BY <1>1, <1>3, TypedPartsNext DEF Queue!Fifo!Break
  <2> QED
    BY <1>1, <1>3, <2>1 DEF QueueInv, Queue!Fifo!Next
<1>4. CASE ~Queue!Reset /\ ~q_lost'
  <2>1. ~q_lost /\ q_lost' = q_lost
    <3>1. q_lost \in BOOLEAN /\ q_lost' \in BOOLEAN
      BY <1>1, TypedParts, TypedPartsNext
    <3>2. q_lost => q_lost'
      BY <1>4 DEF Queue!Next, Queue!EnqueueBegin, Queue!EnqueueStore,
         Queue!EnqueueAdvance, Queue!EnqueueLoadCount, Queue!EnqueueStoreCount,
         Queue!DequeueBegin, Queue!DequeueLoad, Queue!DequeueAdvance,
         Queue!DequeueLoadCount, Queue!DequeueStoreCount, Queue!PeekBegin, Queue!PeekLoad
    <3> QED
      BY <1>4, <3>1, <3>2
  <2>2. QueueWhole
    BY <2>1 DEF QueueInv
  <2>3. QueueWhole' /\ (QueueStays \/ QueueTakes)
    <3>1. q_out \in QueueData
      BY <1>1, TypedParts
    <3> QED
      BY <1>1, <1>4, <2>2, <3>1, ProducerStep, ConsumerStep DEF Queue!Next
  <2>4. [Queue!Fifo!Next]_(Queue!Fifo!vars)
    BY <2>1, <2>3 DEF QueueStays, QueueTakes, Queue!Fifo!Next, Queue!Fifo!vars,
       Queue!Fifo!Peek, Queue!Fifo!Take, Queue!Fifo!Put
  <2> QED
    BY <1>1, <2>3, <2>4 DEF QueueInv
<1> QED
  BY <1>2, <1>3, <1>4

LEMMA QueueStutter ==
  ASSUME QueueInv, UNCHANGED Queue!vars
  PROVE  QueueInv' /\ [Queue!Fifo!Next]_(Queue!Fifo!vars)
<1>1. /\ Queue!Length' = Queue!Length /\ Queue!Contents' = Queue!Contents
      /\ Queue!Uncounted' = Queue!Uncounted
  BY DEF Queue!vars, Queue!Length, Queue!StillCounted, Queue!Uncounted, Queue!Contents
<1>2. QueueTyped'
  BY TypedParts, TypedPartsNext DEF QueueInv, Queue!vars
<1>3. QueueWhole => QueueWhole'
  BY <1>1 DEF QueueWhole, Queue!vars
<1> QED
  BY <1>1, <1>2, <1>3 DEF QueueInv, Queue!vars, Queue!Fifo!vars

\* The strengthened invariant of the queue: the bounds of count, the values loaded
\* for its changes, and, until one of them is lost, the indices and the item that a
\* dequeue has loaded and not given out.
THEOREM QueueHolds == Queue!Spec => []QueueInv
<1>1. Queue!Init => QueueInv
  BY QueueInit
<1>2. QueueInv /\ [Queue!Next]_(Queue!vars) => QueueInv'
  BY QueueNext, QueueStutter
<1> QED
  BY <1>1, <1>2, PTL DEF Queue!Spec

\* count, whose changes by producer and consumer may overwrite each other, always
\* leaves room for the item on its way in and an item for the one on its way out;
\* it agrees with the indices, between any two accesses, until a change is lost.
THEOREM CountAgrees == Queue!Spec => []IndicesMatchCount
<1>1. QueueInv => IndicesMatchCount
  BY DEF QueueInv, QueueTyped, QueueWhole, IndicesMatchCount, Queue!IndicesMatchCount
<1> QED
  BY <1>1, QueueHolds, PTL

\* The queue is first-in first-out and loses nothing, however the accesses of the
\* producer and the consumer interleave, from a reset until a change of count is lost.
THEOREM QueueImplementsFifo == Queue!Spec => ImplementsFifo
<1>1. Queue!Init => Queue!Fifo!Init
  <2>1. ASSUME Queue!Init
        PROVE  Queue!Contents = <<>> /\ q_out \in QueueData /\ q_lost = FALSE
    <3>1. Queue!Length = 0
      BY <2>1 DEF Queue!Init, Queue!Length, Queue!StillCounted
    <3> QED
      BY <2>1, <3>1 DEF Queue!Init, Queue!Contents
  <2> QED
    BY <2>1 DEF Queue!Fifo!Init
<1>2. QueueInv /\ [Queue!Next]_(Queue!vars) => [Queue!Fifo!Next]_(Queue!Fifo!vars)
  BY QueueNext, QueueStutter
<1> QED
  BY <1>1, <1>2, QueueHolds, PTL
     DEF Queue!Spec, ImplementsFifo, Queue!ImplementsFifo, Queue!Fifo!Spec

-----------------------------------------------------------------------------
(* The stack                                                               *)

LEMMA StackConstants == StackCapacity \in Nat \ {0}
BY StackAssumption DEF Stack!CapacityAssumption

\* Only what is below top counts: the storage above it may hold anything.
StackInv ==
  /\ stk_buffer \in [Stack!Slot -> StackItem]
  /\ stk_top \in 0 .. StackCapacity
  /\ stk_out \in StackItem

Stacked(b, n) == [i \in 1 .. n |-> b[i - 1]]

LEMMA StackedFacts ==
  ASSUME NEW b \in [Stack!Slot -> StackItem], NEW n \in 0 .. StackCapacity
  PROVE  /\ Stacked(b, n) \in Seq(StackItem)
         /\ Len(Stacked(b, n)) = n
         /\ \A i \in 1 .. n : Stacked(b, n)[i] = b[i - 1]
         /\ Stacked(b, n) = <<>> <=> n = 0
<1> USE StackConstants
<1>1. n \in Nat /\ \A i \in 1 .. n : i - 1 \in Stack!Slot
  BY DEF Stack!Slot
<1>2. Stacked(b, n) \in [1 .. n -> StackItem]
  BY <1>1 DEF Stacked
<1>3. Stacked(b, n) \in Seq(StackItem) /\ Len(Stacked(b, n)) = n
  BY <1>1, <1>2, SeqDef, LenProperties
<1>4. Stacked(b, n) = <<>> <=> n = 0
  BY <1>3, EmptyLen, Zenon
<1> QED
  BY <1>3, <1>4 DEF Stacked

\* A push adds the item above the others, and without the last one the others
\* are left.
LEMMA StackedGrows ==
  ASSUME NEW b \in [Stack!Slot -> StackItem], NEW n \in 0 .. StackCapacity - 1,
         NEW x \in StackItem
  PROVE  Stacked([b EXCEPT ![n] = x], n + 1) = Append(Stacked(b, n), x)
<1> USE StackConstants
<1> DEFINE c == [b EXCEPT ![n] = x]
           m == n + 1
           s == Stacked(b, n)
           t == Stacked(c, m)
<1>0. n \in Stack!Slot /\ n \in 0 .. StackCapacity /\ m \in 0 .. StackCapacity
      /\ \A i \in 1 .. m : i = m \/ i \in 1 .. n
  BY DEF Stack!Slot
<1>1. /\ c \in [Stack!Slot -> StackItem] /\ c[n] = x
      /\ \A i \in 1 .. n : c[i - 1] = b[i - 1]
  BY <1>0 DEF Stack!Slot
<1> HIDE DEF c, m
<1>2. /\ s \in Seq(StackItem) /\ Len(s) = n
      /\ \A i \in 1 .. n : s[i] = b[i - 1]
  BY <1>0, StackedFacts
<1>3. /\ t \in Seq(StackItem) /\ Len(t) = m
      /\ \A i \in 1 .. m : t[i] = c[i - 1]
  BY <1>0, <1>1, StackedFacts
<1> HIDE DEF s, t
<1>4. /\ Append(s, x) \in Seq(StackItem) /\ Len(Append(s, x)) = m
      /\ \A i \in 1 .. n : Append(s, x)[i] = s[i]
      /\ Append(s, x)[m] = x
  BY <1>2, AppendProperties DEF m
<1>5. \A i \in 1 .. m : t[i] = Append(s, x)[i]
  <2> TAKE i \in 1 .. m
  <2>1. CASE i = m
    <3>1. t[i] = c[n]
      BY <1>3, <2>1 DEF m
    <3> QED
      BY <1>1, <1>4, <2>1, <3>1
  <2>2. CASE i \in 1 .. n
    BY <1>1, <1>2, <1>3, <1>4, <2>2
  <2> QED
    BY <1>0, <2>1, <2>2
<1>6. t = Append(s, x)
  BY <1>3, <1>4, <1>5, SeqEqual
<1> QED
  BY <1>6 DEF s, t, c, m

LEMMA StackedShrinks ==
  ASSUME NEW b \in [Stack!Slot -> StackItem], NEW n \in 1 .. StackCapacity
  PROVE  LET s == Stacked(b, n)
         IN /\ s # <<>> /\ s[Len(s)] = b[n - 1]
            /\ Stacked(b, n - 1) = SubSeq(s, 1, Len(s) - 1)
<1> USE StackConstants
<1> DEFINE m == n - 1
           s == Stacked(b, n)
           t == Stacked(b, m)
<1>0. n \in 0 .. StackCapacity /\ m \in 0 .. StackCapacity /\ m <= n
  OBVIOUS
<1> HIDE DEF m
<1>1. /\ s \in Seq(StackItem) /\ Len(s) = n /\ s # <<>>
      /\ \A i \in 1 .. n : s[i] = b[i - 1]
  BY <1>0, StackedFacts
<1>2. /\ t \in Seq(StackItem) /\ Len(t) = m
      /\ \A i \in 1 .. m : t[i] = b[i - 1]
  BY <1>0, StackedFacts
<1> HIDE DEF s, t
<1>3. s[Len(s)] = b[m]
  BY <1>1 DEF m
<1>4. /\ SubSeq(s, 1, m) \in Seq(StackItem) /\ Len(SubSeq(s, 1, m)) = m
      /\ \A i \in 1 .. m : SubSeq(s, 1, m)[i] = s[i]
  <2>1. 1 \in 1 .. Len(s) + 1 /\ m \in 0 .. Len(s) /\ m \in 1 - 1 .. Len(s)
    BY <1>0, <1>1
  <2>2. \A i \in 1 .. m : 1 + i - 1 = i /\ i \in 1 .. m - 1 + 1
    BY <1>0
  <2>3. m - 1 + 1 = m
    BY <1>0
  <2> QED
    BY <1>1, <2>1, <2>2, <2>3, SubSeqProperties
<1>5. \A i \in 1 .. m : t[i] = SubSeq(s, 1, m)[i]
  <2> TAKE i \in 1 .. m
  <2>1. i \in 1 .. n
    BY <1>0
  <2>2. s[i] = b[i - 1]
    BY <1>1, <2>1
  <2>3. t[i] = b[i - 1]
    BY <1>2
  <2> QED
    BY <1>4, <2>2, <2>3
<1>6. t = SubSeq(s, 1, m)
  BY <1>2, <1>4, <1>5, SeqEqual
<1>7. Len(s) - 1 = m
  BY <1>1 DEF m
<1>8. t = SubSeq(s, 1, Len(s) - 1)
  BY <1>6, <1>7
<1> QED
  BY <1>1, <1>3, <1>8 DEF s, t, m

LEMMA StackStep ==
  ASSUME StackInv, Stack!Next
  PROVE  StackInv' /\ [Stack!Lifo!Next]_(Stack!Lifo!vars)
<1> USE StackConstants
<1> DEFINE n == stk_top
<1>0. /\ stk_buffer \in [Stack!Slot -> StackItem] /\ n \in 0 .. StackCapacity
      /\ stk_out \in StackItem /\ Stack!Contents = Stacked(stk_buffer, n)
      /\ Stack!Contents' = Stacked(stk_buffer', stk_top')
      /\ Len(Stack!Contents) = n
  <2>1. /\ Stack!Contents = Stacked(stk_buffer, n)
        /\ Stack!Contents' = Stacked(stk_buffer', stk_top')
    BY DEF Stack!Contents, Stacked
  <2> QED
    BY <2>1, StackedFacts DEF StackInv
<1>1. ASSUME NEW x \in StackItem, Stack!Push(x)
      PROVE  StackInv' /\ Stack!Lifo!Push(x)
  <2>1. /\ stk_buffer' = [stk_buffer EXCEPT ![n] = x] /\ stk_top' = n + 1
        /\ stk_out' = stk_out /\ n \in 0 .. StackCapacity - 1
    BY <1>0, <1>1 DEF Stack!Push, Stack!IsFull
  <2>2. StackInv'
    BY <1>0, <2>1 DEF StackInv, Stack!Slot
  <2>3. Stacked([stk_buffer EXCEPT ![n] = x], n + 1) = Append(Stacked(stk_buffer, n), x)
    BY <1>0, <2>1, StackedGrows
  <2>4. Stack!Contents' = Append(Stack!Contents, x)
    BY <1>0, <2>1, <2>3
  <2>5. Len(Stack!Contents) < StackCapacity
    <3>1. \A m \in 0 .. StackCapacity - 1 : m < StackCapacity
      OBVIOUS
    <3> QED
      BY <1>0, <2>1, <3>1
  <2> QED
    BY <2>1, <2>2, <2>4, <2>5, Zenon DEF Stack!Lifo!Push
<1>2. CASE n = 0 /\ (Stack!Pop \/ Stack!Peek)
  BY <1>2 DEF Stack!Pop, Stack!Peek, Stack!IsEmpty
<1>3. CASE n # 0 /\ (Stack!Pop \/ Stack!Peek)
  <2>1. /\ stk_buffer' = stk_buffer /\ stk_out' = stk_buffer[n - 1]
        /\ n - 1 \in Stack!Slot
        /\ \/ Stack!Pop /\ stk_top' = n - 1
           \/ Stack!Peek /\ stk_top' = n
    BY <1>0, <1>3 DEF Stack!Pop, Stack!Peek, Stack!Slot
  <2>2. StackInv'
    BY <1>0, <2>1 DEF StackInv, Stack!Slot
  <2>3. /\ Stack!Contents # <<>>
        /\ Stack!Contents[Len(Stack!Contents)] = stk_buffer[n - 1]
        /\ Stacked(stk_buffer, n - 1) = SubSeq(Stack!Contents, 1, Len(Stack!Contents) - 1)
    <3>1. n \in 1 .. StackCapacity
      BY <1>0, <1>3
    <3> QED
      BY <1>0, <3>1, StackedShrinks
  <2>4. Stack!Lifo!Show
    BY <2>1, <2>3 DEF Stack!Lifo!Show
  <2>5. Stack!Lifo!Pop \/ Stack!Lifo!Peek
    BY <1>0, <2>1, <2>3, <2>4 DEF Stack!Lifo!Pop, Stack!Lifo!Peek
  <2> QED
    BY <2>2, <2>5 DEF Stack!Lifo!Next
<1>4. CASE Stack!Reset
  <2>1. stk_top' = 0 /\ stk_buffer' = stk_buffer /\ stk_out' = stk_out
    BY <1>4 DEF Stack!Reset
  <2>2. StackInv' /\ Stack!Contents' = <<>>
    BY <1>0, <2>1 DEF StackInv, Stack!Contents
  <2> QED
    BY <2>1, <2>2 DEF Stack!Lifo!Clear, Stack!Lifo!Next
<1> QED
  BY <1>1, <1>2, <1>3, <1>4 DEF Stack!Next, Stack!Lifo!Next

\* Pushes, pops, peeks and resets in any order act as a last-in first-out stack of
\* capacity items: nothing left above top by a pop or a reset comes back.
THEOREM StackImplementsLifo == Stack!Spec => ImplementsLifo
<1>1. Stack!Init => StackInv /\ Stack!Lifo!Init
  <2>1. ASSUME Stack!Init PROVE StackInv /\ Stack!Contents = <<>>
    BY <2>1, StackConstants DEF Stack!Init, StackInv, Stack!Contents
  <2> QED
    BY <2>1 DEF StackInv, Stack!Lifo!Init
<1>2. ASSUME StackInv, UNCHANGED Stack!vars
      PROVE  StackInv' /\ UNCHANGED Stack!Lifo!vars
  BY <1>2 DEF StackInv, Stack!vars, Stack!Lifo!vars, Stack!Contents
<1>3. StackInv /\ [Stack!Next]_(Stack!vars)
         => StackInv' /\ [Stack!Lifo!Next]_(Stack!Lifo!vars)
  BY <1>2, StackStep
<1> QED
  BY <1>1, <1>3, PTL
     DEF Stack!Spec, ImplementsLifo, Stack!ImplementsLifo, Stack!Lifo!Spec

-----------------------------------------------------------------------------
(* The words of the bit field                                              *)

LEMMA BitsConstants == W \in Nat \ {0} /\ NumBits \in Nat \ {0}
BY BitsAssumption DEF Bits!WordAssumption, Bits!SizeAssumption

Words == [Bits!Index -> SUBSET Bits!Word]

\* The bits that are set in the words w.
BitsIn(w) == {b \in Bits!Bit : b % W \in w[b \div W]}

LEMMA Division ==
  ASSUME NEW n \in Nat
  PROVE  /\ n \div W \in Nat /\ n % W \in 0 .. W - 1
         /\ n = (W * (n \div W)) + (n % W)
BY BitsConstants

LEMMA DivisionOf ==
  ASSUME NEW i \in Nat, NEW c \in 0 .. W - 1
  PROVE  ((W * i) + c) \div W = i /\ ((W * i) + c) % W = c
BY BitsConstants

LEMMA NextMultiple ==
  ASSUME NEW i \in Nat, NEW j \in Nat, i < j
  PROVE  (W * i) + W <= W * j
BY BitsConstants

\* How many words there are: as many as are filled, and one for the bits that are
\* left over.
LEMMA NumWordsIs ==
  /\ Bits!NumWords \in Nat \ {0}
  /\ Bits!LastBits \in 0 .. W - 1
  /\ Bits!LastBits = 0 => NumBits = W * Bits!NumWords
  /\ Bits!LastBits # 0 => NumBits = (W * (Bits!NumWords - 1)) + Bits!LastBits
<1>1. PICK k \in Nat : k = NumBits \div W
  BY BitsConstants, Division
<1>2. PICK l \in 0 .. W - 1 : l = NumBits % W
  BY BitsConstants, Division
<1>3. NumBits = (W * k) + l
  BY <1>1, <1>2, BitsConstants, Division
<1>4. CASE l = 0
  <2>1. NumBits + W - 1 = (W * k) + (W - 1) /\ W - 1 \in 0 .. W - 1
    BY <1>3, <1>4, BitsConstants
  <2>2. Bits!NumWords = k
    BY <2>1, DivisionOf DEF Bits!NumWords
  <2>3. k # 0
    BY <1>3, <1>4, BitsConstants
  <2> QED
    BY <1>2, <1>3, <1>4, <2>2, <2>3, BitsConstants DEF Bits!LastBits
<1>5. CASE l # 0
  <2>1. NumBits + W - 1 = (W * (k + 1)) + (l - 1) /\ l - 1 \in 0 .. W - 1
    BY <1>3, <1>5, BitsConstants
  <2>2. Bits!NumWords = k + 1
    BY <2>1, DivisionOf DEF Bits!NumWords
  <2> QED
    BY <1>2, <1>3, <1>5, <2>2, BitsConstants DEF Bits!LastBits
<1> QED
  BY <1>4, <1>5

\* Where a bit is.
LEMMA PlaceOf ==
  ASSUME NEW b \in Bits!Bit
  PROVE  /\ b \div W \in Bits!Index /\ b % W \in Bits!Word
         /\ b = (W * (b \div W)) + (b % W)
<1>1. b \in Nat /\ b < NumBits
  BY BitsConstants DEF Bits!Bit
<1>2. PICK i \in Nat : i = b \div W
  BY <1>1, Division
<1>3. PICK c \in 0 .. W - 1 : c = b % W
  BY <1>1, Division
<1>4. b = (W * i) + c
  BY <1>1, <1>2, <1>3, Division
<1>5. PICK n \in Nat \ {0} : n = Bits!NumWords
  BY NumWordsIs
<1>6. NumBits <= W * n
  <2>1. CASE Bits!LastBits = 0
    BY <2>1, <1>5, NumWordsIs, BitsConstants
  <2>2. CASE Bits!LastBits # 0
    <3>1. PICK l \in 0 .. W - 1 : l = Bits!LastBits
      BY NumWordsIs
    <3>2. NumBits = (W * (n - 1)) + l
      BY <2>2, <3>1, <1>5, NumWordsIs
    <3>3. (W * (n - 1)) + W <= W * n
      BY NextMultiple, <1>5
    <3> QED
      BY <3>1, <3>2, <3>3, <1>5, BitsConstants
  <2> QED
    BY <2>1, <2>2
<1>7. i < n
  <2>1. CASE n < i
    BY <2>1, <1>1, <1>3, <1>4, <1>6, NextMultiple, BitsConstants
  <2>2. CASE n = i
    BY <2>2, <1>1, <1>3, <1>4, <1>6, BitsConstants
  <2> QED
    BY <2>1, <2>2
<1> QED
  BY <1>1, <1>2, <1>3, <1>4, <1>5, <1>7, Division DEF Bits!Index, Bits!Word

LEMMA BitAt ==
  ASSUME NEW i \in Bits!Index, NEW c \in Bits!Word
  PROVE  /\ (W * i) + c \in Nat
         /\ ((W * i) + c) \div W = i /\ ((W * i) + c) % W = c
<1>1. i \in Nat /\ c \in 0 .. W - 1
  BY NumWordsIs DEF Bits!Index, Bits!Word
<1> QED
  BY <1>1, DivisionOf, BitsConstants

-----------------------------------------------------------------------------
(* The changes of the bit field                                            *)

\* To change the bits of one word at one place is to change one number.
LEMMA WordChange ==
  ASSUME NEW w \in Words, NEW b \in Bits!Bit, NEW x \in SUBSET Bits!Word,
         \A c \in Bits!Word \ {b % W} : c \in x <=> c \in w[b \div W]
  PROVE  /\ [w EXCEPT ![b \div W] = x] \in Words
         /\ BitsIn([w EXCEPT ![b \div W] = x])
              = IF b % W \in x THEN BitsIn(w) \cup {b} ELSE BitsIn(w) \ {b}
<1>1. b \div W \in Bits!Index /\ b % W \in Bits!Word
  BY PlaceOf
<1> DEFINE v == [w EXCEPT ![b \div W] = x]
<1>2. v \in Words
  BY <1>1 DEF Words
<1>3. ASSUME NEW a \in Bits!Bit, a # b
      PROVE  a % W \in v[a \div W] <=> a % W \in w[a \div W]
  <2>1. a \div W \in Bits!Index /\ a % W \in Bits!Word
    BY PlaceOf
  <2>2. CASE a \div W = b \div W
    <3>1. a % W # b % W
      BY <1>3, <2>2, PlaceOf
    <3>2. v[a \div W] = x
      BY <1>1, <2>2 DEF Words
    <3> QED
      BY <2>1, <2>2, <3>1, <3>2
  <2>3. CASE a \div W # b \div W
    BY <1>1, <2>1, <2>3 DEF Words
  <2> QED
    BY <2>2, <2>3
<1>4. v[b \div W] = x
  BY <1>1 DEF Words
<1> HIDE DEF v
<1>5. BitsIn(v) = IF b % W \in x THEN BitsIn(w) \cup {b} ELSE BitsIn(w) \ {b}
  BY <1>3, <1>4 DEF BitsIn
<1> QED
  BY <1>2, <1>5 DEF v

LEMMA Becomes ==
  ASSUME bf_words' \in Words, bf_reply' = bf_reply,
         \/ \E b \in Bits!Bit : \/ BitsIn(bf_words') = BitsIn(bf_words) \cup {b}
                                \/ BitsIn(bf_words') = BitsIn(bf_words) \ {b}
         \/ BitsIn(bf_words') = {}
         \/ BitsIn(bf_words') = Bits!Bit
  PROVE  Bits!Field!Next
BY DEF Bits!Field!Next, Bits!Field!Become, Bits!Field!Bit, Bits!Bit, BitsIn

LEMMA ChangeStep ==
  ASSUME bf_words \in Words, NEW b \in Bits!Bit,
         Bits!SetBit(b) \/ Bits!ClearBit(b) \/ Bits!Toggle(b)
  PROVE  bf_words' \in Words /\ Bits!Field!Next
<1>1. b \div W \in Bits!Index /\ b % W \in Bits!Word
  BY PlaceOf
<1>2. bf_words[b \div W] \in SUBSET Bits!Word
  BY <1>1 DEF Words
<1>3. PICK x \in SUBSET Bits!Word :
        /\ bf_words' = [bf_words EXCEPT ![b \div W] = x]
        /\ \A c \in Bits!Word \ {b % W} : c \in x <=> c \in bf_words[b \div W]
  <2>1. CASE Bits!SetBit(b)
    <3>1. bf_words[b \div W] \cup {b % W} \in SUBSET Bits!Word
      BY <1>1, <1>2
    <3> QED
      BY <2>1, <3>1 DEF Bits!SetBit, Bits!Change
  <2>2. CASE Bits!ClearBit(b)
    <3>1. bf_words[b \div W] \ {b % W} \in SUBSET Bits!Word
      BY <1>1, <1>2
    <3> QED
      BY <2>2, <3>1 DEF Bits!ClearBit, Bits!Change
  <2>3. CASE Bits!Toggle(b)
    <3> DEFINE word == bf_words[b \div W]
               x == (word \ {b % W}) \cup ({b % W} \ word)
    <3>1. x \in SUBSET Bits!Word
      BY <1>1, <1>2
    <3>2. bf_words' = [bf_words EXCEPT ![b \div W] = x]
      BY <2>3 DEF Bits!Toggle, Bits!Change
    <3> QED
      BY <3>1, <3>2
  <2> QED
    BY <2>1, <2>2, <2>3
<1>4. bf_words' \in Words
  BY <1>3, WordChange
<1>5. \/ BitsIn(bf_words') = BitsIn(bf_words) \cup {b}
      \/ BitsIn(bf_words') = BitsIn(bf_words) \ {b}
  BY <1>3, WordChange, Zenon
<1>6. bf_reply' = bf_reply
  BY DEF Bits!SetBit, Bits!ClearBit, Bits!Toggle, Bits!Change
<1> QED
  BY <1>4, <1>5, <1>6, Becomes

LEMMA ClearAllStep ==
  ASSUME Bits!ClearAll
  PROVE  bf_words' \in Words /\ Bits!Field!Next
<1>1. bf_words' \in Words
  BY DEF Bits!ClearAll, Words
<1>2. BitsIn(bf_words') = {}
  BY PlaceOf DEF Bits!ClearAll, BitsIn
<1> QED
  BY <1>1, <1>2, Becomes DEF Bits!ClearAll

LEMMA SetAllStep ==
  ASSUME Bits!SetAll
  PROVE  bf_words' \in Words /\ Bits!Field!Next
<1>1. bf_words' \in Words
  BY DEF Bits!SetAll, Words
<1>2. BitsIn(bf_words') = Bits!Bit
  BY PlaceOf DEF Bits!SetAll, BitsIn
<1> QED
  BY <1>1, <1>2, Becomes DEF Bits!SetAll

-----------------------------------------------------------------------------
(* The queries of the bit field                                            *)

\* DsBitfield and BitSet count as we do.
LEMMA OneCardinality ==
  \A S : Bits!Cardinality(S) = Cardinality(S) /\ Bits!Field!Cardinality(S) = Cardinality(S)
BY DEF Bits!Cardinality, Bits!Field!Cardinality, Cardinality

LEMMA Answers ==
  ASSUME bf_words' = bf_words,
         \/ \E b \in BitsIn(bf_words) : bf_reply' = <<"test", 1>>
         \/ \E b \in Bits!Bit \ BitsIn(bf_words) : bf_reply' = <<"test", 0>>
         \/ \E n \in Bits!Bit \cup {-1} :
              \/ /\ Bits!Field!IsFirst(n, BitsIn(bf_words))
                 /\ bf_reply' = <<"first_set", n>>
              \/ /\ Bits!Field!IsFirst(n, Bits!Bit \ BitsIn(bf_words))
                 /\ bf_reply' = <<"first_clear", n>>
         \/ bf_reply' = <<"count", Cardinality(BitsIn(bf_words))>>
  PROVE  Bits!Field!Next
<1> DEFINE B == BitsIn(bf_words)
<1>1. B' = B /\ B = {b \in Bits!Bit : b % W \in bf_words[b \div W]}
  BY DEF BitsIn
<1>2. Bits!Field!Bit = Bits!Bit
  BY DEF Bits!Field!Bit, Bits!Bit
<1>3. CASE \/ \E b \in B : bf_reply' = <<"test", 1>>
           \/ \E b \in Bits!Bit \ B : bf_reply' = <<"test", 0>>
  BY <1>1, <1>2, <1>3 DEF Bits!Field!Next, Bits!Field!Answer, BitsIn
<1>4. CASE \E n \in Bits!Bit \cup {-1} :
              \/ Bits!Field!IsFirst(n, B) /\ bf_reply' = <<"first_set", n>>
              \/ Bits!Field!IsFirst(n, Bits!Bit \ B) /\ bf_reply' = <<"first_clear", n>>
  BY <1>1, <1>2, <1>4, Zenon DEF Bits!Field!Next, Bits!Field!Answer, BitsIn
<1>5. CASE bf_reply' = <<"count", Cardinality(B)>>
  <2>1. Bits!Field!Answer("count", Cardinality(B))
    BY <1>1, <1>5 DEF Bits!Field!Answer, BitsIn
  <2> QED
    BY <2>1, OneCardinality DEF Bits!Field!Next, BitsIn
<1> QED
  BY <1>3, <1>4, <1>5

\* What replaces induction: a set of numbers has a least one.
LEMMA LeastOf ==
  ASSUME NEW T \in SUBSET Nat, T # {}
  PROVE  Bits!Min(T) \in T /\ \A k \in T : Bits!Min(T) <= k
<1> DEFINE R == OpToRel(<, Nat)
<1>1. IsWellFoundedOn(R, Nat)
  BY NatLessThanWellFounded
<1>2. \A k, m \in Nat : k < m => <<k, m>> \in R
  BY DEF OpToRel
<1> HIDE DEF R
<1>3. PICK m \in T : \A k \in T : ~(<<k, m>> \in R)
  BY <1>1, WFMin
<1>4. \A k \in T : ~(k < m)
  BY <1>2, <1>3, Zenon
<1>5. \A k \in T : m <= k
  BY <1>4
<1> QED
  BY <1>5, Zenon DEF Bits!Min

\* The first word with a bit, and the first bit in it, are the first bit of all,
\* if it is one of the field's.
LEMMA FirstIs ==
  ASSUME NEW w \in Words
  PROVE  /\ Bits!First(w) \in Bits!Bit \cup {-1}
         /\ Bits!Field!IsFirst(Bits!First(w), BitsIn(w))
<1> DEFINE found == {i \in Bits!Index : w[i] # {}}
<1>1. \A b \in BitsIn(w) : b \div W \in found
  BY PlaceOf DEF BitsIn
<1>2. CASE found = {}
  <2>1. Bits!First(w) = -1
    BY <1>2, Zenon DEF Bits!First
  <2>2. BitsIn(w) = {}
    BY <1>1, <1>2
  <2> QED
    BY <2>1, <2>2 DEF Bits!Field!IsFirst
<1>3. CASE found # {}
  <2>1. found \in SUBSET Nat /\ \A i \in Bits!Index : i \in Nat
    BY NumWordsIs DEF Bits!Index
  <2>2. PICK i \in found : i = Bits!Min(found) /\ \A k \in found : i <= k
    BY <2>1, <1>3, LeastOf
  <2>3. i \in Bits!Index /\ w[i] \in SUBSET Bits!Word /\ w[i] # {} /\ i \in Nat
    BY <2>1, <2>2 DEF Words
  <2>4. Bits!Word = 0 .. W - 1
    BY DEF Bits!Word
  <2>5. w[i] \in SUBSET Nat
    BY <2>3, <2>4
  <2>6. PICK c \in w[i] : c = Bits!Min(w[i]) /\ \A k \in w[i] : c <= k
    BY <2>3, <2>5, LeastOf
  <2>7. c \in 0 .. W - 1 /\ c \in Bits!Word
    BY <2>3, <2>4, <2>6
  <2>8. PICK n \in Nat : n = (W * i) + c
    BY <2>3, <2>7, BitAt
  <2>9. i * W + c = n
    BY <2>3, <2>7, <2>8, BitsConstants
  <2>10. Bits!First(w) = IF n >= NumBits THEN -1 ELSE n
    BY <1>3, <2>2, <2>6, <2>9, Zenon DEF Bits!First
  <2> HIDE DEF found
  <2>11. ASSUME NEW b \in BitsIn(w)
         PROVE  n <= b /\ b < NumBits /\ b \in Nat
    <3>1. b \in Bits!Bit /\ b \in Nat /\ b < NumBits
      BY BitsConstants DEF BitsIn, Bits!Bit
    <3>2. PICK j \in found : j = b \div W
      BY <1>1
    <3>3. j \in Nat /\ i <= j
      BY <2>1, <2>2, <3>2
    <3>4. PICK d \in 0 .. W - 1 : d = b % W
      BY <3>1, <2>4, PlaceOf
    <3>5. b = (W * j) + d /\ d \in w[j]
      BY <3>1, <3>2, <3>4, PlaceOf DEF BitsIn
    <3>6. CASE i = j
      BY <2>6, <2>7, <2>8, <3>1, <3>3, <3>4, <3>5, <3>6, BitsConstants
    <3>7. CASE i < j
      <4>1. (W * i) + W <= W * j
        BY <3>7, <3>3, <2>3, NextMultiple
      <4>2. PICK x \in Nat : x = W * i
        BY <2>3, BitsConstants
      <4>3. PICK y \in Nat : y = W * j
        BY <3>3, BitsConstants
      <4> QED
        BY <4>1, <4>2, <4>3, <2>7, <2>8, <3>1, <3>4, <3>5, BitsConstants
    <3> QED
      BY <3>1, <3>3, <3>6, <3>7, <2>3
  <2>12. CASE n >= NumBits
    <3>1. BitsIn(w) = {}
      BY <2>8, <2>11, <2>12, BitsConstants
    <3> QED
      BY <2>10, <2>12, <3>1 DEF Bits!Field!IsFirst
  <2>13. CASE ~(n >= NumBits)
    <3>1. n \in Bits!Bit
      BY <2>8, <2>13, BitsConstants DEF Bits!Bit
    <3>2. n \div W = i /\ n % W = c
      BY <2>3, <2>7, <2>8, BitAt
    <3>3. n \in BitsIn(w)
      BY <3>1, <3>2, <2>6 DEF BitsIn
    <3> QED
      BY <2>10, <2>11, <2>13, <3>1, <3>3 DEF Bits!Field!IsFirst
  <2> QED
    BY <2>12, <2>13
<1> QED
  BY <1>2, <1>3

LEMMA FindStep ==
  ASSUME bf_words \in Words,
         \/ \E b \in Bits!Bit : Bits!Test(b)
         \/ Bits!FindFirstSet \/ Bits!FindFirstClear
  PROVE  bf_words' \in Words /\ Bits!Field!Next
<1>1. CASE \E b \in Bits!Bit : Bits!Test(b)
  <2>1. PICK b \in Bits!Bit : Bits!Test(b)
    BY <1>1
  <2>2. bf_words' = bf_words
    BY <2>1 DEF Bits!Test, Bits!Return
  <2>3. CASE b % W \in bf_words[b \div W]
    <3>1. b \in BitsIn(bf_words) /\ bf_reply' = <<"test", 1>>
      BY <2>1, <2>3 DEF Bits!Test, Bits!Return, BitsIn
    <3> QED
      BY <2>2, <3>1, Answers
  <2>4. CASE b % W \notin bf_words[b \div W]
    <3>1. b \in Bits!Bit \ BitsIn(bf_words) /\ bf_reply' = <<"test", 0>>
      BY <2>1, <2>4 DEF Bits!Test, Bits!Return, BitsIn
    <3> QED
      BY <2>2, <3>1, Answers
  <2> QED
    BY <2>2, <2>3, <2>4
<1>2. CASE Bits!FindFirstSet
  <2>1. bf_words' = bf_words /\ bf_reply' = <<"first_set", Bits!First(bf_words)>>
    BY <1>2 DEF Bits!FindFirstSet, Bits!Return
  <2> QED
    BY <2>1, FirstIs, Answers
<1>3. CASE Bits!FindFirstClear
  <2> DEFINE v == [i \in Bits!Index |-> Bits!Word \ bf_words[i]]
  <2>1. bf_words' = bf_words /\ bf_reply' = <<"first_clear", Bits!First(v)>>
    BY <1>3 DEF Bits!FindFirstClear, Bits!Return
  <2>2. v \in Words
    BY DEF Words
  <2>3. BitsIn(v) = Bits!Bit \ BitsIn(bf_words)
    BY PlaceOf DEF BitsIn
  <2> HIDE DEF v
  <2> QED
    BY <2>1, <2>2, <2>3, FirstIs, Answers
<1> QED
  BY <1>1, <1>2, <1>3

-----------------------------------------------------------------------------
(* The number of bits that are set                                         *)

\* The 1s of the words w, in the bits of the field and past them.
OnesIn(w) == {p \in Bits!Index \X Bits!Word : p[2] \in w[p[1]]}

\* Those past the end are in the last word.
PastEnd(w) ==
  IF Bits!LastBits = 0 THEN {}
  ELSE {Bits!NumWords - 1} \X (w[Bits!NumWords - 1] \ (0 .. Bits!LastBits - 1))

LEMMA WordsFinite == IsFiniteSet(Bits!Index \X Bits!Word) /\ IsFiniteSet(Bits!Word)
<1>1. IsFiniteSet(0 .. Bits!NumWords - 1) /\ IsFiniteSet(0 .. W - 1)
  BY NumWordsIs, BitsConstants, FS_Interval
<1> QED
  BY <1>1, FS_Product DEF Bits!Index, Bits!Word

\* A place is past the end if its number is.
LEMMA PastEndIs ==
  ASSUME NEW w \in Words, NEW p \in OnesIn(w)
  PROVE  /\ p[1] \in Bits!Index /\ p[2] \in Bits!Word
         /\ p \in PastEnd(w) <=> (W * p[1]) + p[2] >= NumBits
<1>1. PICK i \in Bits!Index, c \in Bits!Word : p = <<i, c>> /\ c \in w[i]
  BY DEF OnesIn
<1>2. PICK n \in Nat \ {0} : n = Bits!NumWords
  BY NumWordsIs
<1>3. PICK l \in 0 .. W - 1 : l = Bits!LastBits
  BY NumWordsIs
<1>4. i \in 0 .. n - 1 /\ c \in 0 .. W - 1
  BY <1>1, <1>2 DEF Bits!Index, Bits!Word
<1>5. PICK x \in Nat : x = W * i
  BY <1>4, BitsConstants
<1>6. PICK y \in Nat : y = W * n
  BY <1>2, BitsConstants
<1>7. PICK z \in Nat : z = W * (n - 1)
  BY <1>2, BitsConstants
<1>8. CASE l = 0
  <2>1. NumBits = y
    BY <1>2, <1>3, <1>6, <1>8, NumWordsIs
  <2>2. x + W <= y
    BY <1>2, <1>4, <1>5, <1>6, NextMultiple
  <2>3. ~(x + c >= NumBits)
    BY <1>4, <2>1, <2>2, BitsConstants
  <2> QED
    BY <1>1, <1>3, <1>5, <1>8, <2>3 DEF PastEnd
<1>9. CASE l # 0
  <2>1. NumBits = z + l
    BY <1>2, <1>3, <1>7, <1>9, NumWordsIs
  <2>2. p \in PastEnd(w) <=> i = n - 1 /\ ~(c \in 0 .. l - 1)
    BY <1>1, <1>2, <1>3, <1>9 DEF PastEnd
  <2>3. CASE i = n - 1
    <3>1. x = z
      BY <2>3, <1>5, <1>7
    <3>2. x + c >= NumBits <=> ~(c \in 0 .. l - 1)
      BY <3>1, <2>1, <1>3, <1>4, BitsConstants
    <3> QED
      BY <2>2, <2>3, <3>2, <1>1, <1>5
  <2>4. CASE i # n - 1
    <3>1. x + W <= z
      BY <2>4, <1>2, <1>4, <1>5, <1>7, NextMultiple
    <3>2. ~(x + c >= NumBits)
      BY <3>1, <2>1, <1>3, <1>4, BitsConstants
    <3> QED
      BY <2>2, <2>4, <3>2, <1>1, <1>5
  <2> QED
    BY <2>3, <2>4
<1> QED
  BY <1>1, <1>8, <1>9

\* A bit of the field is one place in one word.
LEMMA BitsInCount ==
  ASSUME NEW w \in Words
  PROVE  Cardinality(BitsIn(w)) = Cardinality(OnesIn(w) \ PastEnd(w))
<1> DEFINE T == OnesIn(w) \ PastEnd(w)
           f == [p \in T |-> (W * p[1]) + p[2]]
<1>1. IsFiniteSet(T)
  <2>1. T \in SUBSET (Bits!Index \X Bits!Word)
    BY DEF OnesIn
  <2> QED
    BY <2>1, WordsFinite, FS_Subset
<1>2. ASSUME NEW p \in T
      PROVE  /\ f[p] \in BitsIn(w)
             /\ f[p] \div W = p[1] /\ f[p] % W = p[2]
             /\ p = <<p[1], p[2]>>
  <2>1. p[1] \in Bits!Index /\ p[2] \in Bits!Word
    BY PastEndIs
  <2>2. PICK n \in Nat : n = (W * p[1]) + p[2]
    BY <2>1, BitAt
  <2>3. n \div W = p[1] /\ n % W = p[2]
    BY <2>1, <2>2, BitAt
  <2>4. n < NumBits
    BY <2>2, PastEndIs, BitsConstants
  <2>5. n \in Bits!Bit
    BY <2>2, <2>4, BitsConstants DEF Bits!Bit
  <2>6. p[2] \in w[p[1]] /\ p = <<p[1], p[2]>>
    BY DEF OnesIn
  <2> QED
    BY <2>2, <2>3, <2>5, <2>6 DEF BitsIn
<1>3. ASSUME NEW b \in BitsIn(w)
      PROVE  \E p \in T : f[p] = b
  <2>1. b \in Bits!Bit /\ b % W \in w[b \div W] /\ b < NumBits /\ b \in Nat
    BY BitsConstants DEF BitsIn, Bits!Bit
  <2>2. PICK i \in Bits!Index, c \in Bits!Word : i = b \div W /\ c = b % W /\ b = (W * i) + c
    BY <2>1, PlaceOf
  <2>3. <<i, c>> \in OnesIn(w)
    BY <2>1, <2>2 DEF OnesIn
  <2>4. <<i, c>> \notin PastEnd(w)
    <3>1. PICK p \in OnesIn(w) : p = <<i, c>> /\ p[1] = i /\ p[2] = c
      BY <2>3
    <3>2. p \in PastEnd(w) <=> b >= NumBits
      BY <2>2, <3>1, PastEndIs
    <3> QED
      BY <2>1, <3>1, <3>2, BitsConstants
  <2> QED
    BY <2>2, <2>3, <2>4
<1> HIDE DEF f
<1>4. f \in Bijection(T, BitsIn(w))
  <2>1. f \in [T -> BitsIn(w)]
    BY <1>2 DEF f
  <2>2. ASSUME NEW p \in T, NEW q \in T, f[p] = f[q] PROVE p = q
    <3>1. p[1] = q[1] /\ p[2] = q[2]
      BY <1>2, <2>2
    <3> QED
      BY <1>2, <3>1
  <2> QED
    BY <1>3, <2>1, <2>2 DEF Bijection, Injection, Surjection, IsInjective
<1> QED
  BY <1>1, <1>4, FS_Bijection DEF ExistsBijection

LEMMA CountStep ==
  ASSUME bf_words \in Words, Bits!Count
  PROVE  bf_words' \in Words /\ Bits!Field!Next
<1> DEFINE S == OnesIn(bf_words)
           T == PastEnd(bf_words)
<1>1. IsFiniteSet(S)
  <2>1. S \in SUBSET (Bits!Index \X Bits!Word)
    BY DEF OnesIn
  <2> QED
    BY <2>1, WordsFinite, FS_Subset
<1>2. Bits!Ones(bf_words) = Cardinality(S)
  BY OneCardinality DEF Bits!Ones, OnesIn
<1>3. T \subseteq S
  <2>1. Bits!NumWords - 1 \in Bits!Index
    BY NumWordsIs DEF Bits!Index
  <2>2. bf_words[Bits!NumWords - 1] \subseteq Bits!Word
    BY <2>1 DEF Words
  <2> QED
    BY <2>1, <2>2 DEF PastEnd, OnesIn
<1>4. Cardinality(BitsIn(bf_words)) = Cardinality(S) - Cardinality(T)
  <2>1. S \cap T = T
    BY <1>3
  <2>2. Cardinality(S \ T) = Cardinality(S) - Cardinality(S \cap T)
    BY <1>1, FS_Difference
  <2> QED
    BY <2>1, <2>2, BitsInCount
<1>5. bf_words' = bf_words /\ bf_reply' = <<"count", Cardinality(BitsIn(bf_words))>>
  <2>1. CASE Bits!LastBits = 0
    <3>1. Cardinality(S) \in Nat /\ Cardinality(T) = 0
      BY <2>1, <1>1, FS_CardinalityType, FS_EmptySet DEF PastEnd
    <3> QED
      BY <2>1, <3>1, <1>2, <1>4 DEF Bits!Count, Bits!Return
  <2>2. CASE Bits!LastBits # 0
    <3> DEFINE last == bf_words[Bits!NumWords - 1]
               used_bits == 0 .. Bits!LastBits - 1
    <3>1. last \in SUBSET Bits!Word
      BY NumWordsIs DEF Bits!Index, Words
    <3>2. IsFiniteSet(last) /\ IsFiniteSet(last \ used_bits)
      BY <3>1, WordsFinite, FS_Subset, FS_Difference
    <3>3. Cardinality(last \ used_bits) = Cardinality(last) - Cardinality(last \cap used_bits)
      BY <3>2, FS_Difference
    <3>4. Cardinality(T) = Cardinality(last \ used_bits)
      <4>1. IsFiniteSet({Bits!NumWords - 1}) /\ Cardinality({Bits!NumWords - 1}) = 1
        BY FS_Singleton
      <4>2. Cardinality({Bits!NumWords - 1} \X (last \ used_bits))
              = 1 * Cardinality(last \ used_bits)
        BY <4>1, <3>2, FS_Product
      <4>3. Cardinality(last \ used_bits) \in Nat
        BY <3>2, FS_CardinalityType
      <4> QED
        BY <2>2, <4>2, <4>3 DEF PastEnd
    <3>5. IsFiniteSet(last \cap used_bits)
      BY <3>2, FS_Intersection
    <3>6. /\ Cardinality(S) \in Nat /\ Cardinality(last) \in Nat
          /\ Cardinality(last \cap used_bits) \in Nat
      BY <1>1, <3>2, <3>5, FS_CardinalityType
    <3>7. Bits!Last = last
      BY DEF Bits!Last
    <3>8. /\ bf_words' = bf_words
          /\ bf_reply' = <<"count", Cardinality(S) - Cardinality(last)
                                      + Cardinality(last \cap used_bits)>>
      BY <2>2, <1>2, <3>7, OneCardinality DEF Bits!Count, Bits!Return
    <3> HIDE DEF S, T, last, used_bits
    <3> QED
      BY <1>4, <3>3, <3>4, <3>6, <3>8
  <2> QED
    BY <2>1, <2>2
<1> QED
  BY <1>5, Answers

BitsTyped == bf_words \in Words

LEMMA BitsStep ==
  ASSUME BitsTyped, Bits!Next
  PROVE  BitsTyped' /\ Bits!Field!Next
<1> USE DEF BitsTyped
<1>1. bf_words' \in Words /\ Bits!Field!Next
  BY ChangeStep, ClearAllStep, SetAllStep, FindStep, CountStep DEF Bits!Next
<1>2. Words' = Words
  BY DEF Words, Bits!Index, Bits!Word, Bits!NumWords
<1> QED
  BY <1>1, <1>2

\* The words act as a set of the numbers below num_bits, and every query answers for
\* that set, the number of its elements included, whatever the last word holds past
\* num_bits and whatever the storage held when it was handed over.
THEOREM BitsImplementSet == Bits!Spec => ImplementsBitSet
<1>1. Bits!Init => BitsTyped /\ Bits!Field!Init
  BY DEF Bits!Init, BitsTyped, Words, Bits!Field!Init, Bits!Field!Bit, Bits!Bit
<1>2. BitsTyped /\ UNCHANGED Bits!vars => BitsTyped' /\ UNCHANGED Bits!Field!vars
  BY DEF BitsTyped, Words, Bits!vars, Bits!Field!vars
<1>3. BitsTyped /\ [Bits!Next]_(Bits!vars)
        => BitsTyped' /\ [Bits!Field!Next]_(Bits!Field!vars)
  BY <1>2, BitsStep
<1> QED
  BY <1>1, <1>3, PTL
     DEF Bits!Spec, ImplementsBitSet, Bits!ImplementsBitSet, Bits!Field!Spec
=============================================================================
