-------------------------- MODULE UartExample_proofs --------------------------
(***************************************************************************)
(* The ring buffer of DsRingBuf is a first-in first-out queue between two  *)
(* parties whose accesses interleave, but for what a batch of all of       *)
(* free_space destroys, and the parser of UartExample gets the lines out   *)
(* of it as they came: for every capacity, every set of bytes and every    *)
(* length of bursts and lines.                                             *)
(***************************************************************************)
EXTENDS UartExample, SequenceTheorems, TLAPS

USE CapacityAssumption, BatchAssumption

-----------------------------------------------------------------------------
(* Sequences                                                               *)

LEMMA EmptyLen ==
  ASSUME NEW S, NEW s \in Seq(S)
  PROVE  Len(s) \in Nat /\ (s = <<>> <=> Len(s) = 0)
<1>1. Len(s) \in Nat /\ <<>> \in Seq(S) /\ Len(<<>>) = 0
  BY LenProperties, EmptySeq
<1>2. Len(s) = 0 => s = <<>>
  BY <1>1, SeqEqual
<1> QED
  BY <1>1, <1>2

-----------------------------------------------------------------------------
(* Indexes                                                                 *)

LEMMA WrapIs ==
  ASSUME NEW i \in 0 .. 2 * Capacity - 1
  PROVE  Wrap(i) = IF i < Capacity THEN i ELSE i - Capacity
BY DEF Wrap

LEMMA DistanceIs ==
  ASSUME NEW h \in Slot, NEW t \in Slot
  PROVE  /\ Wrap(h - t) = IF h >= t THEN h - t ELSE h - t + Capacity
         /\ Wrap(h - t) \in Slot
BY DEF Wrap, Slot

LEMMA AdvanceIs ==
  ASSUME NEW h \in Slot
  PROVE  /\ Advance(h) = IF h + 1 < Capacity THEN h + 1 ELSE 0
         /\ Advance(h) \in Slot
<1>1. h + 1 \in 0 .. 2 * Capacity - 1
  BY DEF Slot
<1> QED
  BY <1>1, WrapIs DEF Advance, Slot

-----------------------------------------------------------------------------
(* What is between two indexes                                             *)

\* The n bytes from index t on.
Between(b, t, n) == [i \in 1 .. n |-> b[Wrap(t + i - 1)]]

LEMMA BetweenFacts ==
  ASSUME NEW b \in [Slot -> Data], NEW t \in Slot, NEW n \in Slot
  PROVE  /\ Between(b, t, n) \in Seq(Data)
         /\ Len(Between(b, t, n)) = n
         /\ \A i \in 1 .. n : /\ Wrap(t + i - 1) \in Slot
                              /\ Between(b, t, n)[i] = b[Wrap(t + i - 1)]
         /\ Between(b, t, n) = <<>> <=> n = 0
<1>1. n \in Nat /\ \A i \in 1 .. n : t + i - 1 \in 0 .. 2 * Capacity - 1
  BY DEF Slot
<1>2. \A i \in 1 .. n : Wrap(t + i - 1) \in Slot
  BY <1>1, WrapIs DEF Slot
<1>3. Between(b, t, n) \in [1 .. n -> Data]
  BY <1>2 DEF Between
<1>4. Between(b, t, n) \in Seq(Data) /\ Len(Between(b, t, n)) = n
  BY <1>1, <1>3, SeqDef, LenProperties
<1>5. Between(b, t, n) = <<>> <=> n = 0
  BY <1>4, EmptyLen, Zenon
<1> QED
  BY <1>2, <1>4, <1>5 DEF Between

\* A byte stored just behind the last of them is the next one.
LEMMA BetweenGrows ==
  ASSUME NEW b \in [Slot -> Data], NEW t \in Slot, NEW n \in Slot, n + 1 \in Slot
  PROVE  Between(b, t, n + 1) = Append(Between(b, t, n), b[Wrap(t + n)])
<1> DEFINE p == Between(b, t, n)
           q == Between(b, t, n + 1)
           d == b[Wrap(t + n)]
<1>1. /\ p \in Seq(Data) /\ Len(p) = n
      /\ q \in Seq(Data) /\ Len(q) = n + 1
      /\ \A i \in 1 .. n : p[i] = b[Wrap(t + i - 1)]
      /\ \A i \in 1 .. n + 1 : q[i] = b[Wrap(t + i - 1)]
  BY BetweenFacts
<1>2. n \in Nat /\ t + (n + 1) - 1 = t + n
  BY DEF Slot
<1>3. q[n + 1] = d /\ d \in Data
  <2>1. n + 1 \in 1 .. n + 1
    BY <1>2
  <2>2. q[n + 1] = b[Wrap(t + (n + 1) - 1)]
    BY <1>1, <2>1
  <2>3. q[n + 1] \in Data
    BY <1>1, <2>1, ElementOfSeq
  <2> QED
    BY <1>2, <2>2, <2>3
<1> HIDE DEF p, q, d
<1>4. /\ Append(p, d) \in Seq(Data) /\ Len(Append(p, d)) = n + 1
      /\ \A i \in 1 .. n : Append(p, d)[i] = p[i]
      /\ Append(p, d)[n + 1] = d
  BY <1>1, <1>3, AppendProperties
<1>5. \A i \in 1 .. n + 1 : q[i] = Append(p, d)[i]
  BY <1>1, <1>2, <1>3, <1>4
<1>6. q = Append(p, d)
  BY <1>1, <1>4, <1>5, SeqEqual
<1> QED
  BY <1>6 DEF p, q, d

\* Without the first of them, they are those from the next index on.
LEMMA BetweenShrinks ==
  ASSUME NEW b \in [Slot -> Data], NEW t \in Slot, NEW n \in Slot, n > 0
  PROVE  /\ Head(Between(b, t, n)) = b[t]
         /\ Tail(Between(b, t, n)) = Between(b, Advance(t), n - 1)
<1> DEFINE p == Between(b, t, n)
           q == Between(b, Advance(t), n - 1)
<1>1. Advance(t) \in Slot /\ n - 1 \in Slot
  BY AdvanceIs DEF Slot
<1>2. /\ p \in Seq(Data) /\ Len(p) = n
      /\ q \in Seq(Data) /\ Len(q) = n - 1
      /\ \A i \in 1 .. n : p[i] = b[Wrap(t + i - 1)]
      /\ \A i \in 1 .. n - 1 : q[i] = b[Wrap(Advance(t) + i - 1)]
      /\ p # <<>>
  BY <1>1, BetweenFacts
<1>3. Head(p) = b[t]
  <2>1. Head(p) = p[1] /\ 1 \in 1 .. n /\ t + 1 - 1 = t
    BY <1>2 DEF Slot
  <2>2. Wrap(t) = t
    BY WrapIs DEF Slot
  <2> QED
    BY <1>2, <2>1, <2>2
<1>4. \A i \in 1 .. n - 1 : Wrap(t + (i + 1) - 1) = Wrap(Advance(t) + i - 1)
  <2> TAKE i \in 1 .. n - 1
  <2>1. /\ t + (i + 1) - 1 \in 0 .. 2 * Capacity - 1
        /\ Advance(t) + i - 1 \in 0 .. 2 * Capacity - 1
    BY <1>1 DEF Slot
  <2> DEFINE j == t + (i + 1) - 1
             k == Advance(t) + i - 1
  <2>2. k = j \/ (k = j - Capacity /\ j >= Capacity)
    <3>1. Advance(t) = IF t + 1 < Capacity THEN t + 1 ELSE 0
      BY AdvanceIs
    <3> QED
      BY <3>1 DEF Slot
  <2> HIDE DEF j, k
  <2>3. /\ Wrap(j) = IF j < Capacity THEN j ELSE j - Capacity
        /\ Wrap(k) = IF k < Capacity THEN k ELSE k - Capacity
    BY <2>1, WrapIs DEF j, k
  <2>4. Wrap(j) = Wrap(k)
    BY <2>1, <2>2, <2>3 DEF j, k
  <2> QED
    BY <2>4 DEF j, k
<1> HIDE DEF p, q
<1>5. /\ Tail(p) \in Seq(Data) /\ Len(Tail(p)) = n - 1
      /\ \A i \in 1 .. n - 1 : Tail(p)[i] = p[i + 1]
  BY <1>2, HeadTailProperties
<1>6. \A i \in 1 .. n - 1 : Tail(p)[i] = q[i]
  <2> TAKE i \in 1 .. n - 1
  <2>1. i + 1 \in 1 .. n
    BY DEF Slot
  <2>2. p[i + 1] = b[Wrap(t + (i + 1) - 1)]
    BY <1>2, <2>1
  <2> QED
    BY <1>2, <1>4, <1>5, <2>2
<1>7. Tail(p) = q
  BY <1>2, <1>5, <1>6, SeqEqual
<1> QED
  BY <1>3, <1>7 DEF p, q

\* A store behind the last of them changes none.
LEMMA BetweenUntouched ==
  ASSUME NEW b \in [Slot -> Data], NEW t \in Slot, NEW n \in Slot, NEW d \in Data
  PROVE  Between([b EXCEPT ![Wrap(t + n)] = d], t, n) = Between(b, t, n)
<1>1. \A i \in 1 .. n : Wrap(t + i - 1) # Wrap(t + n) /\ Wrap(t + i - 1) \in Slot
  <2> TAKE i \in 1 .. n
  <2>1. /\ t + i - 1 \in 0 .. 2 * Capacity - 1
        /\ t + n \in 0 .. 2 * Capacity - 1
    BY DEF Slot
  <2> QED
    BY <2>1, WrapIs DEF Slot
<1> QED
  BY <1>1 DEF Between

\* Distances when one end moves.
LEMMA Distances ==
  ASSUME NEW h \in Slot, NEW t \in Slot
  PROVE  LET n == Wrap(h - t)
         IN /\ n \in Slot
            /\ n = 0 <=> h = t
            /\ Wrap(t + n) = h
            /\ n + 1 \in Slot => Wrap(Advance(h) - t) = n + 1
            /\ n > 0 => Wrap(h - Advance(t)) = n - 1
<1>1. /\ Wrap(h - t) \in Slot
      /\ Wrap(h - t) = IF h >= t THEN h - t ELSE h - t + Capacity
  BY DistanceIs
<1>3. Advance(h) \in Slot /\ Advance(t) \in Slot
  BY AdvanceIs
<1>4. /\ Wrap(Advance(h) - t) = IF Advance(h) >= t THEN Advance(h) - t
                                ELSE Advance(h) - t + Capacity
      /\ Wrap(h - Advance(t)) = IF h >= Advance(t) THEN h - Advance(t)
                                ELSE h - Advance(t) + Capacity
  BY <1>3, DistanceIs
<1>5. /\ Advance(h) = IF h + 1 < Capacity THEN h + 1 ELSE 0
      /\ Advance(t) = IF t + 1 < Capacity THEN t + 1 ELSE 0
  BY AdvanceIs
<1>6. Wrap(t + Wrap(h - t)) = h
  <2> DEFINE i == t + Wrap(h - t)
  <2>1. i \in 0 .. 2 * Capacity - 1 /\ (i = h \/ i = h + Capacity)
    BY <1>1 DEF Slot
  <2> HIDE DEF i
  <2>2. Wrap(i) = h
    BY <2>1, WrapIs DEF Slot
  <2> QED
    BY <2>2 DEF i
<1> QED
  BY <1>1, <1>4, <1>5, <1>6 DEF Slot

LEMMA ContentsAre ==
  Contents = Between(buffer, ReadFrom, Wrap(head - ReadFrom))
BY DEF Contents, Between

-----------------------------------------------------------------------------
(* Types                                                                   *)

\* What the progress of a call says about the rest of it.
CallsHeld ==
  /\ w.pc = "rest" <=> w.pending = <<>>
  /\ r.pc \in {"rest", "reset"} => r.left = 0
  /\ r.pc = "advance" => r.left > 0

TypeInv == TypeOK /\ CallsHeld

LEMMA BatchIs ==
  ASSUME NEW bytes \in Batches
  PROVE  bytes \in Seq(Data) /\ Len(bytes) \in Nat \ {0} /\ bytes # <<>>
<1>1. PICK n \in 1 .. MaxBatch : bytes \in [1 .. n -> Data]
  BY DEF Batches
<1>2. bytes \in Seq(Data) /\ Len(bytes) = n
  BY <1>1, SeqDef, LenProperties
<1> QED
  BY <1>2, EmptySeq

\* A call of write_batch stores a first part of the bytes, and not nothing.
LEMMA BatchCut ==
  ASSUME NEW bytes \in Batches, FreeSpace \in Nat \ {0}
  PROVE  LET n == IF Len(bytes) < FreeSpace THEN Len(bytes) ELSE FreeSpace
         IN /\ SubSeq(bytes, 1, n) \in Seq(Data)
            /\ Len(SubSeq(bytes, 1, n)) = n
            /\ SubSeq(bytes, 1, n) # <<>>
            /\ n = Len(bytes) => SubSeq(bytes, 1, n) = bytes
<1> DEFINE n == IF Len(bytes) < FreeSpace THEN Len(bytes) ELSE FreeSpace
<1>1. bytes \in Seq(Data) /\ n \in 1 .. Len(bytes)
  BY BatchIs
<1> HIDE DEF n
<1>2. SubSeq(bytes, 1, n) \in Seq(Data) /\ Len(SubSeq(bytes, 1, n)) = n
  BY <1>1, SubSeqProperties
<1>3. SubSeq(bytes, 1, n) # <<>>
  BY <1>1, <1>2, EmptySeq
<1>4. n = Len(bytes) => SubSeq(bytes, 1, n) = bytes
  BY <1>1, SubSeqFull
<1> QED
  BY <1>2, <1>3, <1>4 DEF n

LEMMA AvailableIs ==
  ASSUME TypeOK
  PROVE  /\ Available \in Slot /\ FreeSpace \in 1 .. Capacity
         /\ Available = 0 <=> IsEmpty
         /\ Available = IF head >= tail THEN head - tail ELSE head - tail + Capacity
<1>1. head \in Slot /\ tail \in Slot
  BY DEF TypeOK
<1>2. /\ Available \in Slot
      /\ Available = IF head >= tail THEN head - tail ELSE head - tail + Capacity
  BY <1>1, DistanceIs DEF Available
<1> QED
  BY <1>1, <1>2 DEF FreeSpace, Slot, IsEmpty

LEMMA TypeStep ==
  ASSUME TypeInv, [Next]_vars
  PROVE  TypeInv'
<1> USE DEF TypeInv, TypeOK, CallsHeld
<1>1. CASE UNCHANGED vars
  BY <1>1 DEF vars
<1>2. ASSUME NEW d \in Data, WriteBegin(d) PROVE TypeInv'
  <2>1. <<d>> \in Seq(Data) /\ <<d>> # <<>>
    OBVIOUS
  <2> QED
    BY <1>2, <2>1 DEF WriteBegin, Store
<1>3. ASSUME NEW bytes \in Batches, WriteBatchBegin(bytes) PROVE TypeInv'
  <2>1. FreeSpace \in Nat \ {0}
    BY AvailableIs
  <2>2. w'.pending \in Seq(Data) /\ w'.pending # <<>>
    BY <1>3, <2>1, BatchCut DEF WriteBatchBegin, Store
  <2> QED
    BY <1>3, <2>2 DEF WriteBatchBegin, Store
<1>4. CASE WriteStore
  <2>1. Head(w.pending) \in Data
    BY <1>4, HeadTailProperties DEF WriteStore
  <2> QED
    BY <1>4, <2>1 DEF WriteStore
<1>5. CASE WriteAdvance
  <2>1. /\ Tail(w.pending) \in Seq(Data)
        /\ Len(Tail(w.pending)) = Len(w.pending) - 1
        /\ Len(w.pending) \in Nat /\ Len(w.pending) # 0
    BY <1>5, HeadTailProperties, EmptyLen DEF WriteAdvance
  <2>2. Tail(w.pending) = <<>> <=> Len(Tail(w.pending)) = 0
    BY <2>1, EmptyLen, Zenon
  <2>3. Len(w.pending) = 1 <=> Tail(w.pending) = <<>>
    BY <2>1, <2>2
  <2>4. w' \in [pc : {"rest", "store", "advance"}, pending : Seq(Data)]
        /\ (w'.pc = "rest" <=> w'.pending = <<>>)
    BY <1>5, <2>1, <2>3 DEF WriteAdvance, AtRest
  <2> QED
    BY <1>5, <2>4, AdvanceIs DEF WriteAdvance
<1>6. ASSUME NEW n \in 1 .. MaxBatch, ReadBegin(n) PROVE TypeInv'
  <2>1. Available \in Slot /\ Available # 0
    BY <1>6, AvailableIs DEF ReadBegin
  <2> QED
    BY <1>6, <2>1 DEF ReadBegin, Take, Slot
<1>7. CASE PeekBegin
  BY <1>7 DEF PeekBegin, Take
<1>8. CASE ReadLoad
  BY <1>8 DEF ReadLoad, Resting, Slot
<1>9. CASE ReadAdvance
  BY <1>9, AdvanceIs DEF ReadAdvance, Resting
<1>10. CASE ResetHead
  BY <1>10 DEF ResetHead, Slot
<1>11. CASE ResetTail
  BY <1>11 DEF ResetTail, Resting, Slot
<1>12. CASE ReadRefused
  BY <1>12 DEF ReadRefused
<1> QED
  BY <1>1, <1>2, <1>3, <1>4, <1>5, <1>6, <1>7, <1>8, <1>9, <1>10, <1>11, <1>12
     DEF Next, WriterStep, ReaderStep

LEMMA TypeInit ==
  ASSUME Init
  PROVE  TypeInv /\ ~flooded
<1>1. flooded \in BOOLEAN /\ ~flooded
  BY Zenon DEF Init
<1>2. /\ head \in Slot /\ tail \in Slot /\ 0 \in 0 .. Capacity - 1
  BY DEF Init, Slot
<1>3. mode \in Modes /\ out \in Data /\ buffer \in [Slot -> Data]
  BY DEF Init
<1>4. <<>> \in Seq(Data)
  BY EmptySeq
<1> QED
  BY <1>1, <1>2, <1>3, <1>4 DEF Init, TypeInv, TypeOK, CallsHeld, AtRest, Resting

LEMMA TypeAlways == Spec => []TypeInv
<1>1. Init => TypeInv
  BY TypeInit
<1>2. TypeInv /\ [Next]_vars => TypeInv'
  BY TypeStep
<1> QED
  BY <1>1, <1>2, PTL DEF Spec

\* The buffer, its indices and the two calls in progress keep their types: no
\* call leaves the storage, flooded or not.
THEOREM TypeCorrect == Spec => []TypeOK
<1>1. TypeInv => TypeOK
  BY DEF TypeInv
<1> QED
  BY <1>1, TypeAlways, PTL

-----------------------------------------------------------------------------
(* The invariant                                                           *)

\* The byte that is stored and not announced yet, and the byte that is taken and
\* not given free yet, are in their places.
Handed ==
  /\ w.pc = "advance" => buffer[head] = Head(w.pending)
  /\ r.pc \in {"load", "advance"} => head # tail
  /\ r.pc = "advance" => out = buffer[tail]

\* Between the two stores of a reset the writer sees the room in front of the old
\* tail, which is no more than the room there will be.
ResetRoom == r.pc = "reset" => tail = 0 \/ head + Len(w.pending) < tail

\* What the calls in progress have yet to take is there, and there is room for
\* what they have yet to store.
Fitting ==
  /\ r.left <= Len(Contents)
  /\ Len(w.pending) < Capacity - Len(Contents)

\* So it is while the buffer is not flooded.
RingWhole == Fitting /\ Handed /\ ResetRoom

RingInv == TypeInv /\ (~flooded => RingWhole)

LEMMA ReadFromIs ==
  ASSUME TypeOK
  PROVE  /\ ReadFrom \in Slot
         /\ Contents \in Seq(Data)
         /\ Len(Contents) = Wrap(head - ReadFrom)
         /\ Len(Contents) \in Slot
         /\ Contents = <<>> <=> head = ReadFrom
         /\ r.pc # "reset" => ReadFrom = tail /\ Len(Contents) = Available
<1>1. ReadFrom \in Slot /\ head \in Slot /\ buffer \in [Slot -> Data]
  BY DEF TypeOK, ReadFrom, Slot
<1>2. Wrap(head - ReadFrom) \in Slot /\ (Wrap(head - ReadFrom) = 0 <=> head = ReadFrom)
  BY <1>1, Distances
<1> QED
  BY <1>1, <1>2, BetweenFacts, ContentsAre DEF Available, ReadFrom

\* The contents stay as they are if the storage and both ends do.
LEMMA ContentsKept ==
  ASSUME UNCHANGED <<buffer, head>>, ReadFrom' = ReadFrom
  PROVE  Contents' = Contents
BY DEF Contents

LEMMA StoreKeepsContents ==
  ASSUME TypeInv, WriteStore
  PROVE  Contents' = Contents
<1> DEFINE n == Wrap(head - ReadFrom)
<1>1. /\ ReadFrom \in Slot /\ head \in Slot /\ buffer \in [Slot -> Data]
      /\ w.pending \in Seq(Data) /\ w.pending # <<>>
  BY ReadFromIs DEF TypeInv, TypeOK, CallsHeld, WriteStore
<1>2. n \in Slot /\ Wrap(ReadFrom + n) = head
  BY <1>1, Distances
<1>3. Head(w.pending) \in Data
  BY <1>1, HeadTailProperties
<1>4. buffer' = [buffer EXCEPT ![head] = Head(w.pending)] /\ head' = head /\ r' = r /\ tail' = tail
  BY DEF WriteStore
<1>5. Between(buffer', ReadFrom, n) = Between(buffer, ReadFrom, n)
  <2> HIDE DEF n
  <2> QED
    BY <1>1, <1>2, <1>3, <1>4, BetweenUntouched
<1>6. ReadFrom' = ReadFrom
  BY <1>4 DEF ReadFrom
<1>7. Contents' = Between(buffer', ReadFrom, n)
  BY <1>4, <1>6 DEF Contents, Between
<1> QED
  BY <1>5, <1>7, ContentsAre

LEMMA AdvanceAppends ==
  ASSUME TypeInv, Fitting, WriteAdvance
  PROVE  /\ Contents' = Append(Contents, buffer[head])
         /\ Len(Contents) + 1 < Capacity /\ Len(Contents') = Len(Contents) + 1
<1> DEFINE n == Wrap(head - ReadFrom)
<1>1. /\ ReadFrom \in Slot /\ head \in Slot /\ buffer \in [Slot -> Data]
      /\ w.pending \in Seq(Data) /\ w.pending # <<>>
  BY ReadFromIs DEF TypeInv, TypeOK, CallsHeld, WriteAdvance
<1>2. n \in Slot /\ Wrap(ReadFrom + n) = head /\ Len(Contents) = n
  BY <1>1, Distances, ReadFromIs DEF TypeInv
<1>3. n + 1 \in Slot
  <2>1. Len(w.pending) \in Nat /\ Len(w.pending) # 0
    BY <1>1, EmptyLen
  <2> QED
    BY <1>2, <2>1 DEF Fitting, Slot
<1>4. buffer' = buffer /\ head' = Advance(head) /\ r' = r /\ tail' = tail
  BY DEF WriteAdvance
<1>5. ReadFrom' = ReadFrom
  BY <1>4 DEF ReadFrom
<1>6. Wrap(head' - ReadFrom) = n + 1
  BY <1>1, <1>3, <1>4, Distances
<1>7. Contents' = Between(buffer, ReadFrom, n + 1)
  <2>1. Contents' = Between(buffer, ReadFrom, Wrap(head' - ReadFrom))
    BY <1>4, <1>5 DEF Contents, Between
  <2> QED
    BY <1>6, <2>1
<1>8. Between(buffer, ReadFrom, n + 1) = Append(Contents, buffer[head])
  BY <1>1, <1>2, <1>3, BetweenGrows, ContentsAre
<1>9. Len(Contents') = n + 1
  BY <1>1, <1>3, <1>7, BetweenFacts
<1> QED
  BY <1>2, <1>3, <1>7, <1>8, <1>9 DEF Slot

LEMMA AdvanceTakes ==
  ASSUME TypeInv, head # tail, ReadAdvance
  PROVE  /\ Contents # <<>>
         /\ Head(Contents) = buffer[tail] /\ Contents' = Tail(Contents)
         /\ Len(Contents') = Len(Contents) - 1
<1> DEFINE n == Wrap(head - tail)
<1>1. /\ tail \in Slot /\ head \in Slot /\ buffer \in [Slot -> Data]
      /\ ReadFrom = tail /\ r.pc = "advance" /\ Advance(tail) \in Slot
  BY AdvanceIs DEF TypeInv, TypeOK, ReadAdvance, ReadFrom
<1>2. /\ n \in Slot /\ n > 0 /\ Wrap(head - Advance(tail)) = n - 1
      /\ n - 1 \in Slot
  <2>1. n \in Slot /\ n # 0 /\ (n > 0 => Wrap(head - Advance(tail)) = n - 1)
    BY <1>1, Distances
  <2> HIDE DEF n
  <2> QED
    BY <2>1 DEF Slot
<1>3. buffer' = buffer /\ head' = head /\ tail' = Advance(tail) /\ ReadFrom' = tail'
  BY <1>1 DEF ReadAdvance, ReadFrom, Resting
<1>4. Contents = Between(buffer, tail, n)
  BY <1>1, ContentsAre
<1>5. Contents' = Between(buffer, Advance(tail), n - 1)
  <2>1. Contents' = Between(buffer, Advance(tail), Wrap(head - Advance(tail)))
    BY <1>3 DEF Contents, Between
  <2> QED
    BY <1>2, <2>1
<1>6. Contents # <<>> /\ Len(Contents) = n /\ Len(Contents') = n - 1
  BY <1>1, <1>2, <1>4, <1>5, BetweenFacts
<1> QED
  BY <1>1, <1>2, <1>4, <1>5, <1>6, BetweenShrinks

\* Room for a call that begins, with a reset in progress or not.
LEMMA RoomAtBegin ==
  ASSUME TypeInv, ResetRoom, w.pc = "rest", NEW k \in Nat, k < FreeSpace
  PROVE  /\ k < Capacity - Len(Contents)
         /\ r.pc = "reset" => tail = 0 \/ head + k < tail
<1>1. /\ head \in Slot /\ tail \in Slot /\ Len(w.pending) = 0
      /\ FreeSpace = Capacity - Available
      /\ Available = IF head >= tail THEN head - tail ELSE head - tail + Capacity
  BY AvailableIs, EmptyLen DEF TypeInv, TypeOK, CallsHeld, FreeSpace
<1>2. CASE r.pc # "reset"
  BY <1>1, <1>2, ReadFromIs DEF TypeInv
<1>3. CASE r.pc = "reset"
  <2>1. Len(Contents) = head
    <3>1. ReadFrom = 0 /\ ReadFrom \in Slot
      BY <1>3 DEF ReadFrom, Slot
    <3>2. Wrap(head - ReadFrom) = IF head >= ReadFrom THEN head - ReadFrom
                                  ELSE head - ReadFrom + Capacity
      BY <1>1, <3>1, DistanceIs
    <3> QED
      BY <1>1, <3>1, <3>2, ReadFromIs DEF TypeInv, Slot
  <2> QED
    BY <1>1, <1>3, <2>1 DEF ResetRoom, Slot
<1> QED
  BY <1>2, <1>3

LEMMA WholeStep ==
  ASSUME TypeInv, RingWhole, [Next]_vars, ~flooded'
  PROVE  RingWhole'
<1>1. TypeInv'
  BY TypeStep
<1>2. TypeOK /\ CallsHeld /\ Fitting /\ Handed /\ ResetRoom /\ TypeInv
  BY DEF RingWhole, TypeInv
<1>3. /\ head \in Slot /\ tail \in Slot /\ Len(Contents) \in Slot
      /\ w.pending \in Seq(Data) /\ Len(w.pending) \in Nat
      /\ (w.pc = "rest" <=> Len(w.pending) = 0)
      /\ r.left \in Nat
  BY <1>2, ReadFromIs, EmptyLen DEF TypeOK, CallsHeld, Slot
<1> SUFFICES Fitting' /\ Handed' /\ ResetRoom'
  BY DEF RingWhole
<1>4. CASE UNCHANGED vars
  BY <1>2, <1>4 DEF vars, Fitting, Handed, ResetRoom, Contents, ReadFrom
<1>5. ASSUME w'.pc = "store", w.pc = "rest", Len(w'.pending) \in Nat,
             Len(w'.pending) < FreeSpace,
             UNCHANGED <<buffer, head, tail, r, out, mode>>
      PROVE  Fitting' /\ Handed' /\ ResetRoom'
  <2>1. ReadFrom' = ReadFrom /\ Contents' = Contents
    BY <1>5 DEF ReadFrom, Contents
  <2>2. /\ Len(w'.pending) < Capacity - Len(Contents)
        /\ r.pc = "reset" => tail = 0 \/ head + Len(w'.pending) < tail
    BY <1>2, <1>5, RoomAtBegin
  <2> QED
    BY <1>2, <1>5, <2>1, <2>2 DEF Fitting, Handed, ResetRoom
<1>6. ASSUME NEW d \in Data, WriteBegin(d) PROVE Fitting' /\ Handed' /\ ResetRoom'
  <2>1. 1 < FreeSpace
    <3>1. Advance(head) # tail
      BY <1>6 DEF WriteBegin, IsFull
    <3> QED
      BY <1>2, <1>3, <3>1, AvailableIs, AdvanceIs DEF FreeSpace, Slot
  <2>2. Len(<<d>>) = 1
    OBVIOUS
  <2> QED
    BY <1>5, <1>6, <2>1, <2>2 DEF WriteBegin, Store
<1>7. ASSUME NEW bytes \in Batches, WriteBatchBegin(bytes)
      PROVE  Fitting' /\ Handed' /\ ResetRoom'
  <2>1. Len(bytes) < FreeSpace /\ Len(bytes) \in Nat /\ FreeSpace \in Nat \ {0}
    <3>1. ~(Len(bytes) >= FreeSpace)
      BY <1>7, Zenon DEF WriteBatchBegin
    <3> QED
      BY <1>2, <3>1, BatchIs, AvailableIs
  <2>2. w'.pending = bytes
    BY <1>7, <2>1, BatchCut DEF WriteBatchBegin, Store
  <2> QED
    BY <1>5, <1>7, <2>1, <2>2 DEF WriteBatchBegin, Store
<1>8. CASE WriteStore
  <2>1. /\ Contents' = Contents /\ head' = head /\ tail' = tail /\ r' = r /\ out' = out
        /\ buffer' = [buffer EXCEPT ![head] = Head(w.pending)]
        /\ w'.pending = w.pending
    BY <1>2, <1>8, StoreKeepsContents DEF WriteStore, TypeOK
  <2>2. buffer'[head] = Head(w.pending)
    BY <1>2, <1>3, <2>1 DEF TypeOK
  <2>3. head # tail => buffer'[tail] = buffer[tail]
    BY <1>2, <1>3, <2>1 DEF TypeOK
  <2> QED
    BY <1>2, <2>1, <2>2, <2>3 DEF Fitting, Handed, ResetRoom
<1>9. CASE WriteAdvance
  <2>1. /\ Len(Contents') = Len(Contents) + 1 /\ Len(Contents) + 1 < Capacity
        /\ buffer' = buffer /\ head' = Advance(head) /\ tail' = tail /\ r' = r /\ out' = out
        /\ w.pc = "advance"
    BY <1>2, <1>9, AdvanceAppends DEF WriteAdvance
  <2>2. Len(w'.pending) = Len(w.pending) - 1 /\ w'.pc # "advance" /\ Len(w.pending) > 0
    <3>1. w.pending # <<>> /\ Len(w.pending) > 0
      BY <1>2, <1>3, <2>1 DEF CallsHeld
    <3>2. Len(Tail(w.pending)) = Len(w.pending) - 1
      BY <1>3, <3>1, HeadTailProperties
    <3>3. Len(<<>>) = 0
      OBVIOUS
    <3>4. CASE Len(w.pending) = 1
      BY <1>9, <3>3, <3>4 DEF WriteAdvance, AtRest
    <3>5. CASE Len(w.pending) # 1
      BY <1>9, <3>1, <3>2, <3>5 DEF WriteAdvance
    <3> QED
      BY <3>4, <3>5
  <2>3. Fitting'
    BY <1>2, <1>3, <2>1, <2>2 DEF Fitting, Slot
  <2>4. r.pc # "reset" /\ head # tail => head' # tail
    <3>1. ASSUME r.pc # "reset", Advance(head) = tail PROVE FALSE
      <4>1. Len(Contents) = Available /\ Available + 1 < Capacity
        BY <1>2, <2>1, <3>1, ReadFromIs
      <4> QED
        BY <1>2, <1>3, <3>1, <4>1, AvailableIs, AdvanceIs DEF Slot
    <3> QED
      BY <2>1, <3>1
  <2>5. Handed'
    BY <1>2, <2>1, <2>2, <2>4 DEF Handed
  <2>6. ResetRoom'
    <3>1. ASSUME r.pc = "reset", tail # 0 PROVE head' + Len(w'.pending) < tail
      <4>1. head + Len(w.pending) < tail /\ head + 1 < Capacity
        BY <1>2, <1>3, <2>2, <3>1 DEF ResetRoom, Slot
      <4>2. head' = head + 1
        BY <1>3, <2>1, <4>1, AdvanceIs
      <4>3. head' + Len(w'.pending) = head + Len(w.pending)
        <5> DEFINE n == Len(w.pending)
                   m == Len(w'.pending)
        <5>1. head \in Int /\ n \in Int /\ m = n - 1
          BY <1>3, <2>2 DEF Slot
        <5> HIDE DEF n, m
        <5>2. head' + m = head + n
          BY <4>2, <5>1
        <5> QED
          BY <5>2 DEF n, m
      <4> QED
        BY <4>1, <4>3
    <3> QED
      BY <2>1, <3>1 DEF ResetRoom
  <2> QED
    BY <2>3, <2>5, <2>6
<1>10. ASSUME r.pc = "rest", r'.pc = "load", r'.left \in Nat, r'.left <= Available,
              head # tail, UNCHANGED <<buffer, head, tail, w, out, mode>>
       PROVE  Fitting' /\ Handed' /\ ResetRoom'
  <2>1. Contents' = Contents
    BY <1>10 DEF ReadFrom, Contents
  <2>2. Len(Contents) = Available
    BY <1>2, <1>10, ReadFromIs
  <2> QED
    BY <1>2, <1>10, <2>1, <2>2 DEF Fitting, Handed, ResetRoom
<1>11. ASSUME NEW n \in 1 .. MaxBatch, ReadBegin(n)
       PROVE  Fitting' /\ Handed' /\ ResetRoom'
  <2>1. Available \in Nat
    BY <1>2, AvailableIs DEF Slot
  <2> QED
    BY <1>10, <1>11, <2>1 DEF ReadBegin, Take, IsEmpty
<1>12. CASE PeekBegin
  <2>1. Available \in Nat
    BY <1>2, AvailableIs DEF Slot
  <2> QED
    BY <1>10, <1>12, <2>1 DEF PeekBegin, Take, IsEmpty
<1>13. CASE ReadLoad
  <2>1. /\ r.pc = "load" /\ r'.pc \in {"rest", "advance"} /\ r'.left = r.left
        /\ out' = buffer[tail] /\ UNCHANGED <<buffer, head, tail, w>>
    BY <1>2, <1>13 DEF ReadLoad, Resting, TypeOK
  <2>2. Contents' = Contents
    BY <2>1 DEF ReadFrom, Contents
  <2> QED
    BY <1>2, <2>1, <2>2 DEF Fitting, Handed, ResetRoom
<1>14. CASE ReadAdvance
  <2>1. /\ r.pc = "advance" /\ r.left > 0 /\ head # tail
        /\ tail' = Advance(tail) /\ UNCHANGED <<buffer, head, w, out>>
        /\ r'.left = r.left - 1 /\ r'.pc \in {"rest", "load"}
        /\ (r'.pc = "load" => r.left > 1)
    BY <1>2, <1>14 DEF ReadAdvance, Resting, CallsHeld, Handed, TypeOK
  <2>2. Len(Contents') = Len(Contents) - 1
    BY <1>2, <1>14, <2>1, AdvanceTakes
  <2>3. Fitting'
    BY <1>2, <1>3, <2>1, <2>2 DEF Fitting, Slot
  <2>4. r'.pc = "load" => head' # tail'
    <3>1. ASSUME r'.pc = "load", head = Advance(tail) PROVE FALSE
      <4>1. Len(Contents) = Available /\ r.left <= Len(Contents) /\ r.left > 1
        BY <1>2, <2>1, <3>1, ReadFromIs DEF Fitting
      <4> QED
        BY <1>2, <1>3, <2>1, <3>1, <4>1, AvailableIs, AdvanceIs DEF Slot
    <3> QED
      BY <2>1, <3>1
  <2> QED
    BY <1>2, <2>1, <2>3, <2>4 DEF Handed, ResetRoom
<1>15. CASE ResetHead
  <2>1. /\ head' = 0 /\ r'.pc = "reset" /\ r'.left = 0 /\ w.pc = "rest"
        /\ UNCHANGED <<buffer, tail, w>>
    BY <1>2, <1>15 DEF ResetHead, ReaderRuns, TypeOK, CallsHeld
  <2>2. Len(Contents') = 0
    <3>1. TypeOK'
      BY <1>1 DEF TypeInv
    <3>2. ReadFrom' = 0 /\ head' = 0
      BY <2>1 DEF ReadFrom
    <3>3. Contents' = [i \in 1 .. Wrap(0 - 0) |-> buffer'[Wrap(0 + i - 1)]]
      BY <3>2 DEF Contents
    <3>4. Wrap(0 - 0) = 0 /\ 0 \in Slot
      BY Distances DEF Slot
    <3>5. Contents' = Between(buffer, 0, 0)
      BY <2>1, <3>3, <3>4 DEF Between
    <3> QED
      BY <1>2, <3>4, <3>5, BetweenFacts DEF TypeOK
  <2> QED
    BY <1>2, <1>3, <2>1, <2>2 DEF Fitting, Handed, ResetRoom, Slot
<1>17. CASE ReadRefused
  BY <1>4, <1>2, <1>17 DEF ReadRefused, Fitting, Handed, ResetRoom, Contents, ReadFrom
<1>16. CASE ResetTail
  <2>1. /\ r.pc = "reset" /\ tail' = 0 /\ r'.pc = "rest" /\ r'.left = 0
        /\ UNCHANGED <<buffer, head, w>>
    BY <1>16 DEF ResetTail, Resting
  <2>2. Contents' = Contents
    BY <2>1 DEF ReadFrom, Contents
  <2> QED
    BY <1>2, <1>3, <2>1, <2>2 DEF Fitting, Handed, ResetRoom, Slot
<1> QED
  BY <1>4, <1>6, <1>7, <1>8, <1>9, <1>11, <1>12, <1>13, <1>14, <1>15, <1>16, <1>17
     DEF Next, WriterStep, ReaderStep

\* A flood ends with an empty buffer and no call in progress but a reset.
LEMMA FloodEnds ==
  ASSUME TypeInv, [Next]_vars, flooded, ~flooded'
  PROVE  /\ RingWhole' /\ Contents' = <<>> /\ out' = out
         /\ ReadRefused \/ ResetHead
<1>1. TypeInv' /\ TypeOK /\ CallsHeld
  BY TypeStep DEF TypeInv
<1>2. ReadRefused \/ ResetHead
  BY DEF vars, Next, WriterStep, ReaderStep, WriteBegin, WriteBatchBegin, WriteStore,
         WriteAdvance, ReadBegin, PeekBegin, ReadLoad, ReadAdvance, ResetTail
<1>3. /\ r'.pc \in {"rest", "reset"} /\ r'.left = 0 /\ w'.pending = <<>> /\ out' = out
      /\ w'.pc = "rest" /\ head' = ReadFrom' /\ (r'.pc = "reset" => head' = 0)
  <2>1. CASE ReadRefused
    BY <1>1, <2>1 DEF ReadRefused, IsEmpty, ReadFrom, CallsHeld
  <2>2. CASE ResetHead
    BY <1>1, <2>2 DEF ResetHead, ReaderRuns, ReadFrom, CallsHeld, TypeOK
  <2> QED
    BY <1>2, <2>1, <2>2
<1>4. TypeOK'
  BY <1>1 DEF TypeInv
<1>5. Contents' = <<>>
  <2>1. head' \in Slot /\ ReadFrom' \in Slot /\ buffer' \in [Slot -> Data] /\ 0 \in Slot
    BY <1>3, <1>4 DEF TypeOK, Slot
  <2>2. Wrap(head' - ReadFrom') = 0
    BY <1>3, <2>1, Distances
  <2>3. Contents' = Between(buffer', ReadFrom', 0)
    BY <2>2 DEF Contents, Between
  <2> QED
    BY <2>1, <2>3, BetweenFacts
<1>6. tail' \in Slot /\ Len(<<>>) = 0
  BY <1>4 DEF TypeOK
<1> QED
  BY <1>2, <1>3, <1>5, <1>6 DEF RingWhole, Fitting, Handed, ResetRoom, Slot

LEMMA RingStep ==
  ASSUME RingInv, [Next]_vars
  PROVE  RingInv'
BY TypeStep, WholeStep, FloodEnds DEF RingInv

LEMMA RingAlways == Spec => []RingInv
<1>1. Init => RingInv
  <2> SUFFICES ASSUME Init PROVE RingInv
    OBVIOUS
  <2>1. TypeInv
    BY TypeInit
  <2>2. head = ReadFrom /\ w.pending = <<>> /\ w.pc = "rest" /\ r.pc = "rest" /\ r.left = 0
    BY DEF Init, AtRest, Resting, ReadFrom
  <2>3. Len(Contents) = 0 /\ Len(w.pending) = 0
    <3>1. Contents = <<>>
      BY <2>1, <2>2, ReadFromIs DEF TypeInv
    <3> QED
      BY <2>2, <3>1
  <2> QED
    BY <2>1, <2>2, <2>3 DEF RingInv, RingWhole, Fitting, Handed, ResetRoom
<1>2. RingInv /\ [Next]_vars => RingInv'
  BY RingStep
<1> QED
  BY <1>1, <1>2, PTL DEF Spec

\* What a call has checked stays true while the other side moves, but in a flooded
\* buffer: no read runs past head and no write reaches tail, however the two sides
\* interleave and wherever a reset is interrupted.
THEOREM NeverOverrun == Spec => []NoOverrun
<1>1. RingInv => NoOverrun
  BY DEF RingInv, RingWhole, Fitting, NoOverrun
<1> QED
  BY <1>1, RingAlways, PTL

-----------------------------------------------------------------------------
(* The ring buffer implements BoundedFifo                                  *)

LEMMA WholeFifoStep ==
  ASSUME TypeInv, RingWhole, [Next]_vars, ~flooded, ~flooded'
  PROVE  [Fifo!Next]_(Fifo!vars)
<1> USE DEF Fifo!Next, Fifo!vars
<1>1. /\ TypeInv /\ TypeOK /\ CallsHeld /\ Fitting /\ Handed
      /\ Contents \in Seq(Data) /\ Len(Contents) \in Slot
      /\ w.pending \in Seq(Data)
  BY ReadFromIs DEF RingWhole, TypeInv, TypeOK
<1>0. flooded' = flooded
  <2>1. flooded \in BOOLEAN /\ flooded' \in BOOLEAN
    BY TypeStep DEF TypeInv, TypeOK
  <2> QED
    BY <2>1, Zenon
<1>2. ASSUME Contents' = Contents, out' = out PROVE [Fifo!Next]_(Fifo!vars)
  BY <1>0, <1>2
<1>3. ASSUME UNCHANGED <<buffer, head, out>>, ReadFrom' = ReadFrom
      PROVE  [Fifo!Next]_(Fifo!vars)
  BY <1>2, <1>3, ContentsKept
<1>4. CASE UNCHANGED vars
  BY <1>3, <1>4 DEF vars, ReadFrom
<1>5. ASSUME NEW d \in Data, WriteBegin(d) PROVE [Fifo!Next]_(Fifo!vars)
  BY <1>3, <1>5 DEF WriteBegin, ReadFrom
<1>6. ASSUME NEW bytes \in Batches, WriteBatchBegin(bytes)
      PROVE  [Fifo!Next]_(Fifo!vars)
  BY <1>3, <1>6 DEF WriteBatchBegin, ReadFrom
<1>7. CASE WriteStore
  BY <1>1, <1>2, <1>7, StoreKeepsContents DEF WriteStore
<1>8. CASE WriteAdvance
  <2>1. /\ Contents' = Append(Contents, Head(w.pending))
        /\ Len(Contents) < Capacity - 1 /\ out' = out
    BY <1>1, <1>8, AdvanceAppends DEF WriteAdvance, Handed, Slot
  <2>2. Head(w.pending) \in Data
    BY <1>1, <1>8, HeadTailProperties DEF WriteAdvance, CallsHeld
  <2> QED
    BY <1>0, <2>1, <2>2 DEF Fifo!Put
<1>9. ASSUME NEW n \in 1 .. MaxBatch, ReadBegin(n) PROVE [Fifo!Next]_(Fifo!vars)
  BY <1>3, <1>9 DEF ReadBegin, Take, ReadFrom
<1>10. CASE PeekBegin
  BY <1>3, <1>10 DEF PeekBegin, Take, ReadFrom
<1>11. CASE ReadLoad
  <2>1. /\ r.pc = "load" /\ r'.pc \in {"rest", "advance"} /\ head # tail
        /\ UNCHANGED <<buffer, head, tail>> /\ out' = buffer[tail]
    BY <1>1, <1>11 DEF ReadLoad, Resting, Handed, TypeOK
  <2>2. Contents' = Contents
    BY <2>1 DEF Contents, ReadFrom
  <2>3. Contents # <<>> /\ Head(Contents) = buffer[tail]
    <3> DEFINE n == Wrap(head - tail)
    <3>1. n \in Slot /\ n # 0 /\ tail \in Slot /\ buffer \in [Slot -> Data]
      BY <1>1, <2>1, Distances DEF TypeOK
    <3>2. Contents = Between(buffer, tail, n)
      BY <2>1, ContentsAre DEF ReadFrom
    <3> HIDE DEF n
    <3>3. n > 0
      BY <3>1 DEF Slot
    <3> QED
      BY <3>1, <3>2, <3>3, BetweenFacts, BetweenShrinks
  <2> QED
    BY <1>0, <2>1, <2>2, <2>3 DEF Fifo!Peek
<1>12. CASE ReadAdvance
  <2>1. head # tail /\ out = buffer[tail] /\ out' = out
    BY <1>1, <1>12 DEF ReadAdvance, Handed
  <2>2. /\ Contents # <<>> /\ Head(Contents) = buffer[tail]
        /\ Contents' = Tail(Contents)
    BY <1>1, <1>12, <2>1, AdvanceTakes
  <2> QED
    BY <1>0, <2>1, <2>2 DEF Fifo!Take
<1>13. CASE ResetHead
  <2>1. head' = 0 /\ ReadFrom' = 0 /\ buffer' = buffer /\ out' = out
    BY <1>1, <1>13 DEF ResetHead, ReadFrom, TypeOK
  <2>2. Wrap(0 - 0) = 0 /\ 0 \in Slot
    BY Distances DEF Slot
  <2>3. Contents' = Between(buffer, 0, 0)
    <3>1. Contents' = [i \in 1 .. Wrap(0 - 0) |-> buffer[Wrap(0 + i - 1)]]
      BY <2>1 DEF Contents
    <3> QED
      BY <2>2, <3>1 DEF Between
  <2>4. Contents' = <<>>
    BY <1>1, <2>2, <2>3, BetweenFacts DEF TypeOK
  <2> QED
    BY <2>1, <2>4 DEF Fifo!Clear
<1>14. CASE ResetTail
  BY <1>3, <1>14 DEF ResetTail, Resting, ReadFrom
<1>15. CASE ReadRefused
  BY <1>3, <1>15 DEF ReadRefused, ReadFrom
<1> QED
  BY <1>4, <1>5, <1>6, <1>7, <1>8, <1>9, <1>10, <1>11, <1>12, <1>13, <1>14, <1>15
     DEF Next, WriterStep, ReaderStep

LEMMA FifoStep ==
  ASSUME RingInv, [Next]_vars
  PROVE  [Fifo!Next]_(Fifo!vars)
<1>1. TypeInv /\ flooded \in BOOLEAN /\ flooded' \in BOOLEAN /\ out' \in Data
  BY TypeStep DEF RingInv, TypeInv, TypeOK
<1>2. CASE flooded'
  BY <1>1, <1>2 DEF Fifo!Next, Fifo!Break
<1>3. CASE flooded /\ ~flooded'
  BY <1>1, <1>3, FloodEnds DEF Fifo!Next, Fifo!Clear
<1>4. CASE ~flooded /\ ~flooded'
  BY <1>1, <1>4, WholeFifoStep DEF RingInv
<1> QED
  BY <1>2, <1>3, <1>4

\* The two sides see a first-in first-out queue of capacity - 1 bytes, however their
\* accesses interleave, but for what a batch of all of free_space destroys: the queue
\* is there again, and empty, when the reader has found it so or has reset it.
THEOREM RingImplementsFifo == Spec => ImplementsFifo
<1>1. Init => Fifo!Init
  <2> SUFFICES ASSUME Init PROVE Fifo!Init
    OBVIOUS
  <2>1. TypeOK /\ head = ReadFrom /\ out \in Data
    BY TypeInit DEF Init, TypeInv, Resting, ReadFrom
  <2>2. Contents = <<>>
    BY <2>1, ReadFromIs
  <2>3. flooded = FALSE
    BY Zenon DEF Init
  <2> QED
    BY <2>1, <2>2, <2>3 DEF Fifo!Init
<1>2. RingInv /\ [Next]_vars => [Fifo!Next]_(Fifo!vars)
  BY FifoStep
<1> QED
  BY <1>1, <1>2, RingAlways, PTL DEF Spec, ImplementsFifo, Fifo!Spec

-----------------------------------------------------------------------------
(* Lines in a sequence of bytes                                            *)

\* What line_buf holds of a line: its first bytes.
Cut(p) == SubSeq(p, 1, IF Len(p) < MaxLine THEN Len(p) ELSE MaxLine)

LEMMA ConcatFacts ==
  ASSUME NEW p \in Seq(Data), NEW q \in Seq(Data)
  PROVE  /\ p \o q \in Seq(Data)
         /\ Len(p \o q) = Len(p) + Len(q)
         /\ \A i \in 1 .. Len(p) : (p \o q)[i] = p[i]
         /\ \A i \in 1 .. Len(q) : (p \o q)[Len(p) + i] = q[i]
         /\ <<>> \o q = q /\ p \o <<>> = p
         /\ Len(p) \in Nat /\ Len(q) \in Nat
<1>1. /\ p \o q \in Seq(Data)
      /\ Len(p \o q) = Len(p) + Len(q)
      /\ \A i \in 1 .. Len(p) + Len(q) :
           (p \o q)[i] = IF i <= Len(p) THEN p[i] ELSE q[i - Len(p)]
  BY ConcatProperties
<1>2. <<>> \o q = q /\ p \o <<>> = p
  BY ConcatEmptySeq
<1>3. Len(p) \in Nat /\ Len(q) \in Nat
  BY LenProperties
<1>4. \A i \in 1 .. Len(p) : (p \o q)[i] = p[i]
  BY <1>1, <1>3
<1>5. \A i \in 1 .. Len(q) : (p \o q)[Len(p) + i] = q[i]
  BY <1>1, <1>3
<1> QED
  BY <1>1, <1>2, <1>3, <1>4, <1>5

\* A byte may be counted to what comes before it or to what comes behind.
LEMMA ByteBetween ==
  ASSUME NEW s \in Seq(Data), NEW d \in Data, NEW t \in Seq(Data)
  PROVE  /\ (s \o <<d>>) \o t = s \o (<<d>> \o t)
         /\ (<<d>> \o s) \o t = <<d>> \o (s \o t)
<1> DEFINE one == <<d>>
<1>1. one \in Seq(Data)
  OBVIOUS
<1> HIDE DEF one
<1>2. /\ (s \o one) \o t = s \o (one \o t)
      /\ (one \o s) \o t = one \o (s \o t)
  BY <1>1, ConcatAssociative
<1> QED
  BY <1>2 DEF one

LEMMA HeadAndTail ==
  ASSUME NEW s \in Seq(Data), s # <<>>
  PROVE  /\ s = <<Head(s)>> \o Tail(s)
         /\ Head(s) \in Data /\ Tail(s) \in Seq(Data) /\ Len(s) \in Nat \ {0}
<1>1. /\ Head(s) \in Data /\ Tail(s) \in Seq(Data) /\ Len(s) \in Nat \ {0}
      /\ Head(s) = s[1] /\ Tail(s) = SubSeq(s, 2, Len(s))
  BY HeadTailProperties, TailIsSubSeq, EmptySeq
<1>2. SubSeq(s, 1, Len(s)) = <<s[1]>> \o SubSeq(s, 1 + 1, Len(s))
  BY <1>1, SubSeqRecursiveFirst
<1>3. SubSeq(s, 1, Len(s)) = s
  BY SubSeqFull
<1> QED
  BY <1>1, <1>2, <1>3

LEMMA LastOfConcat ==
  ASSUME NEW p \in Seq(Data), NEW q \in Seq(Data), q # <<>>
  PROVE  Last(p \o q) = Last(q)
<1>1. Len(q) \in Nat \ {0}
  BY EmptySeq
<1>2. Len(p \o q) = Len(p) + Len(q) /\ (p \o q)[Len(p) + Len(q)] = q[Len(q)]
  BY <1>1, ConcatFacts
<1> QED
  BY <1>2 DEF Last

\* The rest of a sequence behind a byte in it.
LEMMA BehindByte ==
  ASSUME NEW p \in Seq(Data), NEW d \in Data, NEW q \in Seq(Data)
  PROVE  LET s == p \o (<<d>> \o q)
         IN SubSeq(s, Len(p) + 2, Len(s)) = q
<1> DEFINE t == <<d>> \o q
           s == p \o t
           u == SubSeq(s, Len(p) + 2, Len(s))
<1>1. /\ <<d>> \in Seq(Data) /\ Len(<<d>>) = 1
      /\ t \in Seq(Data) /\ Len(t) = 1 + Len(q)
      /\ \A i \in 1 .. Len(q) : t[1 + i] = q[i]
      /\ Len(q) \in Nat /\ Len(p) \in Nat
  BY ConcatFacts
<1> HIDE DEF t
<1>2. /\ s \in Seq(Data) /\ Len(s) = Len(p) + Len(t)
      /\ \A i \in 1 .. Len(t) : s[Len(p) + i] = t[i]
  BY <1>1, ConcatFacts
<1> HIDE DEF s
<1>3. \A i \in 1 .. Len(q) : s[Len(p) + 1 + i] = q[i]
  <2> TAKE i \in 1 .. Len(q)
  <2>1. 1 + i \in 1 .. Len(t)
    BY <1>1
  <2>2. s[Len(p) + (1 + i)] = t[1 + i]
    BY <1>2, <2>1
  <2>3. Len(p) + (1 + i) = Len(p) + 1 + i
    BY <1>1
  <2> QED
    BY <1>1, <2>2, <2>3
<1>4. \A i \in (Len(p) + 2) .. Len(s) : s[i] \in Data
  BY <1>1, <1>2, ElementOfSeq
<1>5. /\ u \in Seq(Data) /\ Len(u) = Len(q)
      /\ \A i \in 1 .. Len(q) : u[i] = s[Len(p) + 1 + i]
  <2> DEFINE m == Len(p) + 2
             n == Len(s)
  <2>1. m \in Int /\ n \in Int /\ n - m + 1 = Len(q) /\ (m <= n <=> Len(q) > 0)
    BY <1>1, <1>2
  <2>2. \A i \in 1 .. Len(q) : m + i - 1 = Len(p) + 1 + i
    BY <1>1
  <2> HIDE DEF m, n
  <2>3. /\ SubSeq(s, m, n) \in Seq(Data)
        /\ Len(SubSeq(s, m, n)) = IF m <= n THEN n - m + 1 ELSE 0
        /\ \A i \in 1 .. n - m + 1 : SubSeq(s, m, n)[i] = s[m + i - 1]
    <3>1. \A i \in m .. n : s[i] \in Data
      BY <1>4 DEF m, n
    <3> QED
      BY <2>1, <3>1, SubSeqProperties
  <2>4. Len(SubSeq(s, m, n)) = Len(q)
    BY <1>1, <2>1, <2>3
  <2> QED
    BY <2>1, <2>2, <2>3, <2>4 DEF m, n
<1> HIDE DEF u
<1>6. u = q
  BY <1>3, <1>5, SeqEqual
<1> QED
  BY <1>6 DEF u, s, t

LEMMA PrefixOfConcat ==
  ASSUME NEW p \in Seq(Data), NEW q \in Seq(Data), NEW n \in 0 .. Len(p)
  PROVE  SubSeq(p \o q, 1, n) = SubSeq(p, 1, n)
<1>1. Len(p) \in Nat
  BY ConcatFacts
<1>2. CASE n = 0
  BY <1>2, SubSeqEmpty
<1>3. CASE n # 0
  <2>1. n \in 1 .. Len(p) /\ 1 \in 1 .. Len(p)
    BY <1>1, <1>3
  <2> QED
    BY <2>1, SubSeqOfConcat1
<1> QED
  BY <1>2, <1>3

LEMMA LineRoom == MaxLine \in Nat
BY LineAssumption DEF MaxLine

LEMMA CutEmpty == Cut(<<>>) = <<>>
<1>1. Len(<<>>) = 0 /\ <<>> \in Seq(Data)
  BY EmptySeq
<1>2. Cut(<<>>) = SubSeq(<<>>, 1, 0)
  BY <1>1, LineRoom DEF Cut
<1> QED
  BY <1>2, SubSeqEmpty

\* One more byte of the line is kept if there is room and dropped if not.
LEMMA CutGrows ==
  ASSUME NEW p \in Seq(Data), NEW d \in Data
  PROVE  /\ Keep(Cut(p), d) = Cut(p \o <<d>>)
         /\ Cut(p) \in Seq(Data)
<1> DEFINE q == p \o <<d>>
           n == Len(p)
           k == IF n < MaxLine THEN n ELSE MaxLine
<1>1. /\ <<d>> \in Seq(Data) /\ q \in Seq(Data) /\ Len(q) = n + 1 /\ n \in Nat
      /\ MaxLine \in Nat /\ k \in 0 .. n
      /\ Len(<<d>>) = 1
  BY ConcatFacts, LineRoom
<1>2. /\ SubSeq(p, 1, k) \in Seq(Data)
      /\ Len(SubSeq(p, 1, k)) = k
  <2>1. \A i \in 1 .. k : p[i] \in Data
    BY <1>1, ElementOfSeq
  <2> HIDE DEF k
  <2> QED
    BY <1>1, <2>1, SubSeqProperties
<1>3. Cut(p) = SubSeq(p, 1, k)
  BY DEF Cut
<1>4. CASE n < MaxLine
  <2>1. Cut(p) = p /\ k = n
    BY <1>3, <1>4, SubSeqFull
  <2>2. Cut(q) = q
    <3>1. Cut(q) = SubSeq(q, 1, n + 1)
      BY <1>1, <1>4 DEF Cut
    <3> QED
      BY <1>1, <3>1, SubSeqFull
  <2>3. Keep(p, d) = Append(p, d)
    BY <1>4 DEF Keep
  <2> QED
    BY <1>2, <1>3, <2>1, <2>2, <2>3, AppendIsConcat
<1>5. CASE ~(n < MaxLine)
  <2>1. k = MaxLine /\ Len(Cut(p)) = MaxLine
    BY <1>2, <1>3, <1>5
  <2>2. Keep(Cut(p), d) = Cut(p)
    BY <1>1, <2>1 DEF Keep
  <2>3. Cut(q) = SubSeq(q, 1, MaxLine)
    BY <1>1, <1>5 DEF Cut
  <2>4. SubSeq(q, 1, MaxLine) = SubSeq(p, 1, MaxLine)
    BY <1>1, <2>1, PrefixOfConcat
  <2> QED
    BY <1>2, <1>3, <2>1, <2>2, <2>3, <2>4
<1> QED
  BY <1>4, <1>5

\* The place of the first terminator.
FirstEnd == SelectInSeq(sent, IsTerminator)

\* The line to be printed is what stands before the first terminator.
LEMMA LineBefore ==
  ASSUME NEW p \in Seq(Data), NEW d \in Data, NEW q \in Seq(Data),
         IsTerminator(d), \A i \in 1 .. Len(p) : ~IsTerminator(p[i]),
         sent = p \o (<<d>> \o q)
  PROVE  /\ FirstEnd = Len(p) + 1
         /\ NextLine = Cut(p)
<1> DEFINE t == <<d>> \o q
           n == Len(p)
           I == {i \in 1 .. Len(sent) : IsTerminator(sent[i])}
<1>1. /\ <<d>> \in Seq(Data) /\ Len(<<d>>) = 1 /\ t \in Seq(Data)
      /\ Len(t) = 1 + Len(q) /\ t[1] = d /\ n \in Nat /\ Len(q) \in Nat
  <2>1. <<d>> \in Seq(Data) /\ Len(<<d>>) = 1 /\ <<d>>[1] = d
    OBVIOUS
  <2> QED
    BY <2>1, ConcatFacts
<1> HIDE DEF t
<1>2. /\ Len(sent) = n + Len(t) /\ sent[n + 1] = d
      /\ \A i \in 1 .. n : sent[i] = p[i]
  <2>1. sent = p \o t
    BY DEF t
  <2> QED
    BY <1>1, <2>1, ConcatFacts
<1>3. n + 1 \in I /\ \A i \in I : n + 1 <= i
  <2>1. n + 1 \in 1 .. Len(sent)
    BY <1>1, <1>2
  <2>2. ASSUME NEW i \in I, i < n + 1 PROVE FALSE
    <3>1. i \in 1 .. n
      BY <1>1, <2>2
    <3>2. ~IsTerminator(sent[i])
      BY <1>2, <3>1
    <3> QED
      BY <2>2, <3>2
  <2>3. \A i \in I : n + 1 <= i
    BY <1>1, <2>2
  <2> QED
    BY <1>2, <2>1, <2>3
<1>4. \A m \in I : (\A i \in I : m <= i) => m = n + 1
  <2>1. I \subseteq Nat
    BY <1>1, <1>2
  <2> HIDE DEF I, n
  <2> QED
    BY <1>1, <1>3, <2>1
<1>5. SelectInSeq(sent, IsTerminator) = IF I # {} THEN Min(I) ELSE 0
  BY DEF SelectInSeq
<1>6. I # {} /\ Min(I) = n + 1
  <2> HIDE DEF I
  <2> QED
    BY <1>3, <1>4 DEF Min
<1>7. SelectInSeq(sent, IsTerminator) = n + 1
  BY <1>5, <1>6
<1>8. FirstEnd = n + 1
  BY <1>7 DEF FirstEnd
<1>9. NextLine = Cut(p)
  <2> DEFINE k == IF n < MaxLine THEN n ELSE MaxLine
  <2>1. NextLine = SubSeq(sent, 1, k)
    <3> HIDE DEF n
    <3>1. (n + 1) - 1 = n
      BY <1>1
    <3> QED
      BY <1>7, <3>1, Zenon DEF NextLine
  <2>2. k \in 0 .. Len(p)
    BY <1>1, LineRoom
  <2>3. SubSeq(sent, 1, k) = SubSeq(p, 1, k)
    <3> HIDE DEF k
    <3> QED
      BY <1>1, <2>2, PrefixOfConcat DEF t
  <2> QED
    BY <2>1, <2>3 DEF Cut
<1> QED
  BY <1>8, <1>9

-----------------------------------------------------------------------------
(* The parser                                                              *)

\* The bytes received and not parsed: the one that the parser has just read, those
\* in the buffer, and those that the interrupt has yet to store.
InParser == IF parser.pc = "parse" THEN <<out>> ELSE <<>>
Waiting == Contents \o w.pending
Unread == InParser \o Waiting

\* The main loop does nothing but read byte after byte.
ParserInv ==
  user = "uart" =>
    /\ parser \in [pc : {"away", "loop", "read", "parse"}, line : Seq(Data)]
    /\ mode = "writer" /\ r.pc # "reset"
    /\ parser.pc = "read" <=> r.pc # "rest"
    /\ r.left <= 1
    /\ r.pc = "load" => r.left = 1

\* The parser is behind the bytes p of a line.
Parsed(p) ==
  /\ sent = p \o Unread
  /\ \A i \in 1 .. Len(p) : ~IsTerminator(p[i])
  /\ parser.pc = "away" => p = <<>>
  /\ parser.line = Cut(p)

\* It is so somewhere in what was received, if the buffer is not flooded.
LineInv == user = "uart" /\ ~flooded => \E p \in Seq(Data) : Parsed(p)

UartInv == RingInv /\ ParserInv /\ LineInv

LEMMA UartRefinesRing ==
  ASSUME [UartNext]_uartVars
  PROVE  [Next]_vars
<1>1. CASE UNCHANGED uartVars
  BY <1>1 DEF uartVars
<1>2. CASE user = "api" /\ Next
  BY <1>2
<1>3. ASSUME NEW bytes \in Batches, Receive(bytes) PROVE [Next]_vars
  BY <1>3 DEF Receive, Next, WriterStep
<1>4. CASE ReceiveRest
  BY <1>4 DEF ReceiveRest, Next, WriterStep
<1>5. CASE ReadByte
  <2>1. 1 \in 1 .. MaxBatch
    OBVIOUS
  <2> QED
    BY <1>5, <2>1 DEF ReadByte, Next, ReaderStep
<1>6. CASE ReadRest
  BY <1>6 DEF ReadRest, Next, ReaderStep
<1>7. CASE Enter \/ Parse \/ EndLine
  BY <1>7 DEF Enter, Parse, EndLine
<1>8. CASE Return
  BY <1>8 DEF Return, Next, ReaderStep
<1> QED
  BY <1>1, <1>2, <1>3, <1>4, <1>5, <1>6, <1>7, <1>8 DEF UartNext, MainLoop

\* The example uses the buffer as DsRingBuf describes its use, so that what holds
\* there, the types, the indices and the queue, holds in the example.
THEOREM UartUsesRing == UartSpec => Spec
<1>1. UartInit => Init
  BY DEF UartInit
<1>2. [UartNext]_uartVars => [Next]_vars
  BY UartRefinesRing
<1> QED
  BY <1>1, <1>2, PTL DEF UartSpec, Spec

LEMMA ParserStep ==
  ASSUME TypeInv, ParserInv, [UartNext]_uartVars
  PROVE  ParserInv'
<1> SUFFICES ASSUME user' = "uart" PROVE ParserInv'
  BY DEF ParserInv
<1>1. user = "uart"
  BY DEF UartNext, uartVars, Receive, ReceiveRest, MainLoop, Enter, ReadByte,
         ReadRest, Return, Parse, EndLine
<1>2. /\ parser \in [pc : {"away", "loop", "read", "parse"}, line : Seq(Data)]
      /\ mode = "writer" /\ r.pc # "reset"
      /\ parser.pc = "read" <=> r.pc # "rest"
      /\ r.left <= 1
      /\ r.pc = "load" => r.left = 1
  BY <1>1 DEF ParserInv
<1>3. /\ r \in [pc : {"rest", "load", "advance", "reset"}, left : 0 .. Capacity - 1]
      /\ out \in Data
      /\ r.pc \in {"rest", "reset"} => r.left = 0
      /\ r.pc = "advance" => r.left > 0
  BY DEF TypeInv, TypeOK, CallsHeld
<1> USE DEF ParserInv
<1>4. CASE UNCHANGED <<parser, r, mode>>
  BY <1>2, <1>4
<1>5. CASE UNCHANGED uartVars
  BY <1>4, <1>5 DEF uartVars, vars
<1>6. ASSUME NEW bytes \in Batches, Receive(bytes) PROVE ParserInv'
  BY <1>4, <1>6 DEF Receive, WriteBatchBegin
<1>7. CASE ReceiveRest
  BY <1>4, <1>7 DEF ReceiveRest, WriteStore, WriteAdvance
<1>8. CASE Enter
  BY <1>2, <1>8 DEF Enter, Goto, vars
<1>9. CASE ReadByte
  <2>1. Available \in Nat /\ ~IsEmpty /\ Available # 0
    BY <1>9, AvailableIs DEF ReadByte, ReadBegin, TypeInv, Slot
  <2>2. r'.pc = "load" /\ r'.left = 1
    BY <1>9, <2>1 DEF ReadByte, ReadBegin, Take
  <2> QED
    BY <1>2, <1>9, <2>2 DEF ReadByte, ReadBegin, Goto
<1>10. CASE ReadRest
  <2>1. /\ r'.pc \in {"rest", "advance"} /\ r'.left <= 1 /\ mode' = mode
    BY <1>2, <1>3, <1>10 DEF ReadRest, ReadLoad, ReadAdvance, Resting
  <2> QED
    BY <1>2, <1>10, <2>1 DEF ReadRest, Goto
<1>11. CASE Return
  <2>1. <<>> \in Seq(Data)
    BY EmptySeq
  <2> QED
    BY <1>2, <1>11, <2>1 DEF Return, ReadRefused
<1>12. CASE Parse
  <2>1. Keep(parser.line, out) \in Seq(Data)
    BY <1>2, <1>3, AppendProperties DEF Keep
  <2> QED
    BY <1>2, <1>12, <2>1 DEF Parse, vars
<1>13. CASE EndLine
  <2>1. <<>> \in Seq(Data)
    BY EmptySeq
  <2> QED
    BY <1>2, <1>13, <2>1 DEF EndLine, vars
<1> QED
  BY <1>1, <1>5, <1>6, <1>7, <1>8, <1>9, <1>10, <1>11, <1>12, <1>13
     DEF UartNext, MainLoop

LEMMA UnreadIs ==
  ASSUME TypeInv
  PROVE  /\ out \in Data /\ InParser \in Seq(Data)
         /\ Contents \in Seq(Data) /\ w.pending \in Seq(Data)
         /\ Waiting \in Seq(Data) /\ Unread \in Seq(Data)
<1>1. /\ out \in Data /\ Contents \in Seq(Data) /\ w.pending \in Seq(Data)
  BY ReadFromIs DEF TypeInv, TypeOK
<1>2. InParser \in Seq(Data)
  BY <1>1, EmptySeq DEF InParser
<1>3. Waiting \in Seq(Data)
  BY <1>1, ConcatProperties DEF Waiting
<1> QED
  BY <1>1, <1>2, <1>3, ConcatProperties DEF Unread

\* A step of the interrupt that has begun moves a byte and loses none.
LEMMA MovedBytes ==
  ASSUME TypeInv, RingWhole, ReceiveRest
  PROVE  Unread' = Unread
<1>1. UNCHANGED <<parser, out>>
  BY DEF ReceiveRest, WriteStore, WriteAdvance
<1>2. CASE WriteStore
  <2>1. Contents' = Contents /\ w'.pending = w.pending
    BY <1>2, StoreKeepsContents DEF RingWhole, WriteStore, TypeInv, TypeOK
  <2> QED
    BY <1>1, <2>1 DEF Unread, Waiting, InParser
<1>3. CASE WriteAdvance
  <2> DEFINE s == w.pending
  <2>1. /\ s \in Seq(Data) /\ s # <<>> /\ Contents \in Seq(Data)
        /\ buffer[head] = Head(s)
    BY <1>3, UnreadIs DEF RingWhole, TypeInv, CallsHeld, Handed, WriteAdvance
  <2>2. /\ s = <<Head(s)>> \o Tail(s)
        /\ Head(s) \in Data /\ Tail(s) \in Seq(Data) /\ Len(s) \in Nat \ {0}
    BY <2>1, HeadAndTail
  <2>3. Contents' = Contents \o <<Head(s)>>
    <3>1. Contents' = Append(Contents, Head(s))
      BY <1>3, <2>1, AdvanceAppends DEF RingWhole
    <3> QED
      BY <2>1, <2>2, <3>1, AppendIsConcat
  <2>4. w'.pending = Tail(s)
    <3>1. CASE Len(s) = 1
      <4>1. Len(Tail(s)) = 0
        BY <2>1, <3>1, HeadTailProperties
      <4>2. Tail(s) = <<>>
        BY <2>2, <4>1, EmptyLen
      <4> QED
        BY <1>3, <3>1, <4>2 DEF WriteAdvance, AtRest
    <3>2. CASE Len(s) # 1
      BY <1>3, <3>2 DEF WriteAdvance
    <3> QED
      BY <3>1, <3>2
  <2>5. (Contents \o <<Head(s)>>) \o Tail(s) = Contents \o (<<Head(s)>> \o Tail(s))
    <3> HIDE DEF s
    <3> QED
      BY <2>1, <2>2, ByteBetween, Zenon
  <2>6. Waiting' = Waiting
    BY <2>2, <2>3, <2>4, <2>5 DEF Waiting
  <2> QED
    BY <1>1, <2>6 DEF Unread, InParser
<1> QED
  BY <1>2, <1>3 DEF ReceiveRest

\* A step of a read that has begun does neither.
LEMMA ReadBytes ==
  ASSUME TypeInv, RingWhole, ParserInv, user = "uart", ReadRest
  PROVE  Unread' = Unread
<1>1. /\ parser.pc = "read" /\ w' = w /\ r.left <= 1
      /\ parser \in [pc : {"away", "loop", "read", "parse"}, line : Seq(Data)]
      /\ r.pc = "load" => r.left = 1
      /\ r.pc = "advance" => r.left > 0
      /\ r \in [pc : {"rest", "load", "advance", "reset"}, left : 0 .. Capacity - 1]
  BY DEF ReadRest, ReadLoad, ReadAdvance, ParserInv, RingWhole, TypeInv, TypeOK, CallsHeld
<1>2. InParser = <<>>
  BY <1>1 DEF InParser
<1>3. CASE ReadLoad
  <2>1. /\ r.pc = "load" /\ r'.pc = "advance" /\ UNCHANGED <<buffer, head, tail>>
    BY <1>1, <1>3 DEF ReadLoad
  <2>2. Contents' = Contents
    BY <2>1, ContentsKept DEF ReadFrom
  <2>3. parser'.pc = "read"
    BY <1>1, <2>1 DEF ReadRest, Goto
  <2>4. InParser' = <<>>
    BY <2>3 DEF InParser
  <2> QED
    BY <1>1, <1>2, <2>2, <2>4 DEF Unread, Waiting
<1>4. CASE ReadAdvance
  <2>1. /\ r.pc = "advance" /\ r.left = 1 /\ r'.pc = "rest" /\ out' = out
    BY <1>1, <1>4 DEF ReadAdvance, Resting
  <2>2. parser'.pc = "parse"
    BY <1>1, <2>1 DEF ReadRest, Goto
  <2>3. InParser' = <<out>>
    BY <2>1, <2>2 DEF InParser
  <2>4. /\ Contents # <<>> /\ out = Head(Contents) /\ Contents' = Tail(Contents)
    <3>1. head # tail /\ out = buffer[tail]
      BY <2>1 DEF RingWhole, Handed
    <3> QED
      BY <1>4, <3>1, AdvanceTakes DEF RingWhole
  <2>5. /\ Contents = <<out>> \o Contents' /\ <<out>> \in Seq(Data)
        /\ Contents' \in Seq(Data)
    BY <2>4, UnreadIs, HeadAndTail
  <2>6. (<<out>> \o Contents') \o w.pending = <<out>> \o (Contents' \o w.pending)
    BY <2>5, UnreadIs, ByteBetween, Zenon
  <2>7. Unread = Contents \o w.pending
    BY <1>2, UnreadIs, ConcatFacts DEF Unread, Waiting
  <2>8. Unread' = <<out>> \o (Contents' \o w.pending)
    BY <1>1, <2>3 DEF Unread, Waiting
  <2> QED
    BY <2>5, <2>6, <2>7, <2>8
<1> QED
  BY <1>3, <1>4 DEF ReadRest

\* process_uart_data returns when all that was received is parsed.
LEMMA ReturnEmpties ==
  ASSUME TypeInv, ParserInv, user = "uart", Return
  PROVE  Parsed(<<>>)' /\ <<>> \in Seq(Data)
<1>1. /\ w.pc = "rest" /\ r.pc = "rest" /\ head = tail /\ w' = w
      /\ UNCHANGED <<buffer, head, tail, r>>
      /\ parser'.pc = "away" /\ parser'.line = <<>> /\ sent' = <<>>
  BY DEF ParserInv, Return, ReadRefused, ReaderRuns, IsEmpty
<1>2. w.pending = <<>> /\ Contents = <<>> /\ InParser' = <<>>
  BY <1>1, ReadFromIs DEF TypeInv, CallsHeld, InParser
<1>3. Contents' = Contents
  BY <1>1, ContentsKept DEF ReadFrom
<1>4. <<>> \o <<>> = <<>> /\ <<>> \in Seq(Data) /\ Len(<<>>) = 0
  BY EmptySeq
<1>5. Unread' = <<>>
  BY <1>1, <1>2, <1>3, <1>4 DEF Unread, Waiting
<1> QED
  BY <1>1, <1>4, <1>5, CutEmpty DEF Parsed

LEMMA LineStep ==
  ASSUME UartInv, [UartNext]_uartVars, ~flooded
  PROVE  LineInv'
<1> SUFFICES ASSUME user' = "uart", ~flooded' PROVE LineInv'
  BY DEF LineInv
<1>1. user = "uart"
  BY DEF UartNext, uartVars, Receive, ReceiveRest, MainLoop, Enter, ReadByte,
         ReadRest, Return, Parse, EndLine
<1>2. /\ TypeInv /\ RingWhole /\ ParserInv
      /\ parser \in [pc : {"away", "loop", "read", "parse"}, line : Seq(Data)]
      /\ mode = "writer" /\ r.pc # "reset"
  BY <1>1 DEF UartInv, RingInv, ParserInv
<1>3. PICK p \in Seq(Data) : Parsed(p)
  BY <1>1 DEF UartInv, LineInv
<1>5. /\ out \in Data /\ InParser \in Seq(Data)
      /\ Contents \in Seq(Data) /\ w.pending \in Seq(Data)
      /\ Waiting \in Seq(Data) /\ Unread \in Seq(Data)
  BY <1>2, UnreadIs
<1>6. ASSUME Unread' = Unread, sent' = sent, parser'.line = parser.line,
             parser.pc # "away", parser'.pc # "away"
      PROVE  LineInv'
  BY <1>3, <1>6 DEF LineInv, Parsed
<1>7. ASSUME UNCHANGED vars
      PROVE  Waiting' = Waiting
  BY <1>7 DEF vars, Waiting, Contents, ReadFrom
<1>8. CASE UNCHANGED uartVars
  <2>1. Waiting' = Waiting
    BY <1>7, <1>8 DEF uartVars
  <2>2. Unread' = Unread
    BY <1>8, <2>1 DEF uartVars, vars, Unread, InParser
  <2> QED
    BY <1>3, <1>8, <2>2 DEF uartVars, LineInv, Parsed
<1>9. ASSUME NEW bytes \in Batches, Receive(bytes) PROVE LineInv'
  <2>1. bytes \in Seq(Data) /\ bytes # <<>>
    BY BatchIs
  <2>2. /\ w.pc = "rest" /\ UNCHANGED <<buffer, head, tail, r, out, parser>>
    BY <1>9 DEF Receive, WriteBatchBegin
  <2>3. w.pending = <<>>
    BY <1>2, <2>2 DEF TypeInv, CallsHeld
  <2>4. w'.pending = bytes
    <3>1. Len(bytes) < FreeSpace /\ Len(bytes) \in Nat /\ FreeSpace \in Nat \ {0}
      <4>1. ~(Len(bytes) >= FreeSpace)
        BY <1>9, Zenon DEF Receive, WriteBatchBegin
      <4> QED
        BY <1>2, <4>1, BatchIs, AvailableIs DEF TypeInv
    <3> QED
      BY <1>9, <2>1, <3>1, BatchCut DEF Receive, WriteBatchBegin, Store
  <2>5. Contents' = Contents /\ InParser' = InParser
    BY <2>2, ContentsKept DEF ReadFrom, InParser
  <2> DEFINE u == InParser \o Contents
  <2>6. Unread = u /\ u \in Seq(Data)
    <3>1. Contents \o <<>> = Contents
      BY <1>5, ConcatFacts
    <3> QED
      BY <1>5, <2>3, <3>1 DEF Unread, Waiting
  <2>7. Unread' = InParser \o (Contents \o bytes)
    BY <2>4, <2>5 DEF Unread, Waiting
  <2>8. Unread' = u \o bytes
    <3>1. (InParser \o Contents) \o bytes = InParser \o (Contents \o bytes)
      <4>1. /\ InParser \in Seq(Data) /\ Contents \in Seq(Data)
            /\ bytes \in Seq(Data)
        BY <1>5, <2>1
      <4> QED
        BY <4>1, ConcatAssociative
    <3> QED
      BY <2>7, <3>1
  <2> HIDE DEF u
  <2>9. sent' = (p \o u) \o bytes
    BY <1>3, <1>9, <2>4, <2>6 DEF Receive, Parsed
  <2>10. sent' = p \o (u \o bytes)
    BY <2>1, <2>6, <2>9, ConcatAssociative
  <2> QED
    BY <1>3, <2>2, <2>8, <2>10 DEF LineInv, Parsed
<1>10. CASE ReceiveRest
  <2>1. Unread' = Unread /\ UNCHANGED <<parser, sent>>
    BY <1>2, <1>10, MovedBytes DEF ReceiveRest
  <2> QED
    BY <1>3, <2>1 DEF LineInv, Parsed
<1>11. CASE Enter
  <2>1. Waiting' = Waiting /\ out' = out
    BY <1>7, <1>11 DEF Enter, vars
  <2>2. /\ parser.pc = "away" /\ parser'.pc = "loop" /\ parser'.line = parser.line
        /\ sent' = sent
    BY <1>2, <1>11 DEF Enter, Goto
  <2>3. Unread' = Unread
    BY <2>1, <2>2 DEF Unread, InParser
  <2> QED
    BY <1>3, <2>2, <2>3 DEF LineInv, Parsed
<1>12. CASE ReadByte
  <2>1. /\ UNCHANGED <<buffer, head, tail, w, out, sent>> /\ r'.pc = "load"
        /\ parser.pc = "loop" /\ parser'.pc = "read" /\ parser'.line = parser.line
    BY <1>2, <1>12 DEF ReadByte, ReadBegin, Take, Goto
  <2>2. Contents' = Contents
    BY <1>2, <2>1, ContentsKept DEF ReadFrom
  <2>3. Unread' = Unread
    BY <2>1, <2>2 DEF Unread, Waiting, InParser
  <2> QED
    BY <1>6, <2>1, <2>3
<1>13. CASE ReadRest
  <2>1. Unread' = Unread
    BY <1>1, <1>2, <1>13, ReadBytes
  <2>2. /\ parser.pc = "read" /\ parser'.pc \in {"parse", "read"}
        /\ parser'.line = parser.line /\ sent' = sent
    BY <1>2, <1>13 DEF ReadRest, Goto
  <2> QED
    BY <1>6, <2>1, <2>2
<1>14. CASE Return
  BY <1>1, <1>2, <1>14, ReturnEmpties DEF LineInv
<1>15. CASE Parse
  <2>1. /\ Waiting' = Waiting /\ sent' = sent /\ ~IsTerminator(out)
        /\ parser.pc = "parse" /\ parser'.pc = "loop"
        /\ parser'.line = Keep(parser.line, out)
    BY <1>7, <1>15 DEF Parse
  <2>2. <<out>> \in Seq(Data) /\ Len(<<out>>) = 1 /\ <<out>>[1] = out
    BY <1>5
  <2>9. PICK q \in Seq(Data) : q = p \o <<out>>
    BY <2>2, ConcatFacts
  <2>3. /\ Len(q) = Len(p) + 1
        /\ \A i \in 1 .. Len(p) : q[i] = p[i]
        /\ q[Len(p) + 1] = out /\ Len(p) \in Nat
    BY <2>2, <2>9, ConcatFacts
  <2>4. parser'.line = Cut(q)
    BY <1>3, <1>5, <2>1, <2>9, CutGrows DEF Parsed
  <2>5. sent' = q \o Waiting
    <3>1. sent = p \o (<<out>> \o Waiting)
      BY <1>3, <2>1 DEF Parsed, Unread, InParser
    <3> QED
      BY <1>5, <2>1, <2>9, <3>1, ByteBetween
  <2>6. Unread' = Waiting
    <3>1. Unread' = <<>> \o Waiting
      BY <2>1 DEF Unread, InParser
    <3> QED
      BY <1>5, <3>1, ConcatFacts
  <2>7. \A i \in 1 .. Len(q) : ~IsTerminator(q[i])
    <3> TAKE i \in 1 .. Len(q)
    <3>1. CASE i = Len(p) + 1
      BY <2>1, <2>3, <3>1
    <3>2. CASE i # Len(p) + 1
      <4>1. i \in 1 .. Len(p)
        BY <2>3, <3>2
      <4> QED
        BY <1>3, <2>3, <4>1 DEF Parsed
    <3> QED
      BY <3>1, <3>2
  <2>8. Parsed(q)'
    BY <2>1, <2>4, <2>5, <2>6, <2>7 DEF Parsed
  <2> QED
    BY <2>8, <2>9 DEF LineInv
<1>16. CASE EndLine
  <2>1. /\ Waiting' = Waiting /\ IsTerminator(out)
        /\ parser.pc = "parse" /\ parser'.pc = "loop" /\ parser'.line = <<>>
        /\ sent' = SubSeq(sent, FirstEnd + 1, Len(sent))
    BY <1>7, <1>16 DEF EndLine, FirstEnd
  <2>2. sent = p \o (<<out>> \o Waiting)
    BY <1>3, <2>1 DEF Parsed, Unread, InParser
  <2>3. FirstEnd = Len(p) + 1 /\ Len(p) \in Nat
    <3>1. \A i \in 1 .. Len(p) : ~IsTerminator(p[i])
      BY <1>3 DEF Parsed
    <3> QED
      BY <1>5, <2>1, <2>2, <3>1, LineBefore, LenProperties
  <2>4. sent' = Waiting
    <3>1. FirstEnd + 1 = Len(p) + 2
      BY <2>3
    <3>2. SubSeq(sent, Len(p) + 2, Len(sent)) = Waiting
      BY <1>5, <2>2, BehindByte
    <3> QED
      BY <2>1, <3>1, <3>2
  <2>5. Unread' = Waiting
    <3>1. Unread' = <<>> \o Waiting
      BY <2>1 DEF Unread, InParser
    <3> QED
      BY <1>5, <3>1, ConcatFacts
  <2>6. <<>> \o Waiting = Waiting /\ <<>> \in Seq(Data)
    BY <1>5, ConcatFacts, EmptySeq
  <2>7. Cut(<<>>) = <<>>
    BY CutEmpty
  <2>8. Parsed(<<>>)'
    BY <2>1, <2>4, <2>5, <2>6, <2>7 DEF Parsed
  <2> QED
    BY <2>6, <2>8 DEF LineInv
<1> QED
  BY <1>1, <1>8, <1>9, <1>10, <1>11, <1>12, <1>13, <1>14, <1>15, <1>16
     DEF UartNext, MainLoop

\* A call of process_uart_data returns with nothing left unread, and with a flood
\* behind it.
LEMMA LineRestored ==
  ASSUME UartInv, [UartNext]_uartVars, flooded
  PROVE  LineInv'
<1> SUFFICES ASSUME user' = "uart", ~flooded' PROVE LineInv'
  BY DEF LineInv
<1>1. user = "uart"
  BY DEF UartNext, uartVars, Receive, ReceiveRest, MainLoop, Enter, ReadByte,
         ReadRest, Return, Parse, EndLine
<1>2. TypeInv /\ ParserInv
  BY DEF UartInv, RingInv
<1>3. ReadRefused \/ ResetHead
  BY <1>2, UartRefinesRing, FloodEnds
<1>4. Return
  BY <1>1, <1>3 DEF UartNext, uartVars, vars, Receive, ReceiveRest, MainLoop, Enter,
         ReadByte, ReadRest, Parse, EndLine, WriteBatchBegin, WriteStore, WriteAdvance,
         ReadBegin, ReadLoad, ReadAdvance
<1> QED
  BY <1>1, <1>2, <1>4, ReturnEmpties DEF LineInv

LEMMA UartAlways == UartSpec => []UartInv
<1>1. UartInit => UartInv
  <2> SUFFICES ASSUME UartInit PROVE UartInv
    OBVIOUS
  <2>1. /\ TypeInv /\ w.pending = <<>> /\ w.pc = "rest" /\ r.pc = "rest" /\ r.left = 0
        /\ head = ReadFrom
    BY TypeInit DEF UartInit, Init, AtRest, Resting, ReadFrom
  <2>2. Contents = <<>>
    BY <2>1, ReadFromIs DEF TypeInv
  <2>3. Len(<<>>) = 0 /\ <<>> \o <<>> = <<>> /\ <<>> \in Seq(Data)
    BY EmptySeq
  <2>4. RingInv
    BY <2>1, <2>2, <2>3 DEF RingInv, RingWhole, Fitting, Handed, ResetRoom
  <2>5. ParserInv
    BY <2>1, <2>3 DEF UartInit, ParserInv
  <2>6. Unread = <<>>
    BY <2>1, <2>2, <2>3 DEF UartInit, Unread, Waiting, InParser
  <2>7. Parsed(<<>>)
    BY <2>3, <2>6, CutEmpty DEF UartInit, Parsed
  <2> QED
    BY <2>3, <2>4, <2>5, <2>7 DEF UartInv, LineInv
<1>2. ASSUME UartInv, [UartNext]_uartVars PROVE UartInv'
  <2>1. TypeInv /\ RingInv /\ ParserInv
    BY <1>2 DEF UartInv, RingInv
  <2>2. RingInv' /\ ParserInv'
    BY <1>2, <2>1, UartRefinesRing, RingStep, ParserStep
  <2>3. LineInv'
    BY <1>2, LineStep, LineRestored
  <2> QED
    BY <2>2, <2>3 DEF UartInv
<1> QED
  BY <1>1, <1>2, PTL DEF UartSpec

\* The lines that process_uart_data prints are those the UART has received since it
\* was called, none of their bytes lost, doubled or out of order, wherever the
\* interrupt comes in the main loop and however the bursts cut the lines, as long as
\* no burst has flooded the buffer; and again when the flood has been read.
THEOREM LinesArriveAsReceived == UartSpec => LinesAsReceived
<1>1. UartInv => (user = "uart" /\ EndLine => flooded \/ parser.line = NextLine)
  <2> SUFFICES ASSUME UartInv, user = "uart", EndLine, ~flooded
               PROVE  parser.line = NextLine
    OBVIOUS
  <2>1. PICK p \in Seq(Data) : Parsed(p)
    BY DEF UartInv, LineInv
  <2>2. out \in Data /\ Waiting \in Seq(Data)
    BY UnreadIs DEF UartInv, RingInv
  <2>3. parser.pc = "parse" /\ IsTerminator(out)
    BY DEF EndLine
  <2>4. sent = p \o (<<out>> \o Waiting)
    BY <2>1, <2>3 DEF Parsed, Unread, InParser
  <2>5. NextLine = Cut(p)
    BY <2>1, <2>2, <2>3, <2>4, LineBefore DEF Parsed
  <2> QED
    BY <2>1, <2>3, <2>5 DEF Parsed
<1> QED
  BY <1>1, UartAlways, PTL DEF LinesAsReceived
=============================================================================
