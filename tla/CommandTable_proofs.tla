-------------------------- MODULE CommandTable_proofs --------------------------
(***************************************************************************)
(* The hash map of DsHashMap is a map, for every capacity, every set of    *)
(* keys and every hash function that keeps clear of the two marks, and the *)
(* command table of CommandTable dispatches every command to the handler   *)
(* that it was registered with.                                            *)
(***************************************************************************)
EXTENDS CommandTable, FiniteSetTheorems, TLAPS

USE CapacityAssumption, KeyAssumption

\* No key is hashed to the mark of an empty or a deleted slot.  The code does not
\* ask for it, and stores such a key where no lookup finds it.
HashesUnmarked ==
  \A k \in Keys : Hash[k] # DS_HM_SLOT_EMPTY /\ Hash[k] # DS_HM_SLOT_DELETED

-----------------------------------------------------------------------------
(* The invariant                                                           *)

Deleted == {s \in Slot : IsDeleted(s)}

\* No key is stored that would not fit.
KeysStored == \A s \in Occupied : entries[s].key \in Keys \ LongKeys

\* The slots that a walk has yet to come to.
Ahead(s) == IF walk.calling THEN s > walk.slot ELSE s >= walk.slot

\* The keys that a walk has yet to visit are in front of it, and those that it has
\* visited are behind it: no put and no remove of its callback moves a pair.
WalkInv ==
  /\ walk.calling => walk.slot \in Slot
  /\ \A k \in walk.owed : \E s \in Occupied : entries[s].key = k /\ Ahead(s)
  /\ \A k \in walk.seen : \E s \in Occupied : entries[s].key = k /\ ~Ahead(s)

TableInv == TypeOK /\ CountersMatch /\ Reachable /\ KeysStored
MapInv == TableInv /\ WalkInv

-----------------------------------------------------------------------------
(* The probe loop                                                          *)

LEMMA ProbeIs ==
  ASSUME NEW k \in Keys, NEW i \in Probes
  PROVE  Probe(k, i) \in Slot
<1> DEFINE n == (Hash[k] + i * i) % Word
<1>1. n \in Nat
  <2>1. Hash[k] \in Nat /\ i \in Nat /\ i * i \in Nat
    BY DEF Probes
  <2> DEFINE m == Hash[k] + i * i
  <2>2. m \in Nat
    BY <2>1
  <2> HIDE DEF m
  <2>3. m % Word \in Nat
    BY <2>2
  <2> QED
    BY <2>3 DEF m
<1> HIDE DEF n
<1>2. n % Capacity \in 0 .. Capacity - 1
  BY <1>1
<1> QED
  BY <1>2 DEF Probe, Slot, n

\* The loop for a key ends at one probe.
LEMMA StopsOnce ==
  ASSUME NEW k, NEW i \in Probes, NEW j \in Probes, StopsAt(k, i), StopsAt(k, j)
  PROVE  i = j
<1>1. ~(i < j) /\ ~(j < i)
  BY DEF StopsAt, Probes
<1> QED
  BY <1>1 DEF Probes

\* No key is in two slots.
LEMMA KeyOnce ==
  ASSUME Reachable, NEW r \in Occupied, NEW s \in Occupied,
         entries[r].key = entries[s].key
  PROVE  r = s
<1>1. PICK i \in Probes : Finds(entries[r].key, i) /\ Probe(entries[r].key, i) = r
  BY DEF Reachable
<1>2. PICK j \in Probes : Finds(entries[s].key, j) /\ Probe(entries[s].key, j) = s
  BY DEF Reachable
<1>3. i = j
  BY <1>1, <1>2, StopsOnce DEF Finds
<1> QED
  BY <1>1, <1>2, <1>3

LEMMA HitIs ==
  ASSUME NEW k \in Keys, NEW i \in Probes, Hit(k, i)
  PROVE  Probe(k, i) \in Occupied /\ entries[Probe(k, i)].key = k
BY ProbeIs DEF Hit, Occupied

\* The loop finds a key exactly if it is stored.
LEMMA AbsentIs ==
  ASSUME Reachable, NEW k \in Keys
  PROVE  Absent(k) <=> \A s \in Occupied : entries[s].key # k
<1>1. ASSUME Absent(k), NEW s \in Occupied, entries[s].key = k PROVE FALSE
  BY <1>1 DEF Absent, Reachable
<1>2. ASSUME ~Absent(k) PROVE \E s \in Occupied : entries[s].key = k
  BY <1>2, HitIs DEF Absent, Finds
<1> QED
  BY <1>1, <1>2

\* A probe of a slot that has not changed ends the loop or not as before.
LEMMA EndsKept ==
  ASSUME NEW k, NEW i, entries'[Probe(k, i)] = entries[Probe(k, i)]
  PROVE  (Ends(k, i) <=> Ends(k, i)') /\ (Hit(k, i) <=> Hit(k, i)')
BY DEF Ends, Hit, IsEmpty, IsOccupied, IsDeleted

-----------------------------------------------------------------------------
(* The table                                                               *)

LEMMA TableSets ==
  ASSUME TypeOK
  PROVE  /\ IsFiniteSet(Occupied) /\ Cardinality(Occupied) \in 0 .. Capacity
         /\ IsFiniteSet(Deleted) /\ Cardinality(Deleted) \in 0 .. Capacity
<1>1. IsFiniteSet(Slot) /\ Cardinality(Slot) = Capacity
  BY FS_Interval DEF Slot
<1>2. Occupied \in SUBSET Slot /\ Deleted \in SUBSET Slot
  BY DEF Occupied, Deleted
<1>3. /\ IsFiniteSet(Occupied) /\ Cardinality(Occupied) <= Capacity
      /\ IsFiniteSet(Deleted) /\ Cardinality(Deleted) <= Capacity
  BY <1>1, <1>2, FS_Subset
<1> QED
  BY <1>3, FS_CardinalityType

LEMMA Marks ==
  /\ MarkEmpty \in Entry /\ MarkDeleted \in Entry
  /\ MarkEmpty.hash = DS_HM_SLOT_EMPTY /\ MarkDeleted.hash = DS_HM_SLOT_DELETED
  /\ DS_HM_SLOT_EMPTY # DS_HM_SLOT_DELETED
<1>1. /\ DS_HM_SLOT_EMPTY \in 0 .. Word - 1 /\ DS_HM_SLOT_DELETED \in 0 .. Word - 1
      /\ DS_HM_SLOT_EMPTY # DS_HM_SLOT_DELETED
  BY DEF DS_HM_SLOT_EMPTY, DS_HM_SLOT_DELETED
<1> QED
  BY <1>1 DEF MarkEmpty, MarkDeleted, Mark, Entry, NoKey

\* A pair is put at a probe that the loop for its key comes to, into a slot that
\* holds none: an empty one or a deleted one.
LEMMA PairAdded ==
  ASSUME TableInv, HashesUnmarked,
         NEW k \in Keys \ LongKeys, NEW v \in Values, NEW i \in Probes,
         \A s \in Occupied : entries[s].key # k,
         ~IsOccupied(Probe(k, i)),
         \A j \in 0 .. i - 1 : ~Ends(k, j) /\ Probe(k, j) # Probe(k, i),
         entries' = [entries EXCEPT
                       ![Probe(k, i)] = [hash |-> Hash[k], key |-> k, value |-> v]]
  PROVE  /\ entries' \in [Slot -> Entry]
         /\ Occupied' = Occupied \cup {Probe(k, i)}
         /\ Deleted' = Deleted \ {Probe(k, i)}
         /\ Probe(k, i) \in Slot /\ Probe(k, i) \notin Occupied
         /\ \A s \in Slot : s # Probe(k, i) => entries'[s] = entries[s]
         /\ entries'[Probe(k, i)] = [hash |-> Hash[k], key |-> k, value |-> v]
         /\ Reachable' /\ KeysStored'
<1> DEFINE t == Probe(k, i)
           e == [hash |-> Hash[k], key |-> k, value |-> v]
<1>1. t \in Slot /\ e \in Entry /\ entries \in [Slot -> Entry]
  BY ProbeIs DEF Entry, TableInv, TypeOK
<1>2. e.hash # DS_HM_SLOT_EMPTY /\ e.hash # DS_HM_SLOT_DELETED
      /\ e.hash = Hash[k] /\ e.key = k
  BY DEF HashesUnmarked
<1>3. entries' = [entries EXCEPT ![t] = e] /\ ~IsOccupied(t)
  OBVIOUS
<1>4. \A j \in 0 .. i - 1 : ~Ends(k, j) /\ Probe(k, j) # t
  OBVIOUS
<1>e. e = [hash |-> Hash[k], key |-> k, value |-> v]
  OBVIOUS
<1> HIDE DEF e
<1>5. /\ entries' \in [Slot -> Entry] /\ entries'[t] = e
      /\ \A s \in Slot : s # t => entries'[s] = entries[s]
  BY <1>1, <1>3
<1>6. IsOccupied(t)' /\ ~IsDeleted(t)'
  BY <1>2, <1>5 DEF IsOccupied, IsEmpty, IsDeleted
<1>7. Occupied' = Occupied \cup {t} /\ Deleted' = Deleted \ {t}
  BY <1>1, <1>5, <1>6 DEF Occupied, Deleted, IsOccupied, IsEmpty, IsDeleted
<1>8. t \notin Occupied
  BY <1>3 DEF Occupied
<1>9. KeysStored'
  BY <1>2, <1>5, <1>7, <1>8 DEF KeysStored, TableInv, Occupied
<1>10. Reachable'
  <2> SUFFICES ASSUME NEW s \in Occupied'
               PROVE  (\E j \in Probes : /\ Finds(entries[s].key, j)
                                         /\ Probe(entries[s].key, j) = s)'
    BY Zenon DEF Reachable
  <2>1. CASE s = t
    <3>1. entries'[s].key = k
      BY <1>2, <1>5, <2>1
    <3>2. Hit(k, i)'
      BY <1>2, <1>5, <1>6 DEF Hit
    <3>3. \A j \in 0 .. i - 1 : ~Ends(k, j)'
      <4> TAKE j \in 0 .. i - 1
      <4>1. j \in Probes
        BY DEF Probes
      <4>2. Probe(k, j) \in Slot /\ Probe(k, j) # t /\ ~Ends(k, j)
        BY <1>4, <4>1, ProbeIs
      <4> QED
        BY <1>5, <4>2, EndsKept
    <3> QED
      BY <2>1, <3>1, <3>2, <3>3 DEF Finds, StopsAt, Ends
  <2>2. CASE s # t
    <3>0. PICK q \in Keys : q = entries[s].key
      BY <1>7, <2>2 DEF TableInv, KeysStored
    <3>1. s \in Occupied /\ q # k /\ entries'[s].key = q
      BY <1>5, <1>7, <2>2, <3>0 DEF Occupied
    <3>2. PICK j \in Probes : Finds(q, j) /\ Probe(q, j) = s
      BY <3>0, <3>1 DEF TableInv, Reachable
    <3>3. Hit(q, j)'
      BY <1>5, <2>2, <3>1, <3>2, EndsKept DEF Finds, Occupied
    <3>4. \A m \in 0 .. j - 1 : ~Ends(q, m)'
      <4> TAKE m \in 0 .. j - 1
      <4>1. ~Ends(q, m) /\ Probe(q, m) \in Slot
        <5>1. m \in Probes
          BY DEF Probes
        <5> QED
          BY <3>1, <3>2, <5>1, ProbeIs DEF Finds, StopsAt
      <4>2. CASE Probe(q, m) = t
        BY <1>2, <1>5, <1>6, <3>1, <4>2 DEF Ends, Hit, IsOccupied
      <4>3. CASE Probe(q, m) # t
        BY <1>5, <4>1, <4>3, EndsKept
      <4> QED
        BY <4>2, <4>3
    <3> QED
      BY <3>1, <3>2, <3>3, <3>4 DEF Finds, StopsAt, Ends
  <2> QED
    BY <2>1, <2>2
<1> QED
  BY <1>1, <1>5, <1>7, <1>8, <1>9, <1>10, <1>e

\* The pair of a key that the loop has found is taken out.
LEMMA PairRemoved ==
  ASSUME TableInv, NEW k \in Keys, NEW i \in Probes, Finds(k, i),
         entries' = [entries EXCEPT ![Probe(k, i)] = MarkDeleted]
  PROVE  /\ entries' \in [Slot -> Entry]
         /\ Occupied' = Occupied \ {Probe(k, i)}
         /\ Deleted' = Deleted \cup {Probe(k, i)}
         /\ Probe(k, i) \in Occupied /\ Probe(k, i) \notin Deleted
         /\ entries[Probe(k, i)].key = k
         /\ \A s \in Slot : s # Probe(k, i) => entries'[s] = entries[s]
         /\ Reachable' /\ KeysStored'
<1> DEFINE t == Probe(k, i)
<1>1. t \in Slot /\ entries \in [Slot -> Entry]
  BY ProbeIs DEF TableInv, TypeOK
<1>2. t \in Occupied /\ entries[t].key = k /\ t \notin Deleted
  BY HitIs DEF Finds, Occupied, IsOccupied, Deleted
<1>3. entries' = [entries EXCEPT ![t] = MarkDeleted]
  OBVIOUS
<1>4. /\ entries' \in [Slot -> Entry] /\ entries'[t] = MarkDeleted
      /\ \A s \in Slot : s # t => entries'[s] = entries[s]
  BY <1>1, <1>3, Marks
<1>5. IsDeleted(t)' /\ ~IsEmpty(t)' /\ ~IsOccupied(t)'
  BY <1>4, Marks DEF IsDeleted, IsEmpty, IsOccupied
<1> HIDE DEF t
<1>6. Occupied' = Occupied \ {t} /\ Deleted' = Deleted \cup {t}
  <2>1. \A s \in Slot : IsOccupied(s)' <=> IsOccupied(s) /\ s # t
    BY <1>4, <1>5 DEF IsOccupied, IsEmpty, IsDeleted
  <2>2. \A s \in Slot : IsDeleted(s)' <=> IsDeleted(s) \/ s = t
    BY <1>4, <1>5 DEF IsDeleted
  <2> QED
    BY <1>1, <2>1, <2>2 DEF Occupied, Deleted
<1>7. KeysStored'
  BY <1>4, <1>6 DEF KeysStored, TableInv, Occupied
<1>8. Reachable'
  <2> SUFFICES ASSUME NEW s \in Occupied'
               PROVE  (\E j \in Probes : /\ Finds(entries[s].key, j)
                                         /\ Probe(entries[s].key, j) = s)'
    BY Zenon DEF Reachable
  <2>1. s \in Occupied /\ s # t
    BY <1>6
  <2>2. PICK q \in Keys : q = entries[s].key
    BY <2>1 DEF TableInv, KeysStored
  <2>3. PICK j \in Probes : Finds(q, j) /\ Probe(q, j) = s
    BY <2>1, <2>2 DEF TableInv, Reachable
  <2>4. Hit(q, j)' /\ entries'[s].key = q
    BY <1>4, <2>1, <2>2, <2>3, EndsKept DEF Finds, Occupied
  <2>5. \A m \in 0 .. j - 1 : ~Ends(q, m)'
    <3> TAKE m \in 0 .. j - 1
    <3>1. ~Ends(q, m) /\ Probe(q, m) \in Slot
      <4>1. m \in Probes
        BY DEF Probes
      <4> QED
        BY <2>2, <2>3, <4>1, ProbeIs DEF Finds, StopsAt
    <3>2. CASE Probe(q, m) = t
      BY <1>5, <3>2 DEF Ends, Hit
    <3>3. CASE Probe(q, m) # t
      BY <1>4, <3>1, <3>3, EndsKept
    <3> QED
      BY <3>2, <3>3
  <2> QED
    BY <2>3, <2>4, <2>5 DEF Finds, StopsAt, Ends
<1> QED
  BY <1>1, <1>2, <1>4, <1>6, <1>7, <1>8 DEF t

\* Nothing but the values of the pairs is changed.
LEMMA PairUpdated ==
  ASSUME TableInv, entries' \in [Slot -> Entry],
         \A s \in Slot : /\ entries'[s].key = entries[s].key
                         /\ entries'[s].hash = entries[s].hash
  PROVE  Occupied' = Occupied /\ Deleted' = Deleted /\ Reachable' /\ KeysStored'
<1>5. \A s \in Slot : /\ IsOccupied(s)' <=> IsOccupied(s)
                      /\ IsDeleted(s)' <=> IsDeleted(s)
                      /\ IsEmpty(s)' <=> IsEmpty(s)
  BY DEF IsOccupied, IsEmpty, IsDeleted
<1>6. Occupied' = Occupied /\ Deleted' = Deleted
  BY <1>5 DEF Occupied, Deleted
<1>7. KeysStored'
  BY <1>6 DEF KeysStored, TableInv, Occupied
<1>8. ASSUME NEW q \in Keys, NEW m \in Probes
      PROVE  (Ends(q, m) <=> Ends(q, m)') /\ (Hit(q, m) <=> Hit(q, m)')
  BY <1>5, ProbeIs DEF Ends, Hit
<1>9. Reachable'
  <2> SUFFICES ASSUME NEW s \in Occupied'
               PROVE  (\E j \in Probes : /\ Finds(entries[s].key, j)
                                         /\ Probe(entries[s].key, j) = s)'
    BY Zenon DEF Reachable
  <2>1. s \in Occupied /\ s \in Slot
    BY <1>6 DEF Occupied
  <2>2. PICK q \in Keys : q = entries[s].key
    BY <2>1 DEF TableInv, KeysStored
  <2>3. PICK j \in Probes : Finds(q, j) /\ Probe(q, j) = s
    BY <2>1, <2>2 DEF TableInv, Reachable
  <2>4. entries'[s].key = q
    BY <2>1, <2>2
  <2>5. Finds(q, j)'
    <3>1. \A m \in 0 .. j - 1 : m \in Probes
      BY DEF Probes
    <3> QED
      BY <1>8, <2>3, <3>1 DEF Finds, StopsAt
  <2> QED
    BY <2>3, <2>4, <2>5
<1> QED
  BY <1>6, <1>7, <1>9

\* A new pair, the slot it goes to, and what else is written.
Adds(k, v, t) ==
  /\ t \in Slot \ Occupied
  /\ \A s \in Occupied : entries[s].key # k
  /\ Occupied' = Occupied \cup {t}
  /\ \A s \in Occupied : entries'[s] = entries[s]
  /\ entries'[t] = [hash |-> Hash[k], key |-> k, value |-> v]
  /\ reply' = "OK" /\ walk' = walk

\* A pair that goes.
Drops(k, t) ==
  /\ t \in Occupied /\ entries[t].key = k
  /\ Occupied' = Occupied \ {t}
  /\ \A s \in Occupied' : entries'[s] = entries[s]
  /\ reply' = "OK" /\ Forget({k})

\* What a call leaves of the table.
TableKept ==
  /\ entries' \in [Slot -> Entry]
  /\ size' \in 0 .. Capacity /\ deleted_count' \in 0 .. Capacity
  /\ CountersMatch' /\ Reachable' /\ KeysStored'

LEMMA Counted ==
  ASSUME TypeOK, CountersMatch, NEW t \in Slot
  PROVE  /\ t \notin Occupied =>
              /\ Cardinality(Occupied \cup {t}) = (size + 1) % Word
              /\ size + 1 \in 0 .. Capacity /\ (size + 1) % Word = size + 1
         /\ t \in Occupied =>
              /\ Cardinality(Occupied \ {t}) = (size - 1) % Word
              /\ size - 1 \in 0 .. Capacity /\ (size - 1) % Word = size - 1
         /\ t \in Deleted =>
              /\ Cardinality(Deleted \ {t}) = (deleted_count - 1) % Word
              /\ deleted_count - 1 \in 0 .. Capacity
              /\ (deleted_count - 1) % Word = deleted_count - 1
         /\ t \in Occupied =>
              /\ Cardinality(Deleted \cup {t}) = (deleted_count + 1) % Word
              /\ deleted_count + 1 \in 0 .. Capacity
              /\ (deleted_count + 1) % Word = deleted_count + 1
<1>1. /\ IsFiniteSet(Occupied) /\ size = Cardinality(Occupied) /\ size \in 0 .. Capacity
      /\ IsFiniteSet(Deleted) /\ deleted_count = Cardinality(Deleted)
      /\ deleted_count \in 0 .. Capacity
      /\ Occupied \subseteq Slot /\ Deleted \subseteq Slot
      /\ t \in Occupied => t \notin Deleted
  BY TableSets DEF CountersMatch, Deleted, Occupied, IsOccupied
<1>2. \A n \in 0 .. Capacity : n % Word = n
  OBVIOUS
<1>3. ASSUME NEW S \in SUBSET Slot, IsFiniteSet(S), t \notin S
      PROVE  /\ Cardinality(S \cup {t}) = Cardinality(S) + 1
             /\ Cardinality(S) + 1 \in 0 .. Capacity
  <2>1. IsFiniteSet(Slot) /\ Cardinality(Slot) = Capacity
    BY FS_Interval DEF Slot
  <2>2. S \cup {t} \in SUBSET Slot /\ Cardinality(S \cup {t}) = Cardinality(S) + 1
        /\ Cardinality(S) \in Nat
    BY <1>3, FS_AddElement, FS_CardinalityType
  <2>3. Cardinality(S \cup {t}) <= Capacity
    BY <2>1, <2>2, FS_Subset
  <2> QED
    BY <2>2, <2>3
<1>4. ASSUME NEW S \in SUBSET Slot, IsFiniteSet(S), t \in S, Cardinality(S) \in 0 .. Capacity
      PROVE  /\ Cardinality(S \ {t}) = Cardinality(S) - 1
             /\ Cardinality(S) - 1 \in 0 .. Capacity
  <2>1. Cardinality(S) # 0
    BY <1>4, FS_EmptySet
  <2>2. Cardinality(S \ {t}) = Cardinality(S) - 1
    BY <1>4, FS_RemoveElement
  <2> QED
    BY <1>4, <2>1, <2>2
<1>5. CASE t \in Occupied
  <2>1. /\ Cardinality(Occupied \ {t}) = size - 1 /\ size - 1 \in 0 .. Capacity
        /\ Cardinality(Deleted \cup {t}) = deleted_count + 1
        /\ deleted_count + 1 \in 0 .. Capacity /\ t \notin Deleted
    BY <1>1, <1>3, <1>4, <1>5
  <2>2. (size - 1) % Word = size - 1 /\ (deleted_count + 1) % Word = deleted_count + 1
    BY <1>2, <2>1
  <2> QED
    BY <1>5, <2>1, <2>2
<1>6. CASE t \notin Occupied
  <2>1. Cardinality(Occupied \cup {t}) = size + 1 /\ size + 1 \in 0 .. Capacity
    BY <1>1, <1>3, <1>6
  <2>2. (size + 1) % Word = size + 1
    BY <1>2, <2>1
  <2>3. t \in Deleted => /\ Cardinality(Deleted \ {t}) = deleted_count - 1
                         /\ deleted_count - 1 \in 0 .. Capacity
    BY <1>1, <1>4
  <2>4. t \in Deleted => (deleted_count - 1) % Word = deleted_count - 1
    BY <1>2, <2>3
  <2> QED
    BY <1>6, <2>1, <2>2, <2>3, <2>4
<1> QED
  BY <1>5, <1>6

LEMMA PutNew ==
  ASSUME TableInv, HashesUnmarked, NEW k \in Keys, NEW v \in Values,
         PutEmpty(k, v) \/ PutDeleted(k, v)
  PROVE  TableKept /\ k \notin LongKeys /\ \E t \in Slot : Adds(k, v, t)
<1>1. k \in Keys \ LongKeys
  BY DEF PutEmpty, PutDeleted
<1>2. CASE PutEmpty(k, v)
  <2>1. PICK i \in Probes : StopsAt(k, i) /\ ~Hit(k, i) /\ Fill(k, v, Probe(k, i))
    BY <1>2 DEF PutEmpty
  <2> DEFINE t == Probe(k, i)
  <2>2. IsEmpty(t) /\ ~IsOccupied(t) /\ ~IsDeleted(t)
    BY <2>1, Marks DEF StopsAt, Ends, IsOccupied, IsEmpty, IsDeleted
  <2>3. \A s \in Occupied : entries[s].key # k
    <3>1. \A j \in Probes : ~Finds(k, j)
      BY <2>1, StopsOnce DEF Finds
    <3> QED
      BY <3>1, AbsentIs DEF Absent, TableInv
  <2>4. \A j \in 0 .. i - 1 : ~Ends(k, j) /\ Probe(k, j) # t
    BY <2>1, <2>2 DEF StopsAt, Ends
  <2>5. entries' = [entries EXCEPT ![t] = [hash |-> Hash[k], key |-> k, value |-> v]]
        /\ size' = (size + 1) % Word /\ deleted_count' = deleted_count
        /\ reply' = "OK" /\ walk' = walk
    BY <1>2, <2>1 DEF Fill, PutEmpty
  <2>6. /\ entries' \in [Slot -> Entry]
        /\ Occupied' = Occupied \cup {t}
        /\ Deleted' = Deleted \ {t}
        /\ t \in Slot /\ t \notin Occupied
        /\ \A s \in Slot : s # t => entries'[s] = entries[s]
        /\ entries'[t] = [hash |-> Hash[k], key |-> k, value |-> v]
        /\ Reachable' /\ KeysStored'
    BY <1>1, <2>2, <2>3, <2>4, <2>5, PairAdded
  <2> HIDE DEF t
  <2>7. Deleted' = Deleted
    BY <2>2, <2>6 DEF Deleted
  <2>8. size' \in 0 .. Capacity /\ deleted_count' \in 0 .. Capacity /\ CountersMatch'
    <3>1. size' = Cardinality(Occupied') /\ size' \in 0 .. Capacity
      BY <2>5, <2>6, Counted DEF TableInv
    <3>2. deleted_count' = Cardinality(Deleted') /\ deleted_count' \in 0 .. Capacity
      BY <2>5, <2>7 DEF TableInv, TypeOK, CountersMatch, Deleted
    <3> QED
      BY <3>1, <3>2 DEF CountersMatch, Deleted
  <2>9. Adds(k, v, t)
    BY <2>3, <2>5, <2>6 DEF Adds, Occupied
  <2> QED
    BY <1>1, <2>6, <2>8, <2>9 DEF TableKept
<1>3. CASE PutDeleted(k, v)
  <2>1. PICK i \in Probes : FirstDeleted(k, i) /\ Fill(k, v, Probe(k, i))
    BY <1>3 DEF PutDeleted
  <2> DEFINE t == Probe(k, i)
  <2>2. IsDeleted(t) /\ ~IsOccupied(t)
    BY <2>1 DEF FirstDeleted, IsOccupied
  <2>3. \A s \in Occupied : entries[s].key # k
    BY <1>3, AbsentIs DEF PutDeleted, TableInv
  <2>4. \A j \in 0 .. i - 1 : ~Ends(k, j) /\ Probe(k, j) # t
    BY <2>1, <2>2 DEF FirstDeleted, Probes
  <2>5. entries' = [entries EXCEPT ![t] = [hash |-> Hash[k], key |-> k, value |-> v]]
        /\ size' = (size + 1) % Word /\ deleted_count' = (deleted_count - 1) % Word
        /\ reply' = "OK" /\ walk' = walk
    BY <1>3, <2>1 DEF Fill, PutDeleted
  <2>6. /\ entries' \in [Slot -> Entry]
        /\ Occupied' = Occupied \cup {t}
        /\ Deleted' = Deleted \ {t}
        /\ t \in Slot /\ t \notin Occupied
        /\ \A s \in Slot : s # t => entries'[s] = entries[s]
        /\ entries'[t] = [hash |-> Hash[k], key |-> k, value |-> v]
        /\ Reachable' /\ KeysStored'
    BY <1>1, <2>2, <2>3, <2>4, <2>5, PairAdded
  <2> HIDE DEF t
  <2>7. t \in Deleted
    BY <2>2, <2>6 DEF Deleted
  <2>8. size' \in 0 .. Capacity /\ deleted_count' \in 0 .. Capacity /\ CountersMatch'
    <3>1. size' = Cardinality(Occupied') /\ size' \in 0 .. Capacity
      BY <2>5, <2>6, Counted DEF TableInv
    <3>2. deleted_count' = Cardinality(Deleted') /\ deleted_count' \in 0 .. Capacity
      BY <2>5, <2>6, <2>7, Counted DEF TableInv
    <3> QED
      BY <3>1, <3>2 DEF CountersMatch, Deleted
  <2>9. Adds(k, v, t)
    BY <2>3, <2>5, <2>6 DEF Adds, Occupied
  <2> QED
    BY <1>1, <2>6, <2>8, <2>9 DEF TableKept
<1> QED
  BY <1>2, <1>3

LEMMA RemoveOld ==
  ASSUME TableInv, NEW k \in Keys, Remove(k)
  PROVE  TableKept /\ \E t \in Slot : Drops(k, t)
<1>1. PICK i \in Probes :
        /\ Finds(k, i)
        /\ entries' = [entries EXCEPT ![Probe(k, i)] = MarkDeleted]
  BY DEF Remove
<1> DEFINE t == Probe(k, i)
<1>2. /\ entries' \in [Slot -> Entry]
      /\ Occupied' = Occupied \ {t} /\ Deleted' = Deleted \cup {t}
      /\ t \in Occupied /\ t \notin Deleted /\ t \in Slot
      /\ entries[t].key = k
      /\ \A s \in Slot : s # t => entries'[s] = entries[s]
      /\ Reachable' /\ KeysStored'
  BY <1>1, PairRemoved, ProbeIs
<1> HIDE DEF t
<1>3. /\ size' = (size - 1) % Word /\ deleted_count' = (deleted_count + 1) % Word
      /\ reply' = "OK" /\ Forget({k})
  BY DEF Remove
<1>4. size' \in 0 .. Capacity /\ deleted_count' \in 0 .. Capacity /\ CountersMatch'
  <2>1. /\ size' = Cardinality(Occupied') /\ size' \in 0 .. Capacity
        /\ deleted_count' = Cardinality(Deleted') /\ deleted_count' \in 0 .. Capacity
    BY <1>2, <1>3, Counted DEF TableInv
  <2> QED
    BY <2>1 DEF CountersMatch, Deleted
<1>5. Drops(k, t)
  BY <1>2, <1>3 DEF Drops, Occupied
<1> QED
  BY <1>2, <1>4, <1>5 DEF TableKept

\* An update leaves the counters and the order of the slots alone.
Updates(k, v, t) ==
  /\ t \in Occupied /\ entries[t].key = k
  /\ Occupied' = Occupied
  /\ \A s \in Slot :
       /\ entries'[s].key = entries[s].key
       /\ entries'[s].value = IF s = t THEN v ELSE entries[s].value
  /\ reply' = "OK" /\ walk' = walk

LEMMA PutOld ==
  ASSUME TableInv, NEW k \in Keys, NEW v \in Values, PutUpdate(k, v)
  PROVE  TableKept /\ k \notin LongKeys /\ \E t \in Slot : Updates(k, v, t)
<1>1. PICK i \in Probes :
        /\ Finds(k, i)
        /\ entries' = [entries EXCEPT ![Probe(k, i)].value = v]
  BY DEF PutUpdate
<1>0. PICK t \in Slot : t = Probe(k, i)
  BY ProbeIs
<1>2. /\ entries' \in [Slot -> Entry]
      /\ \A s \in Slot :
           /\ entries'[s].key = entries[s].key
           /\ entries'[s].hash = entries[s].hash
           /\ entries'[s].value = IF s = t THEN v ELSE entries[s].value
  <2>1. entries \in [Slot -> Entry]
    BY DEF TableInv, TypeOK
  <2>2. PICK e : e = [entries[t] EXCEPT !.value = v]
    OBVIOUS
  <2>3. /\ e \in Entry /\ e.key = entries[t].key /\ e.hash = entries[t].hash
        /\ e.value = v
    BY <2>1, <2>2 DEF Entry
  <2>4. entries' = [entries EXCEPT ![t] = e]
    BY <1>0, <1>1, <2>2
  <2> QED
    BY <2>1, <2>3, <2>4
<1>6. Occupied' = Occupied /\ Deleted' = Deleted /\ Reachable' /\ KeysStored'
  <2>1. \A s \in Slot : /\ entries'[s].key = entries[s].key
                        /\ entries'[s].hash = entries[s].hash
    BY <1>2
  <2> QED
    BY <1>2, <2>1, PairUpdated
<1>7. t \in Occupied /\ entries[t].key = k
  BY <1>0, <1>1, HitIs DEF Finds
<1>3. /\ UNCHANGED <<size, deleted_count, walk>> /\ reply' = "OK" /\ k \notin LongKeys
  BY DEF PutUpdate
<1>4. size' \in 0 .. Capacity /\ deleted_count' \in 0 .. Capacity /\ CountersMatch'
  BY <1>3, <1>6 DEF TableInv, TypeOK, CountersMatch, Deleted
<1>5. Updates(k, v, t)
  BY <1>2, <1>3, <1>6, <1>7 DEF Updates
<1> QED
  BY <1>2, <1>3, <1>4, <1>5, <1>6 DEF TableKept
-----------------------------------------------------------------------------
(* The steps                                                               *)

\* A call that says how it went and leaves the table as it is.
LEMMA TableSame ==
  ASSUME TableInv, UNCHANGED <<entries, size, deleted_count>>
  PROVE  TableKept /\ Occupied' = Occupied
BY DEF TableInv, TypeOK, TableKept, CountersMatch, Reachable, KeysStored, Finds, StopsAt,
       Ends, Hit, Occupied, IsOccupied, IsEmpty, IsDeleted

\* Pairs that stay where they are stay ahead of the walk or behind it.
LEMMA WalkKept ==
  ASSUME WalkInv, walk' = walk,
         \A s \in Occupied : s \in Occupied' /\ entries'[s].key = entries[s].key
  PROVE  WalkInv'
<1>1. \A s : Ahead(s)' <=> Ahead(s)
  BY DEF Ahead
<1> QED
  BY <1>1 DEF WalkInv

LEMMA WalkForgets ==
  ASSUME TypeOK, WalkInv, NEW ks \in SUBSET Keys, Forget(ks),
         \A s \in Occupied : entries[s].key \notin ks
            => s \in Occupied' /\ entries'[s].key = entries[s].key
  PROVE  /\ WalkInv'
         /\ walk' \in [on : BOOLEAN, slot : 0 .. Capacity, calling : BOOLEAN,
                       owed : SUBSET Keys, seen : SUBSET Keys]
<1>1. /\ walk'.slot = walk.slot /\ walk'.calling = walk.calling
      /\ walk'.owed = walk.owed \ ks /\ walk'.seen = walk.seen \ ks
      /\ walk' \in [on : BOOLEAN, slot : 0 .. Capacity, calling : BOOLEAN,
                    owed : SUBSET Keys, seen : SUBSET Keys]
  BY DEF TypeOK, Forget
<1>2. \A s : Ahead(s)' <=> Ahead(s)
  BY <1>1 DEF Ahead
<1>3. \A q \in walk'.owed : \E s \in Occupied' : entries'[s].key = q /\ Ahead(s)'
  BY <1>1, <1>2 DEF WalkInv
<1>4. \A q \in walk'.seen : \E s \in Occupied' : entries'[s].key = q /\ ~Ahead(s)'
  BY <1>1, <1>2 DEF WalkInv
<1> QED
  BY <1>1, <1>3, <1>4 DEF WalkInv

\* A step of ds_hashmap_foreach.
LEMMA WalkStep ==
  ASSUME MapInv, UNCHANGED <<entries, size, deleted_count, reply>>,
         WalkBegin \/ WalkSlot \/ CallbackReturn \/ WalkEnd
  PROVE  /\ WalkInv'
         /\ walk' \in [on : BOOLEAN, slot : 0 .. Capacity, calling : BOOLEAN,
                       owed : SUBSET Keys, seen : SUBSET Keys]
<1>1. /\ walk \in [on : BOOLEAN, slot : 0 .. Capacity, calling : BOOLEAN,
                   owed : SUBSET Keys, seen : SUBSET Keys]
      /\ KeysStored /\ WalkInv
  BY DEF MapInv, TableInv, TypeOK
<1>2. Occupied' = Occupied /\ entries' = entries /\ Occupied \subseteq Slot
  BY DEF Occupied, IsOccupied, IsEmpty, IsDeleted
<1>3. CASE walk' = NoWalk
  BY <1>3 DEF NoWalk, WalkInv
<1>4. CASE WalkBegin
  <2>1. /\ walk'.slot = 0 /\ walk'.calling = FALSE /\ walk'.on = TRUE
        /\ walk'.seen = {}
        /\ walk'.owed = {entries[s].key : s \in Occupied}
        /\ walk' = [NoWalk EXCEPT !.on = TRUE, !.owed = {entries[s].key : s \in Occupied}]
    BY <1>4 DEF WalkBegin, NoWalk
  <2>2. {entries[s].key : s \in Occupied} \in SUBSET Keys
    BY <1>1 DEF KeysStored
  <2>3. \A s \in Occupied : Ahead(s)'
    BY <1>2, <2>1 DEF Ahead, Slot
  <2>4. walk' \in [on : BOOLEAN, slot : 0 .. Capacity, calling : BOOLEAN,
                   owed : SUBSET Keys, seen : SUBSET Keys]
    <3>1. PICK ks \in SUBSET Keys : ks = {entries[s].key : s \in Occupied}
      BY <2>2
    <3>2. walk' = [NoWalk EXCEPT !.on = TRUE, !.owed = ks]
      BY <2>1, <3>1
    <3>3. walk' = [on |-> TRUE, slot |-> 0, calling |-> FALSE, owed |-> ks, seen |-> {}]
      BY <3>2 DEF NoWalk
    <3>4. 0 \in 0 .. Capacity /\ {} \in SUBSET Keys
      OBVIOUS
    <3> QED
      BY <3>3, <3>4
  <2> QED
    BY <1>2, <2>1, <2>3, <2>4 DEF WalkInv
<1>5. CASE WalkSlot /\ IsOccupied(walk.slot)
  <2>1. walk.slot \in Occupied /\ ~walk.calling
    BY <1>1, <1>5 DEF WalkSlot, Occupied, Slot
  <2>2. PICK q \in Keys : q = entries[walk.slot].key
    BY <1>1, <2>1 DEF KeysStored
  <2>3. walk' = [walk EXCEPT !.calling = TRUE, !.owed = @ \ {q}, !.seen = @ \cup {q}]
    BY <1>5, <2>2 DEF WalkSlot
  <2>4. /\ walk'.slot = walk.slot /\ walk'.calling = TRUE
        /\ walk'.owed = walk.owed \ {q} /\ walk'.seen = walk.seen \cup {q}
        /\ walk' \in [on : BOOLEAN, slot : 0 .. Capacity, calling : BOOLEAN,
                      owed : SUBSET Keys, seen : SUBSET Keys]
    BY <1>1, <2>3
  <2>5. \A s \in Slot : /\ Ahead(s)' <=> s > walk.slot
                        /\ Ahead(s) <=> s >= walk.slot
    BY <2>1, <2>4 DEF Ahead
  <2>6. \A p \in walk'.owed : \E s \in Occupied' : entries'[s].key = p /\ Ahead(s)'
    <3> TAKE p \in walk'.owed
    <3>1. PICK s \in Occupied : entries[s].key = p /\ Ahead(s)
      BY <1>1, <2>4 DEF WalkInv
    <3>2. s # walk.slot
      BY <2>2, <2>4, <3>1
    <3>3. Ahead(s)'
      BY <1>1, <1>2, <2>5, <3>1, <3>2 DEF Slot
    <3> QED
      BY <1>2, <3>1, <3>3
  <2>7. \A p \in walk'.seen : \E s \in Occupied' : entries'[s].key = p /\ ~Ahead(s)'
    <3> TAKE p \in walk'.seen
    <3>1. CASE p = q
      BY <1>1, <1>2, <2>1, <2>2, <2>5, <3>1
    <3>2. CASE p # q
      <4>1. PICK s \in Occupied : entries[s].key = p /\ ~Ahead(s)
        BY <1>1, <2>4, <3>2 DEF WalkInv
      <4>2. ~Ahead(s)'
        BY <1>1, <1>2, <2>5, <4>1 DEF Slot
      <4> QED
        BY <1>2, <4>1, <4>2
    <3> QED
      BY <3>1, <3>2
  <2> QED
    BY <1>2, <2>1, <2>4, <2>6, <2>7 DEF WalkInv, Occupied
<1>6. CASE \/ WalkSlot /\ ~IsOccupied(walk.slot)
           \/ CallbackReturn /\ walk' # NoWalk
  <2>1. walk.slot \in Slot
    BY <1>1, <1>6 DEF WalkSlot, CallbackReturn, WalkInv, Slot
  <2>2. PICK n \in 0 .. Capacity : n = walk.slot + 1
    BY <2>1 DEF Slot
  <2>3. /\ walk' = [walk EXCEPT !.slot = n, !.calling = FALSE]
        /\ walk.calling \/ walk.slot \notin Occupied
    BY <1>1, <1>6, <2>2 DEF WalkSlot, CallbackReturn, Occupied
  <2>4. /\ walk'.slot = n /\ walk'.calling = FALSE
        /\ walk'.owed = walk.owed /\ walk'.seen = walk.seen
        /\ walk' \in [on : BOOLEAN, slot : 0 .. Capacity, calling : BOOLEAN,
                      owed : SUBSET Keys, seen : SUBSET Keys]
    BY <1>1, <2>3
  <2>5. \A s \in Occupied : Ahead(s)' <=> Ahead(s)
    <3> TAKE s \in Occupied
    <3>1. s \in Int /\ walk.slot \in Int /\ (~walk.calling => s # walk.slot)
      BY <1>2, <2>1, <2>3 DEF Slot
    <3> QED
      BY <2>2, <2>4, <3>1 DEF Ahead
  <2>6. \A p \in walk'.owed : \E s \in Occupied' : entries'[s].key = p /\ Ahead(s)'
    BY <1>1, <1>2, <2>4, <2>5 DEF WalkInv
  <2>7. \A p \in walk'.seen : \E s \in Occupied' : entries'[s].key = p /\ ~Ahead(s)'
    BY <1>1, <1>2, <2>4, <2>5 DEF WalkInv
  <2> QED
    BY <2>4, <2>6, <2>7 DEF WalkInv
<1> QED
  BY <1>3, <1>4, <1>5, <1>6 DEF WalkEnd
\* Every kind of call, by what it does to the pairs.
LEMMA CallKinds ==
  ASSUME MapInv, HashesUnmarked, Next
  PROVE  \/ /\ UNCHANGED <<entries, size, deleted_count, walk>>
            /\ reply' \in {"NOMEM", "FULL", "NOTFOUND", NULL} \cup Values
         \/ \E k \in Keys, v \in Values, t \in Slot :
              (PutEmpty(k, v) \/ PutDeleted(k, v)) /\ Adds(k, v, t) /\ TableKept
         \/ \E k \in Keys, v \in Values, t \in Slot :
              PutUpdate(k, v) /\ Updates(k, v, t) /\ TableKept
         \/ \E k \in Keys, t \in Slot : Remove(k) /\ Drops(k, t) /\ TableKept
         \/ Clear
         \/ WalkBegin \/ WalkSlot \/ CallbackReturn \/ WalkEnd
<1>1. CASE \E k \in Keys : Get(k) \/ RemoveMissing(k)
  <2>1. PICK k \in Keys : Get(k) \/ RemoveMissing(k)
    BY <1>1
  <2>2. \A i \in Probes : entries[Probe(k, i)].value \in Values \cup {NULL}
    BY ProbeIs DEF MapInv, TableInv, TypeOK, Entry
  <2> QED
    BY <2>1, <2>2 DEF Get, RemoveMissing
<1>2. CASE \E k \in Keys, v \in Values : PutTooLong(k) \/ PutFull(k)
  BY <1>2 DEF PutTooLong, PutFull
<1>3. CASE \E k \in Keys, v \in Values : PutEmpty(k, v) \/ PutDeleted(k, v)
  BY <1>3, PutNew, Zenon DEF MapInv
<1>4. CASE \E k \in Keys, v \in Values : PutUpdate(k, v)
  BY <1>4, PutOld, Zenon DEF MapInv
<1>5. CASE \E k \in Keys : Remove(k)
  BY <1>5, RemoveOld, Zenon DEF MapInv
<1> QED
  BY <1>1, <1>2, <1>3, <1>4, <1>5, Zenon DEF Next, Put

LEMMA MapInit ==
  ASSUME Init
  PROVE  MapInv
<1>1. /\ entries \in [Slot -> Entry] /\ Occupied = {} /\ Deleted = {}
  BY Marks DEF Init, Occupied, Deleted, IsOccupied, IsEmpty, IsDeleted
<1>2. TypeOK
  <2>1. 0 \in 0 .. Capacity /\ {} \in SUBSET Keys
    OBVIOUS
  <2> QED
    BY <1>1, <2>1 DEF Init, TypeOK, NoWalk
<1>5. CountersMatch
  BY <1>1, FS_EmptySet DEF Init, CountersMatch, Deleted
<1>3. Reachable /\ KeysStored
  BY <1>1 DEF Reachable, KeysStored
<1>4. WalkInv
  BY DEF Init, NoWalk, WalkInv
<1> QED
  BY <1>2, <1>3, <1>4, <1>5 DEF MapInv, TableInv

LEMMA MapStep ==
  ASSUME MapInv, HashesUnmarked, [Next]_vars
  PROVE  MapInv'
<1> DEFINE WalkType == [on : BOOLEAN, slot : 0 .. Capacity, calling : BOOLEAN,
                        owed : SUBSET Keys, seen : SUBSET Keys]
           Replies == {"OK", "NOMEM", "FULL", "NOTFOUND", NULL} \cup Values
<1> USE DEF MapInv
<1>0. /\ TableInv /\ WalkInv /\ TypeOK
      /\ walk \in WalkType /\ reply \in Replies /\ Occupied \subseteq Slot
  BY DEF TableInv, TypeOK, Occupied
<1>1. SUFFICES TableKept /\ WalkInv' /\ walk' \in WalkType /\ reply' \in Replies
  BY DEF TableKept, TableInv, TypeOK
<1>2. CASE UNCHANGED vars
  <2>1. TableKept /\ Occupied' = Occupied
    BY <1>0, <1>2, TableSame DEF vars
  <2>2. WalkInv'
    BY <1>0, <1>2, <2>1, WalkKept DEF vars
  <2> QED
    BY <1>0, <1>2, <2>1, <2>2 DEF vars
<1>3. CASE /\ UNCHANGED <<entries, size, deleted_count, walk>>
           /\ reply' \in {"NOMEM", "FULL", "NOTFOUND", NULL} \cup Values
  <2>1. TableKept /\ Occupied' = Occupied
    BY <1>0, <1>3, TableSame
  <2>2. WalkInv'
    BY <1>0, <1>3, <2>1, WalkKept
  <2> QED
    BY <1>0, <1>3, <2>1, <2>2
<1>4. CASE \E k \in Keys, v \in Values, t \in Slot : Adds(k, v, t) /\ TableKept
  <2>1. PICK k \in Keys, v \in Values, t \in Slot : Adds(k, v, t) /\ TableKept
    BY <1>4
  <2>2. WalkInv'
    BY <1>0, <2>1, WalkKept DEF Adds
  <2> QED
    BY <1>0, <2>1, <2>2 DEF Adds
<1>5. CASE \E k \in Keys, v \in Values, t \in Slot : Updates(k, v, t) /\ TableKept
  <2>1. PICK k \in Keys, v \in Values, t \in Slot : Updates(k, v, t) /\ TableKept
    BY <1>5
  <2>2. WalkInv'
    BY <1>0, <2>1, WalkKept DEF Updates
  <2> QED
    BY <1>0, <2>1, <2>2 DEF Updates
<1>6. CASE \E k \in Keys, t \in Slot : Drops(k, t) /\ TableKept
  <2>1. PICK k \in Keys, t \in Slot : Drops(k, t) /\ TableKept
    BY <1>6
  <2>2. WalkInv' /\ walk' \in WalkType
    <3>1. {k} \in SUBSET Keys /\ Forget({k})
      BY <2>1 DEF Drops
    <3>2. \A s \in Occupied : entries[s].key \notin {k}
             => s \in Occupied' /\ entries'[s].key = entries[s].key
      BY <2>1 DEF Drops
    <3> QED
      BY <1>0, <3>1, <3>2, WalkForgets
  <2> QED
    BY <1>0, <2>1, <2>2 DEF Drops
<1>7. CASE Clear
  <2>1. /\ entries' \in [Slot -> Entry]
        /\ Occupied' = {} /\ Deleted' = {} /\ size' = 0 /\ deleted_count' = 0
    BY <1>7, Marks DEF Clear, Occupied, Deleted, IsOccupied, IsEmpty, IsDeleted
  <2>2. TableKept
    BY <2>1, FS_EmptySet DEF TableKept, CountersMatch, Reachable, KeysStored, Deleted
  <2>3. WalkInv' /\ walk' \in WalkType
    <3>1. Keys \in SUBSET Keys /\ Forget(Keys)
      BY <1>7 DEF Clear
    <3>2. \A s \in Occupied : entries[s].key \in Keys
      BY <1>0 DEF TableInv, KeysStored
    <3> QED
      BY <1>0, <3>1, <3>2, WalkForgets
  <2> QED
    BY <1>7, <2>2, <2>3 DEF Clear
<1>8. CASE WalkBegin \/ WalkSlot \/ CallbackReturn \/ WalkEnd
  <2>1. UNCHANGED <<entries, size, deleted_count, reply>>
    BY <1>8 DEF WalkBegin, WalkSlot, CallbackReturn, WalkEnd
  <2>2. TableKept
    BY <1>0, <2>1, TableSame
  <2>3. WalkInv' /\ walk' \in WalkType
    BY <1>8, <2>1, WalkStep
  <2> QED
    BY <1>0, <2>1, <2>2, <2>3
<1> QED
  BY <1>2, <1>3, <1>4, <1>5, <1>6, <1>7, <1>8, CallKinds

-----------------------------------------------------------------------------
(* The map                                                                 *)

\* The strengthened invariant of the table, its counters and the walk over it.
THEOREM MapHolds ==
  ASSUME HashesUnmarked
  PROVE  Spec => []MapInv
<1>1. Init => MapInv
  BY MapInit
<1>2. MapInv /\ [Next]_vars => MapInv'
  BY MapStep
<1> QED
  BY <1>1, <1>2, PTL DEF Spec

\* The table, the counters and the walk keep their types: no counter leaves
\* 0 .. Capacity, whatever is put, removed and cleared, also by callbacks.
THEOREM TypeCorrect ==
  ASSUME HashesUnmarked
  PROVE  Spec => []TypeOK
<1>1. MapInv => TypeOK
  BY DEF MapInv, TableInv
<1> QED
  BY <1>1, MapHolds, PTL

\* ds_hashmap_size is the number of pairs, and deleted_count that of the deleted
\* slots.
THEOREM CountersRight ==
  ASSUME HashesUnmarked
  PROVE  Spec => []CountersMatch
<1>1. MapInv => CountersMatch
  BY DEF MapInv, TableInv
<1> QED
  BY <1>1, MapHolds, PTL

\* A lookup finds every pair, in the slot where it is.
THEOREM EveryPairFound ==
  ASSUME HashesUnmarked
  PROVE  Spec => []Reachable
<1>1. MapInv => Reachable
  BY DEF MapInv, TableInv
<1> QED
  BY <1>1, MapHolds, PTL

\* ds_hashmap_foreach visits every key that stays, unless it is stopped, and none
\* of them twice, whatever its callback puts, removes and clears.
THEOREM WalkVisitsOnce ==
  ASSUME HashesUnmarked
  PROVE  Spec => ForeachVisitsEachOnce
<1>1. ASSUME MapInv, Next
      PROVE  /\ walk.on /\ ~walk.calling /\ walk'.calling
                  => entries[walk.slot].key \notin walk.seen
             /\ WalkEnd => walk.owed = {}
  <2>1. TypeOK /\ Reachable /\ WalkInv /\ Occupied \subseteq Slot
    BY <1>1 DEF MapInv, TableInv, Occupied
  <2>2. ASSUME WalkEnd PROVE walk.owed = {}
    <3>1. walk.slot = Capacity /\ ~walk.calling
      BY <2>2 DEF WalkEnd
    <3>2. \A s \in Occupied : ~Ahead(s)
      BY <2>1, <3>1 DEF Ahead, Slot
    <3> QED
      BY <2>1, <3>2, Zenon DEF WalkInv
  <2>3. ASSUME walk.on, ~walk.calling, walk'.calling
        PROVE  entries[walk.slot].key \notin walk.seen
    <3>1. \A op : ~May(op)
      BY <2>3 DEF May
    <3>5. ~WalkEnd
      BY <2>3 DEF WalkEnd, NoWalk
    <3>2. WalkSlot
      BY <1>1, <2>3, <3>1, <3>5, Zenon
         DEF Next, Put, PutTooLong, PutUpdate, PutEmpty, PutDeleted, PutFull, Get, Remove,
             RemoveMissing, Clear, WalkBegin, CallbackReturn
    <3>3. walk.slot \in Occupied
      <4>1. walk.slot \in Slot
        BY <2>1, <3>2 DEF TypeOK, WalkSlot, Slot
      <4>2. CASE ~IsOccupied(walk.slot)
        <5>1. walk' = [walk EXCEPT !.slot = walk.slot + 1]
          BY <3>2, <4>2 DEF WalkSlot
        <5>2. walk'.calling = walk.calling
          BY <2>1, <5>1 DEF TypeOK
        <5> QED
          BY <2>3, <5>2
      <4> QED
        BY <4>1, <4>2 DEF Occupied
    <3>4. \A s \in Occupied : ~Ahead(s) => s # walk.slot
      BY <2>1, <2>3 DEF Ahead, Slot
    <3> QED
      BY <2>1, <3>3, <3>4, KeyOnce DEF WalkInv
  <2> QED
    BY <2>2, <2>3
<1>2. MapInv /\ [Next]_vars
         => [/\ walk.on /\ ~walk.calling /\ walk'.calling
                  => entries[walk.slot].key \notin walk.seen
             /\ WalkEnd => walk.owed = {}]_vars
  BY <1>1
<1> QED
  BY <1>2, MapHolds, PTL DEF Spec, ForeachVisitsEachOnce
-----------------------------------------------------------------------------
(* The map implements the dictionary                                       *)

\* Pairs takes the key in a slot to the value in that slot.
LEMMA PairsAre ==
  Reachable => /\ DOMAIN Pairs = {entries[s].key : s \in Occupied}
               /\ \A s \in Occupied : Pairs[entries[s].key] = entries[s].value
<1> SUFFICES ASSUME Reachable, NEW s \in Occupied
             PROVE  Pairs[entries[s].key] = entries[s].value
  BY DEF Pairs
<1> DEFINE r == CHOOSE r \in Occupied : entries[r].key = entries[s].key
<1>1. r \in Occupied /\ entries[r].key = entries[s].key
  OBVIOUS
<1>2. r = s
  BY <1>1, KeyOnce
<1>3. Pairs[entries[s].key] = entries[r].value
  BY DEF Pairs
<1> QED
  BY <1>2, <1>3

LEMMA PairsNext ==
  ASSUME Reachable'
  PROVE  /\ DOMAIN Pairs' = {entries'[s].key : s \in Occupied'}
         /\ \A s \in Occupied' : Pairs'[entries'[s].key] = entries'[s].value
<1>1. (Reachable => /\ DOMAIN Pairs = {entries[s].key : s \in Occupied}
                    /\ \A s \in Occupied : Pairs[entries[s].key] = entries[s].value)'
  BY PairsAre, PTL
<1> QED
  BY <1>1

LEMMA SamePairs ==
  ASSUME UNCHANGED entries
  PROVE  UNCHANGED Pairs
BY DEF Pairs, Occupied, IsOccupied, IsEmpty, IsDeleted

\* The table with a pair more, with another value for a key, with a pair less.
LEMMA PairsAdded ==
  ASSUME Reachable, Reachable', NEW k, NEW v, NEW t, Adds(k, v, t)
  PROVE  Pairs' = [x \in DOMAIN Pairs \cup {k} |-> IF x = k THEN v ELSE Pairs[x]]
<1>1. DOMAIN Pairs' = DOMAIN Pairs \cup {k}
  BY PairsAre, PairsNext DEF Adds
<1>2. ASSUME NEW x \in DOMAIN Pairs'
      PROVE  Pairs'[x] = IF x = k THEN v ELSE Pairs[x]
  <2>1. PICK s \in Occupied' : x = entries'[s].key
    BY PairsNext
  <2>2. Pairs'[x] = entries'[s].value
    BY <2>1, PairsNext
  <2>3. CASE s = t
    <3>1. entries'[s].key = k /\ entries'[s].value = v
      BY <2>3 DEF Adds
    <3> QED
      BY <2>1, <2>2, <3>1
  <2>4. CASE s # t
    <3>1. s \in Occupied /\ entries'[s] = entries[s] /\ x # k
      BY <2>1, <2>4 DEF Adds
    <3> QED
      BY <2>1, <2>2, <3>1, PairsAre
  <2> QED
    BY <2>3, <2>4
<1>3. Pairs' = [x \in DOMAIN Pairs' |-> Pairs'[x]]
  BY DEF Pairs
<1> HIDE DEF Adds
<1> QED
  BY <1>1, <1>2, <1>3

LEMMA PairsUpdated ==
  ASSUME Reachable, Reachable', NEW k, NEW v, NEW t \in Slot, Updates(k, v, t)
  PROVE  /\ k \in DOMAIN Pairs
         /\ Pairs' = [x \in DOMAIN Pairs |-> IF x = k THEN v ELSE Pairs[x]]
<1>0. Occupied \subseteq Slot
  BY DEF Occupied
<1>1. DOMAIN Pairs' = DOMAIN Pairs /\ k \in DOMAIN Pairs
  <2>1. \A s \in Occupied : entries'[s].key = entries[s].key
    BY <1>0 DEF Updates
  <2>2. {entries'[s].key : s \in Occupied'} = {entries[s].key : s \in Occupied}
    BY <2>1 DEF Updates
  <2> QED
    BY <2>2, PairsAre, PairsNext DEF Updates
<1>2. ASSUME NEW x \in DOMAIN Pairs'
      PROVE  Pairs'[x] = IF x = k THEN v ELSE Pairs[x]
  <2>1. PICK s \in Occupied' : x = entries'[s].key
    BY PairsNext
  <2>2. Pairs'[x] = entries'[s].value
    BY <2>1, PairsNext
  <2>3. s \in Occupied /\ s \in Slot /\ x = entries[s].key
    BY <1>0, <2>1 DEF Updates
  <2>4. CASE s = t
    <3>1. entries'[s].value = v /\ x = k
      BY <2>3, <2>4 DEF Updates
    <3> QED
      BY <2>2, <3>1
  <2>5. CASE s # t
    <3>1. x # k
      BY <2>3, <2>5, KeyOnce DEF Updates
    <3>2. entries'[s].value = entries[s].value
      BY <2>3, <2>5 DEF Updates
    <3> QED
      BY <2>2, <2>3, <3>1, <3>2, PairsAre
  <2> QED
    BY <2>4, <2>5
<1>3. Pairs' = [x \in DOMAIN Pairs' |-> Pairs'[x]]
  BY DEF Pairs
<1> QED
  BY <1>1, <1>2, <1>3

LEMMA PairsDropped ==
  ASSUME Reachable, Reachable', NEW k, NEW t, Drops(k, t)
  PROVE  k \in DOMAIN Pairs /\ Pairs' = Dict!Restrict(Pairs, DOMAIN Pairs \ {k})
<1>1. DOMAIN Pairs' = DOMAIN Pairs \ {k} /\ k \in DOMAIN Pairs
  <2>1. \A s \in Occupied : s # t <=> entries[s].key # k
    BY KeyOnce DEF Drops
  <2>2. {entries'[s].key : s \in Occupied'} = {entries[s].key : s \in Occupied} \ {k}
    BY <2>1 DEF Drops
  <2> QED
    BY <2>2, PairsAre, PairsNext DEF Drops
<1>2. ASSUME NEW x \in DOMAIN Pairs'
      PROVE  Pairs'[x] = Pairs[x]
  <2>1. PICK s \in Occupied' : x = entries'[s].key
    BY PairsNext
  <2>2. s \in Occupied /\ entries'[s] = entries[s]
    BY DEF Drops
  <2> QED
    BY <2>1, <2>2, PairsAre, PairsNext
<1>3. Pairs' = [x \in DOMAIN Pairs' |-> Pairs'[x]]
  BY DEF Pairs
<1> QED
  BY <1>1, <1>2, <1>3 DEF Dict!Restrict

\* What a call that finds nothing to change answers.
LEMMA AnswersRight ==
  ASSUME MapInv, NEW k \in Keys,
         PutTooLong(k) \/ PutFull(k) \/ Get(k) \/ RemoveMissing(k)
  PROVE  Dict!Refuse(k) \/ Dict!Get(k) \/ Dict!Remove(k)
<1>0. /\ Reachable /\ KeysStored
      /\ DOMAIN Pairs = {entries[s].key : s \in Occupied}
      /\ \A s \in Occupied : Pairs[entries[s].key] = entries[s].value
      /\ UNCHANGED Pairs
  <2>1. UNCHANGED entries
    BY DEF PutTooLong, PutFull, Get, RemoveMissing
  <2> QED
    BY <2>1, PairsAre, SamePairs DEF MapInv, TableInv
<1>1. Absent(k) => k \notin DOMAIN Pairs
  BY <1>0, AbsentIs
<1>2. CASE PutTooLong(k)
  BY <1>0, <1>2 DEF PutTooLong, KeysStored, Dict!Refuse, Dict!Present
<1>3. CASE PutFull(k)
  <2>1. Absent(k)
    BY <1>3 DEF PutFull, Absent, Finds, StopsAt
  <2> QED
    BY <1>0, <1>1, <1>3, <2>1 DEF PutFull, Dict!Refuse, Dict!Present
<1>4. CASE Get(k)
  <2>1. CASE Absent(k) /\ reply' = NULL
    BY <1>0, <1>1, <2>1 DEF Dict!Get, Dict!Present
  <2>2. CASE \E i \in Probes : Finds(k, i) /\ reply' = entries[Probe(k, i)].value
    <3>1. PICK i \in Probes : Finds(k, i) /\ reply' = entries[Probe(k, i)].value
      BY <2>2
    <3>2. Probe(k, i) \in Occupied /\ entries[Probe(k, i)].key = k
      BY <3>1, HitIs DEF Finds
    <3>3. k \in DOMAIN Pairs /\ Pairs[k] = entries[Probe(k, i)].value
      BY <1>0, <3>2
    <3> QED
      BY <1>0, <3>1, <3>3 DEF Dict!Get, Dict!Present
  <2> QED
    BY <1>4, <2>1, <2>2 DEF Get
<1>5. CASE RemoveMissing(k)
  <2>1. k \notin DOMAIN Pairs
    BY <1>1, <1>5 DEF RemoveMissing
  <2>2. Pairs = [x \in DOMAIN Pairs |-> Pairs[x]] /\ DOMAIN Pairs \ {k} = DOMAIN Pairs
    BY <2>1 DEF Pairs
  <2>3. Dict!Restrict(Pairs, DOMAIN Pairs \ {k}) = Pairs
    BY <2>2 DEF Dict!Restrict
  <2> QED
    BY <1>0, <1>5, <2>1, <2>3 DEF RemoveMissing, Dict!Remove, Dict!Present
<1> QED
  BY <1>2, <1>3, <1>4, <1>5
LEMMA DictionaryStep ==
  ASSUME MapInv, MapInv', HashesUnmarked, [Next]_vars
  PROVE  [Dict!Next]_(Dict!vars)
<1> USE DEF Dict!vars
<1>0. Reachable /\ Reachable'
  BY DEF MapInv, TableInv
<1>1. CASE \E k \in Keys : PutTooLong(k) \/ PutFull(k) \/ Get(k) \/ RemoveMissing(k)
  BY <1>1, AnswersRight, Zenon DEF Dict!Next
<1>2. CASE \E k \in Keys, v \in Values : PutEmpty(k, v) \/ PutDeleted(k, v)
  <2>1. PICK k \in Keys, v \in Values : PutEmpty(k, v) \/ PutDeleted(k, v)
    BY <1>2
  <2>2. PICK t \in Slot : Adds(k, v, t) /\ k \notin LongKeys
    BY <2>1, PutNew DEF MapInv
  <2>3. Pairs' = [x \in DOMAIN Pairs \cup {k} |-> IF x = k THEN v ELSE Pairs[x]]
    <3>1. Adds(k, v, t)
      BY <2>2
    <3> QED
      BY <1>0, <3>1, PairsAdded, Zenon
  <2>4. Dict!Put(k, v)
    BY <2>2, <2>3 DEF Adds, Dict!Put, Dict!Present
  <2> QED
    BY <2>4 DEF Dict!Next
<1>3. CASE \E k \in Keys, v \in Values : PutUpdate(k, v)
  <2>1. PICK k \in Keys, v \in Values : PutUpdate(k, v)
    BY <1>3
  <2>2. PICK t \in Slot : Updates(k, v, t) /\ k \notin LongKeys
    BY <2>1, PutOld DEF MapInv
  <2>3. /\ Pairs' = [x \in DOMAIN Pairs |-> IF x = k THEN v ELSE Pairs[x]]
        /\ DOMAIN Pairs \cup {k} = DOMAIN Pairs
    BY <1>0, <2>2, PairsUpdated
  <2>4. Dict!Put(k, v)
    BY <2>2, <2>3 DEF Updates, Dict!Put, Dict!Present
  <2> QED
    BY <2>4 DEF Dict!Next
<1>4. CASE \E k \in Keys : Remove(k)
  <2>1. PICK k \in Keys : Remove(k)
    BY <1>4
  <2>2. PICK t \in Slot : Drops(k, t)
    BY <2>1, RemoveOld DEF MapInv
  <2>3. k \in DOMAIN Pairs /\ Pairs' = Dict!Restrict(Pairs, DOMAIN Pairs \ {k})
    BY <1>0, <2>2, PairsDropped
  <2>4. Dict!Remove(k)
    BY <2>2, <2>3 DEF Drops, Dict!Remove, Dict!Present
  <2> QED
    BY <2>4 DEF Dict!Next
<1>5. CASE Clear
  <2>1. Occupied' = {}
    BY <1>5, Marks DEF Clear, Occupied, IsOccupied, IsEmpty
  <2>2. Pairs' = Dict!NoPairs
    BY <2>1 DEF Pairs, Dict!NoPairs
  <2>3. Dict!Clear
    BY <1>5, <2>2 DEF Clear, Dict!Clear
  <2> QED
    BY <2>3 DEF Dict!Next
<1>6. CASE WalkBegin \/ WalkSlot \/ CallbackReturn \/ WalkEnd
  BY <1>6, SamePairs DEF WalkBegin, WalkSlot, CallbackReturn, WalkEnd
<1>7. CASE UNCHANGED vars
  BY <1>7, SamePairs DEF vars
<1> QED
  BY <1>1, <1>2, <1>3, <1>4, <1>5, <1>6, <1>7, Zenon DEF Next, Put

\* Every call of the hash map does to the pairs, and returns, what it does on a
\* plain map, whatever hashes collide and whatever was removed before.
THEOREM MapImplementsDictionary ==
  ASSUME HashesUnmarked
  PROVE  Spec => ImplementsDictionary
<1>1. Init => Dict!Init
  <2>1. ASSUME Init PROVE Pairs = Dict!NoPairs
    <3>1. Occupied = {}
      BY <2>1, Marks DEF Init, Occupied, IsOccupied, IsEmpty
    <3> QED
      BY <3>1 DEF Pairs, Dict!NoPairs
  <2> QED
    BY <2>1 DEF Init, Dict!Init
<1>2. MapInv /\ MapInv' /\ [Next]_vars => [Dict!Next]_(Dict!vars)
  BY DictionaryStep
<1> QED
  BY <1>1, <1>2, MapHolds, PTL DEF Spec, ImplementsDictionary, Dict!Spec

-----------------------------------------------------------------------------
(* The command table                                                       *)

\* The command table calls the map as any application may.
THEOREM CommandsUseMap == CommandSpec => Spec
<1>1. CommandInit => Init
  BY DEF CommandInit
<1>2. [CommandNext]_commandVars => [Next]_vars
  <2>1. ASSUME NEW k \in Keys, RegisterRefused(k) \/ Execute(k)
        PROVE  Next
    BY <2>1, Zenon DEF RegisterRefused, Execute, Next
  <2>2. ASSUME NEW k \in Keys, NEW handler \in Handlers, Register(k, handler)
        PROVE  Next
    BY <2>2, Zenon DEF Register, Next
  <2>3. CommandNext => Next
    BY <2>1, <2>2, Zenon DEF CommandNext
  <2> QED
    BY <2>3 DEF commandVars
<1> QED
  BY <1>1, <1>2, PTL DEF CommandSpec, Spec

\* A name in the map leads to an entry with the handler that it was registered with,
\* and a name that is not in the map has none.  An entry that the map did not take
\* keeps its handler, so that nothing is said of the entries out of the map.
CommandInv ==
  /\ store \in [Values -> Handlers \cup {NULL}]
  /\ bound \in [Keys -> Handlers \cup {NULL}]
  /\ user = "commands" =>
       /\ \A s \in Occupied :
            /\ entries[s].value \in Values
            /\ store[entries[s].value] = bound[entries[s].key]
            /\ bound[entries[s].key] # NULL
       /\ \A k \in Keys : Absent(k) => bound[k] = NULL

LEMMA CommandStep ==
  ASSUME MapInv, MapInv', HashesUnmarked, CommandInv, [CommandNext]_commandVars
  PROVE  CommandInv'
<1> USE HandlerAssumption DEF CommandInv
<1>0. /\ Reachable /\ Reachable' /\ KeysStored /\ KeysStored'
      /\ Occupied \subseteq Slot /\ TypeOK
  BY DEF MapInv, TableInv, Occupied
<1>1. CASE /\ UNCHANGED <<user, store, bound>>
           /\ entries' = entries \/ user # "commands"
  <2>1. CASE user # "commands"
    BY <1>1, <2>1
  <2>2. CASE entries' = entries
    <3>1. Occupied' = Occupied /\ \A k \in Keys : Absent(k)' <=> Absent(k)
      BY <2>2 DEF Absent, Finds, StopsAt, Ends, Hit, Occupied, IsOccupied, IsEmpty, IsDeleted
    <3> QED
      BY <1>1, <2>2, <3>1
  <2> QED
    BY <1>1, <2>1, <2>2
<1>2. CASE /\ user = "commands" /\ user' = user
           /\ \E k \in Keys, handler \in Handlers : Register(k, handler)
  <2>1. PICK k \in Keys, handler \in Handlers : Register(k, handler)
    BY <1>2
  <2>2. PICK e \in Values :
          /\ IsFree(e) /\ Put(k, e)
          /\ store' = [store EXCEPT ![e] = handler]
    BY <2>1 DEF Register
  <2>3. /\ Absent(k)
        /\ bound' = IF reply' = "OK" THEN [bound EXCEPT ![k] = handler] ELSE bound
        /\ bound[k] = NULL /\ store[e] = NULL
    BY <1>2, <2>1, <2>2 DEF Register, IsFree
  <2>4. /\ store' \in [Values -> Handlers \cup {NULL}]
        /\ bound' \in [Keys -> Handlers \cup {NULL}]
    BY <2>2, <2>3
  <2>5. \A s \in Occupied : /\ entries[s].key # k /\ entries[s].key \in Keys
                            /\ entries[s].value # e
    BY <1>0, <1>2, <2>3, AbsentIs DEF KeysStored
  <2>6. CASE PutTooLong(k) \/ PutFull(k)
    <3>1. entries' = entries /\ reply' # "OK"
      BY <2>6 DEF PutTooLong, PutFull
    <3>2. Occupied' = Occupied /\ \A q \in Keys : Absent(q)' <=> Absent(q)
      BY <3>1 DEF Absent, Finds, StopsAt, Ends, Hit, Occupied, IsOccupied, IsEmpty, IsDeleted
    <3> QED
      BY <1>2, <2>2, <2>3, <2>4, <2>5, <3>1, <3>2
  <2>7. CASE PutEmpty(k, e) \/ PutDeleted(k, e)
    <3>1. PICK t \in Slot : Adds(k, e, t)
      BY <2>7, PutNew DEF MapInv
    <3>2. \A s \in Occupied' :
            /\ entries'[s].value \in Values
            /\ store'[entries'[s].value] = bound'[entries'[s].key]
            /\ bound'[entries'[s].key] # NULL
      <4> TAKE s \in Occupied'
      <4>1. CASE s = t
        <5>1. entries'[s].key = k /\ entries'[s].value = e
          BY <3>1, <4>1 DEF Adds
        <5>2. store'[e] = handler /\ bound'[k] = handler /\ handler # NULL
          BY <2>2, <2>3, <3>1 DEF Adds
        <5> QED
          BY <5>1, <5>2
      <4>2. CASE s # t
        <5>1. s \in Occupied /\ entries'[s] = entries[s]
          BY <3>1, <4>2 DEF Adds
        <5> QED
          BY <1>2, <2>2, <2>3, <2>5, <5>1
      <4> QED
        BY <4>1, <4>2
    <3>3. \A q \in Keys : Absent(q)' => bound'[q] = NULL
      <4> TAKE q \in Keys
      <4> HAVE Absent(q)'
      <4>1. \A s \in Occupied' : entries'[s].key # q
        BY <1>0 DEF Absent, Reachable
      <4>2. q # k
        BY <3>1, <4>1 DEF Adds
      <4>3. Absent(q)
        BY <1>0, <3>1, <4>1, AbsentIs DEF Adds
      <4> QED
        BY <1>2, <2>3, <4>2, <4>3
    <3> QED
      BY <2>4, <3>2, <3>3
  <2>8. ~PutUpdate(k, e)
    BY <2>3 DEF Absent, PutUpdate
  <2> QED
    BY <2>2, <2>6, <2>7, <2>8 DEF Put
<1> QED
  BY <1>1, <1>2 DEF CommandNext, commandVars, vars, RegisterRefused, Execute, Get

\* A command line runs the handler that its name was registered with, and none if it
\* was not registered, whatever names collide and however full the map and the array
\* of handlers are.
THEOREM CommandsDispatch ==
  ASSUME HashesUnmarked, NULL \notin Values
  PROVE  CommandSpec => DispatchesRegistered
<1>1. CommandInit => CommandInv
  BY Marks DEF CommandInit, Init, CommandInv, Occupied, IsOccupied, IsEmpty
<1>2. MapInv /\ MapInv' /\ CommandInv /\ [CommandNext]_commandVars => CommandInv'
  BY CommandStep
<1>3. ASSUME MapInv, CommandInv, user = "commands", NEW k \in Keys, Execute(k)
      PROVE  ran' = bound[k]
  <2>1. CASE Absent(k) /\ reply' = NULL
    BY <1>3, <2>1 DEF Execute, CommandInv
  <2>2. CASE \E i \in Probes : Finds(k, i) /\ reply' = entries[Probe(k, i)].value
    <3>1. PICK i \in Probes : Finds(k, i) /\ reply' = entries[Probe(k, i)].value
      BY <2>2
    <3>2. Probe(k, i) \in Occupied /\ entries[Probe(k, i)].key = k
      BY <3>1, HitIs DEF Finds
    <3>3. reply' \in Values /\ store[reply'] = bound[k]
      BY <1>3, <3>1, <3>2 DEF CommandInv
    <3> QED
      BY <1>3, <3>3 DEF Execute
  <2> QED
    BY <1>3, <2>1, <2>2 DEF Execute, Get
<1>4. MapInv /\ CommandInv
         => [user = "commands" => \A k \in Keys : Execute(k) => ran' = bound[k]]_commandVars
  BY <1>3
<1> QED
  BY <1>1, <1>2, <1>4, MapHolds, CommandsUseMap, PTL DEF CommandSpec, DispatchesRegistered
=============================================================================
