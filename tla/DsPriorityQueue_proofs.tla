------------------------ MODULE DsPriorityQueue_proofs ------------------------
(***************************************************************************)
(* The heap of DsPriorityQueue is in order at every step of every sift,    *)
(* and it implements PriorityBag: for every capacity, every set of items   *)
(* and all priorities.                                                     *)
(***************************************************************************)
EXTENDS DsPriorityQueue, FiniteSetTheorems, WellFoundedInduction, TLAPS

\* The item that rises is one of the heap's.
RisingHeld == sift.pc = "up" => sift.idx \in Held

HeapInv == TypeOK /\ HeapOrder /\ RisingHeld

USE CapacityAssumption, PriorityAssumption

-----------------------------------------------------------------------------
(* Numbers and indexes                                                     *)

\* What replaces induction: a set of numbers has a least one.
LEMMA LeastElement ==
  ASSUME NEW T \in SUBSET Nat, T # {}
  PROVE  \E m \in T : \A k \in T : m <= k
<1> DEFINE R == OpToRel(<, Nat)
<1>1. IsWellFoundedOn(R, Nat)
  BY NatLessThanWellFounded
<1>2. \A k, m \in Nat : k < m => <<k, m>> \in R
  BY DEF OpToRel
<1> HIDE DEF R
<1>3. PICK m \in T : \A k \in T : ~(<<k, m>> \in R)
  BY <1>1, WFMin
<1>4. \A k \in T : ~(k < m)
  BY <1>2, <1>3, Zenon
<1>5. \A k \in T : m <= k
  BY <1>4
<1> QED BY <1>5

\* The parent of an index is the one index that has it as a child.
LEMMA ParentOfChild ==
  ASSUME NEW i \in Nat, i > 0
  PROVE  /\ Parent(i) \in Nat /\ Parent(i) < i
         /\ i = Left(Parent(i)) \/ i = Right(Parent(i))
         /\ \A p \in Nat : i = Left(p) \/ i = Right(p) => p = Parent(i)
BY DEF Parent, Left, Right

LEMMA ChildBounds ==
  ASSUME NEW p \in Nat
  PROVE  /\ Left(p) \in Nat /\ Right(p) \in Nat
         /\ p < Left(p) /\ Left(p) < Right(p) /\ 0 < Left(p)
BY DEF Left, Right

LEMMA HeldSlots ==
  ASSUME TypeOK
  PROVE  /\ Held \subseteq Nat /\ Held \subseteq Slot
         /\ \A i \in Held : \A j \in Nat : j < i => j \in Held
BY DEF TypeOK, Held, Slot

\* Where pq_sift_down looks: the item of a slot and those of its children.
LEMMA SmallestIs ==
  ASSUME TypeOK, sift.pc = "down"
  PROVE  LET i == sift.idx
             s == Smallest(i)
         IN /\ s = i \/ s \in Children(i)
            /\ s # i => Before(buffer[s], buffer[i])
            /\ \A c \in Children(i) : ~Before(buffer[c], buffer[s])
<1> DEFINE i == sift.idx
<1>1. /\ i \in Nat /\ i \in Slot /\ Left(i) \in Nat /\ Right(i) \in Nat
      /\ Held = 0 .. size - 1 /\ size \in Nat
      /\ i < Left(i) /\ Left(i) < Right(i)
  BY ChildBounds DEF TypeOK, Slot, Held
<1>2. \A c \in Nat : c < size => buffer[c] \in Item
  BY DEF TypeOK, Slot
<1>3. buffer[i] \in Item
  BY <1>1 DEF TypeOK
<1>4. \A x \in Item : Priority[x] \in Nat
  OBVIOUS
<1>5. PICK l \in Nat : l = Left(i)
  BY <1>1
<1>6. PICK r \in Nat : r = Right(i)
  BY <1>1
<1>7. /\ Children(i) = {c \in {l, r} : c < size}
      /\ Smallest(i) = LET s == IF Beats(l, i) THEN l ELSE i
                       IN IF Beats(r, s) THEN r ELSE s
  BY <1>1, <1>5, <1>6 DEF Children, Smallest
<1>8. /\ i < l /\ l < r /\ Priority[buffer[i]] \in Nat
      /\ \A c \in {l, r} : c < size => Priority[buffer[c]] \in Nat
  BY <1>1, <1>2, <1>3, <1>4, <1>5, <1>6
<1>9. PICK s : s = Smallest(i)
  OBVIOUS
<1> HIDE DEF i
<1>10. /\ s = i \/ s \in Children(i)
       /\ s # i => Before(buffer[s], buffer[i])
       /\ \A c \in Children(i) : ~Before(buffer[c], buffer[s])
  <2>1. CASE Beats(l, i)
    BY <1>7, <1>8, <1>9, <2>1 DEF Beats, Before
  <2>2. CASE ~Beats(l, i)
    BY <1>7, <1>8, <1>9, <2>2 DEF Beats, Before
  <2> QED
    BY <2>1, <2>2
<1> QED
  BY <1>9, <1>10 DEF i

-----------------------------------------------------------------------------
(* Types                                                                   *)

LEMMA TypeStep ==
  ASSUME TypeOK, [Next]_vars
  PROVE  TypeOK'
<1>1. CASE UNCHANGED vars
  BY <1>1 DEF vars, TypeOK, Held
<1>2. ASSUME NEW x \in Item, PushBegin(x) PROVE TypeOK'
  BY <1>2 DEF PushBegin, TypeOK, Held, Slot, AtRest, IsFull
<1>3. CASE SiftUp
  <2>1. sift.idx \in Nat /\ sift.idx > 0 /\ sift.idx \in Slot
    BY <1>3 DEF SiftUp, Rises, TypeOK, Slot
  <2>2. Parent(sift.idx) \in Slot
    BY <2>1, ParentOfChild DEF Slot
  <2>3. buffer' \in [Slot -> Item]
    BY <1>3, <2>1, <2>2 DEF SiftUp, Swap, TypeOK
  <2>4. sift' \in [pc : {"up"}, idx : Slot] /\ sift'.pc = "up" /\ sift.pc = "up"
    BY <1>3, <2>2 DEF SiftUp, TypeOK
  <2> QED
    BY <1>3, <2>3, <2>4 DEF SiftUp, TypeOK, Held
<1>4. CASE PushEnd
  <2>1. /\ sift.pc = "up" /\ sift' = NoSift /\ size' = size + 1
        /\ buffer' = buffer /\ out' = out
    BY <1>4 DEF PushEnd
  <2>2. size' \in 0 .. Capacity /\ Held' \subseteq Slot
    <3>1. Held = 0 .. size
      BY <2>1 DEF Held
    <3>2. size \in Nat /\ Held \subseteq Slot
      BY CapacityAssumption DEF TypeOK
    <3>3. size \in 0 .. Capacity - 1
      BY <3>1, <3>2 DEF Slot
    <3>4. Held' = 0 .. size' - 1
      BY <2>1 DEF Held, NoSift
    <3> QED
      BY <2>1, <3>3, <3>4 DEF Slot
  <2>3. sift' \in [pc : {"rest", "up", "down"}, idx : Slot]
    BY <2>1 DEF NoSift, Slot
  <2> QED
    BY <2>1, <2>2, <2>3 DEF TypeOK
<1>5. CASE PopBegin
  BY <1>5 DEF PopBegin, TypeOK, Held, Slot, AtRest, IsEmpty
<1>6. CASE SiftDown
  <2>1. sift.pc = "down" /\ Smallest(sift.idx) \in Slot /\ sift.idx \in Slot
    BY <1>6, SmallestIs, HeldSlots DEF SiftDown, TypeOK, Children
  <2>2. buffer' \in [Slot -> Item]
    BY <1>6, <2>1 DEF SiftDown, Swap, TypeOK
  <2>3. sift' \in [pc : {"down"}, idx : Slot] /\ sift'.pc = "down"
    BY <1>6, <2>1 DEF SiftDown, TypeOK
  <2> QED
    BY <1>6, <2>1, <2>2, <2>3 DEF SiftDown, TypeOK, Held
<1>7. CASE PopEnd
  BY <1>7 DEF PopEnd, TypeOK, Held, Slot, NoSift
<1>8. CASE Peek
  BY <1>8 DEF Peek, TypeOK, Held, Slot, IsEmpty
<1>9. CASE Reset
  BY <1>9 DEF Reset, TypeOK, Held, Slot, AtRest
<1> QED
  BY <1>1, <1>2, <1>3, <1>4, <1>5, <1>6, <1>7, <1>8, <1>9 DEF Next

\* The heap, its counter and the sift in progress keep their types: no sift
\* leaves the buffer, and size stays within the capacity.
THEOREM TypeCorrect == Spec => []TypeOK
<1>1. Init => TypeOK
  BY DEF Init, TypeOK, Held, Slot, NoSift
<1>2. TypeOK /\ [Next]_vars => TypeOK'
  BY TypeStep
<1> QED
  BY <1>1, <1>2, PTL DEF Spec

-----------------------------------------------------------------------------
(* The order of the heap                                                   *)

\* What the order says of one item and its parent.
LEMMA OrderedPair ==
  ASSUME HeapInv, NEW p \in Held, NEW c \in Children(p),
         ~(sift.pc = "up" /\ c = sift.idx), ~(sift.pc = "down" /\ p = sift.idx)
  PROVE  ~Before(buffer[c], buffer[p])
BY DEF HeapInv, HeapOrder, OrderedButAtSift

LEMMA PriorityOfSlot ==
  ASSUME TypeOK, NEW i \in Slot
  PROVE  buffer[i] \in Item /\ Priority[buffer[i]] \in Nat
BY DEF TypeOK

LEMMA SwapIs ==
  ASSUME TypeOK, NEW a \in Slot, NEW b \in Slot, a # b, Swap(a, b)
  PROVE  /\ buffer'[a] = buffer[b] /\ buffer'[b] = buffer[a]
         /\ \A j \in Slot : j # a /\ j # b => buffer'[j] = buffer[j]
<1>1. buffer \in [Slot -> Item]
  BY DEF TypeOK
<1> QED
  BY <1>1 DEF Swap

LEMMA PushBeginOrder ==
  ASSUME HeapInv, NEW x \in Item, PushBegin(x)
  PROVE  HeapOrder'
<1>1. /\ Held = 0 .. size - 1 /\ Held' = 0 .. size /\ size \in Nat
      /\ sift' = [pc |-> "up", idx |-> size] /\ sift.pc = "rest"
  BY DEF PushBegin, HeapInv, TypeOK, Held, AtRest
<1>2. \A i \in Held : buffer'[i] = buffer[i]
  BY <1>1 DEF PushBegin, HeapInv, TypeOK
<1>3. ASSUME NEW p \in Nat, NEW c \in Children(p)'
      PROVE  p < c /\ c \in Nat
  <2>1. c = Left(p) \/ c = Right(p)
    BY <1>3 DEF Children
  <2> QED
    BY <2>1, ChildBounds
<1>4. OrderedButAtSift'
  <2>1. SUFFICES ASSUME NEW p \in Held', NEW c \in Children(p)', c # size
                 PROVE  ~Before(buffer[c], buffer[p])'
    BY <1>1 DEF OrderedButAtSift
  <2>2. c \in Held /\ p \in Held /\ c \in Children(p)
    <3>1. p \in Nat /\ c \in Held'
      BY <1>1, <2>1 DEF Children
    <3>2. p < c /\ c \in Nat
      BY <1>3, <2>1, <3>1
    <3> QED
      BY <1>1, <2>1, <3>1, <3>2 DEF Children
  <2>3. ~Before(buffer[c], buffer[p])
    BY <1>1, <2>2, OrderedPair
  <2> QED
    BY <1>2, <2>2, <2>3 DEF Before
<1>5. OrderedAroundSift'
  <2>1. sift'.idx = size /\ \A c \in {Left(size), Right(size)} : c \notin Held'
    <3>1. size < Left(size) /\ size < Right(size)
      BY <1>1 DEF Left, Right
    <3>2. \A c \in Held' : c <= size
      BY <1>1
    <3> QED
      BY <1>1, <3>1, <3>2
  <2> QED
    BY <2>1 DEF OrderedAroundSift, Children
<1> QED
  BY <1>4, <1>5 DEF HeapOrder

LEMMA SiftUpOrder ==
  ASSUME HeapInv, SiftUp
  PROVE  HeapOrder'
<1> DEFINE i == sift.idx
           p == Parent(i)
<1>1. /\ i \in Slot /\ i > 0 /\ p \in Nat /\ p < i
      /\ p \in Slot /\ (i = Left(p) \/ i = Right(p))
      /\ \A q \in Nat : i = Left(q) \/ i = Right(q) => q = p
  BY ParentOfChild DEF SiftUp, Rises, HeapInv, TypeOK, Slot
<1>2. /\ sift.pc = "up" /\ sift'.pc = "up" /\ sift'.idx = p
      /\ Held' = Held /\ \A q : Children(q)' = Children(q)
  BY DEF SiftUp, HeapInv, TypeOK, Held, Children
<1>3. Before(buffer[i], buffer[p])
  BY DEF SiftUp, Rises
<1>4. /\ buffer'[i] = buffer[p] /\ buffer'[p] = buffer[i]
      /\ \A j \in Slot : j # i /\ j # p => buffer'[j] = buffer[j]
  BY <1>1, SwapIs DEF SiftUp, HeapInv
<1>5. \A q \in Held : \A c \in Children(q) : q < c /\ c \in Slot /\ q \in Slot /\ c \in Nat
  BY ChildBounds, HeldSlots DEF Children, HeapInv
<1>6. \A j \in Slot : Priority[buffer[j]] \in Nat
  BY PriorityOfSlot DEF HeapInv
<1> HIDE DEF i, p
<1>7. ASSUME NEW q \in Held, NEW c \in Children(q), c # p
      PROVE  Priority[buffer'[q]] <= Priority[buffer'[c]]
  <2>1. CASE q = p /\ c = i
    BY <1>1, <1>3, <1>4, <1>6, <2>1 DEF Before
  <2>2. CASE q = p /\ c # i
    <3>1. ~Before(buffer[c], buffer[p])
      BY <1>2, <2>2, OrderedPair DEF i
    <3>2. c \in Slot /\ buffer'[c] = buffer[c] /\ buffer'[q] = buffer[i]
      <4>1. c \in Slot
        BY <1>5
      <4> QED
        BY <1>4, <1>7, <2>2, <4>1
    <3>3. /\ Priority[buffer[c]] \in Nat /\ Priority[buffer[p]] \in Nat
          /\ Priority[buffer[i]] \in Nat
      BY <1>1, <1>6, <3>2
    <3> QED
      BY <1>3, <3>1, <3>2, <3>3 DEF Before
  <2>3. CASE q = i
    <3>1. p \in Held /\ i \in Children(p)
      BY <1>1, <2>3, HeldSlots DEF Children, HeapInv
    <3>2. ~Before(buffer[c], buffer[p])
      BY <1>2, <2>3, <3>1 DEF HeapInv, HeapOrder, OrderedAroundSift, AtRest, i
    <3>3. c \in Slot /\ c # i /\ buffer'[c] = buffer[c] /\ buffer'[q] = buffer[p]
      <4>1. c \in Slot /\ i < c /\ c \in Nat
        BY <1>5, <2>3
      <4>2. c # i /\ c # p
        BY <1>1, <1>7, <4>1
      <4> QED
        BY <1>4, <2>3, <4>1, <4>2
    <3>4. Priority[buffer[c]] \in Nat /\ Priority[buffer[p]] \in Nat
      BY <1>1, <1>6, <3>3
    <3> QED
      BY <3>2, <3>3, <3>4 DEF Before
  <2>4. CASE q # i /\ q # p
    <3>1. c # i
      BY <1>1, <1>7, <2>4, HeldSlots DEF Children, HeapInv
    <3>2. ~Before(buffer[c], buffer[q])
      BY <1>2, <3>1, OrderedPair DEF i
    <3> QED
      BY <1>4, <1>5, <1>6, <1>7, <2>4, <3>1, <3>2 DEF Before
  <2> QED
    BY <2>1, <2>2, <2>3, <2>4
<1>8. OrderedButAtSift'
  <2>1. SUFFICES ASSUME NEW q \in Held, NEW c \in Children(q), c # p
                 PROVE  ~Before(buffer'[c], buffer'[q])
    BY <1>2 DEF OrderedButAtSift, Before
  <2>2. Priority[buffer'[c]] \in Nat /\ Priority[buffer'[q]] \in Nat
    BY <1>1, <1>4, <1>5, <1>6
  <2> QED
    BY <1>7, <2>1, <2>2 DEF Before
<1>9. OrderedAroundSift'
  <2>1. SUFFICES ASSUME NEW g \in Held, p \in Children(g), NEW c \in Children(p)
                 PROVE  ~Before(buffer'[c], buffer'[g])
    BY <1>2 DEF OrderedAroundSift, Before
  <2>2. /\ g < p /\ g \in Slot /\ p \in Held /\ c \in Slot /\ p < c /\ g \in Nat /\ c \in Nat
        /\ buffer'[g] = buffer[g]
    <3>1. p \in Held
      BY <2>1 DEF Children
    <3>2. g < p /\ g \in Slot /\ g \in Nat
      BY <1>1, <1>5, <2>1, HeldSlots DEF HeapInv
    <3>3. p < c /\ c \in Slot /\ c \in Nat
      BY <1>5, <2>1, <3>1
    <3> QED
      BY <1>1, <1>4, <3>1, <3>2, <3>3
  <2>3. ~Before(buffer[p], buffer[g])
    BY <1>1, <1>2, <2>1, OrderedPair DEF i
  <2>4. CASE c = i
    BY <1>4, <2>2, <2>3, <2>4 DEF Before
  <2>5. CASE c # i
    <3>1. ~Before(buffer[c], buffer[p])
      BY <1>2, <2>1, <2>2, <2>5, OrderedPair DEF i
    <3>2. buffer'[c] = buffer[c]
      BY <1>4, <2>2, <2>5
    <3> QED
      BY <1>1, <1>6, <2>2, <2>3, <3>1, <3>2 DEF Before
  <2> QED
    BY <2>4, <2>5
<1> QED
  BY <1>8, <1>9 DEF HeapOrder

LEMMA PushEndOrder ==
  ASSUME HeapInv, PushEnd
  PROVE  HeapOrder'
<1>1. Held' = Held /\ buffer' = buffer /\ sift' = NoSift /\ sift.pc = "up"
  BY DEF PushEnd, HeapInv, TypeOK, Held, NoSift
<1>2. ASSUME NEW p \in Held, NEW c \in Children(p)
      PROVE  ~Before(buffer[c], buffer[p])
  <2>1. p \in Nat /\ c \in Nat /\ c > 0
    BY ChildBounds, HeldSlots DEF Children, HeapInv
  <2>2. CASE c = sift.idx
    BY <2>1, <2>2, ParentOfChild DEF PushEnd, Rises, Children
  <2>3. CASE c # sift.idx
    BY <1>1, <2>3, OrderedPair
  <2> QED
    BY <2>2, <2>3
<1> QED
  BY <1>1, <1>2
  DEF HeapOrder, OrderedButAtSift, OrderedAroundSift, AtRest, NoSift, Children, Before

LEMMA PopBeginOrder ==
  ASSUME HeapInv, PopBegin
  PROVE  HeapOrder'
<1>1. /\ Held' \subseteq Held /\ Held = 0 .. size - 1 /\ size \in Nat
      /\ sift.pc = "rest"
      /\ \/ sift'.pc = "down" /\ sift'.idx = 0
         \/ sift'.pc = "rest" /\ Held' = {}
  <2>1. /\ size \in Nat /\ size' = size - 1 /\ sift.pc = "rest" /\ Held = 0 .. size - 1
        /\ sift \in [pc : {"rest", "up", "down"}, idx : Slot]
    BY DEF PopBegin, HeapInv, TypeOK, Held, AtRest
  <2>2. CASE size' > 0
    BY <2>1, <2>2 DEF PopBegin, Held
  <2>3. CASE ~(size' > 0)
    <3>1. sift' = sift /\ size - 1 < 1
      BY <2>1, <2>3 DEF PopBegin
    <3>2. Held' = 0 .. size - 1 - 1
      BY <2>1, <3>1 DEF Held
    <3> QED
      BY <2>1, <3>1, <3>2
  <2> QED
    BY <2>2, <2>3
<1>2. \A j \in Held' : j # 0 => buffer'[j] = buffer[j]
  BY <1>1 DEF PopBegin, HeapInv, TypeOK
<1>3. \A p, c : c \in Children(p)' => c \in Held' /\ (c = Left(p) \/ c = Right(p))
  BY DEF Children
<1>4. ASSUME NEW p \in Held', NEW c \in Children(p)', p # 0
      PROVE  ~Before(buffer'[c], buffer'[p])
  <2>1. p \in Held /\ c \in Children(p) /\ c \in Held'
    BY <1>1, <1>3 DEF Children
  <2>2. c # 0
    <3>1. p \in Nat /\ (c = Left(p) \/ c = Right(p))
      BY <1>1, <1>3
    <3> QED
      BY <3>1, ChildBounds
  <2>3. ~Before(buffer[c], buffer[p])
    BY <1>1, <2>1, OrderedPair
  <2> QED
    BY <1>2, <1>4, <2>1, <2>2, <2>3
<1>5. OrderedButAtSift'
  BY <1>1, <1>4 DEF OrderedButAtSift, Before
<1>6. OrderedAroundSift'
  <2>1. \A g \in Nat : ~(0 = Left(g)) /\ ~(0 = Right(g))
    BY ChildBounds
  <2>2. \A g \in Held' : ~(0 \in Children(g)')
    BY <1>1, <1>3, <2>1
  <2> QED
    BY <1>1, <2>2 DEF OrderedAroundSift, Children
<1> QED
  BY <1>5, <1>6 DEF HeapOrder

LEMMA SiftDownOrder ==
  ASSUME HeapInv, SiftDown
  PROVE  HeapOrder'
<1> DEFINE i == sift.idx
           s == Smallest(i)
<1>1. /\ s \in Children(i) /\ Before(buffer[s], buffer[i])
      /\ \A c \in Children(i) : ~Before(buffer[c], buffer[s])
  BY SmallestIs DEF SiftDown, HeapInv
<1>2. /\ sift.pc = "down" /\ sift'.pc = "down" /\ sift'.idx = s
      /\ Held' = Held /\ \A q : Children(q)' = Children(q)
  BY DEF SiftDown, HeapInv, TypeOK, Held, Children
<1>3. \A q \in Held : \A c \in Children(q) :
        q < c /\ c \in Slot /\ q \in Slot /\ c \in Nat /\ q \in Nat
  BY ChildBounds, HeldSlots DEF Children, HeapInv
<1>4. i \in Held /\ i \in Slot /\ s \in Slot /\ s # i /\ i < s /\ i \in Nat /\ s \in Held
  <2>1. i \in Slot /\ i \in Nat
    BY DEF HeapInv, TypeOK, Slot
  <2>2. s \in Held /\ s \in Nat /\ i < s /\ s \in Slot
    BY <1>1, <2>1, ChildBounds, HeldSlots DEF Children, HeapInv
  <2>3. i \in Held
    BY <2>1, <2>2, HeldSlots DEF HeapInv
  <2> QED
    BY <2>1, <2>2, <2>3
<1>5. /\ buffer'[i] = buffer[s] /\ buffer'[s] = buffer[i]
      /\ \A j \in Slot : j # i /\ j # s => buffer'[j] = buffer[j]
  BY <1>4, SwapIs DEF SiftDown, HeapInv
<1>6. \A j \in Slot : Priority[buffer[j]] \in Nat
  BY PriorityOfSlot DEF HeapInv
<1>7. \A q \in Nat : s \in Children(q) => q = i
  <2>1. s > 0 /\ s \in Nat /\ (s = Left(i) \/ s = Right(i))
    BY <1>1, <1>4, ChildBounds DEF Children
  <2>2. \A q \in Nat : s = Left(q) \/ s = Right(q) => q = Parent(s)
    BY <2>1, ParentOfChild
  <2> QED
    BY <1>4, <2>1, <2>2 DEF Children
<1> HIDE DEF i, s
<1>8. ASSUME NEW q \in Held, NEW c \in Children(q), q # s
      PROVE  ~Before(buffer'[c], buffer'[q])
  <2>1. q < c /\ c \in Slot /\ q \in Slot /\ c \in Nat /\ q \in Nat
    BY <1>3
  <2>2. CASE q = i /\ c = s
    BY <1>1, <1>4, <1>5, <1>6, <2>2 DEF Before
  <2>3. CASE q = i /\ c # s
    <3>1. ~Before(buffer[c], buffer[s]) /\ buffer'[c] = buffer[c] /\ buffer'[q] = buffer[s]
      BY <1>1, <1>5, <2>1, <2>3
    <3> QED
      BY <3>1
  <2>4. CASE q # i /\ c = i
    <3>1. i \in Children(q) /\ s \in Children(i)
      BY <1>1, <2>4
    <3>2. ~Before(buffer[s], buffer[q])
      BY <1>2, <3>1 DEF HeapInv, HeapOrder, OrderedAroundSift, AtRest, i
    <3>3. buffer'[q] = buffer[q] /\ buffer'[c] = buffer[s]
      BY <1>5, <1>8, <2>1, <2>4
    <3> QED
      BY <3>2, <3>3
  <2>5. CASE q # i /\ c # i
    <3>1. c # s
      BY <1>7, <2>1, <2>5
    <3>2. ~Before(buffer[c], buffer[q])
      BY <1>2, <2>5, OrderedPair DEF i
    <3>3. buffer'[q] = buffer[q] /\ buffer'[c] = buffer[c]
      BY <1>5, <1>8, <2>1, <2>5, <3>1
    <3> QED
      BY <3>2, <3>3
  <2> QED
    BY <2>2, <2>3, <2>4, <2>5
<1>9. OrderedButAtSift'
  BY <1>2, <1>8 DEF OrderedButAtSift, Before
<1>10. OrderedAroundSift'
  <2>1. SUFFICES ASSUME NEW g \in Held, s \in Children(g), NEW c \in Children(s)
                 PROVE  ~Before(buffer'[c], buffer'[g])
    BY <1>2 DEF OrderedAroundSift, Before
  <2>2. g = i /\ s < c /\ c \in Slot
    BY <1>3, <1>4, <1>7, <2>1
  <2>3. c # i /\ c # s
    BY <1>3, <1>4, <2>1, <2>2
  <2>4. ~Before(buffer[c], buffer[s])
    BY <1>2, <1>4, <2>1, OrderedPair DEF i
  <2> QED
    BY <1>5, <2>2, <2>3, <2>4
<1> QED
  BY <1>9, <1>10 DEF HeapOrder

LEMMA PopEndOrder ==
  ASSUME HeapInv, PopEnd
  PROVE  HeapOrder'
<1>1. Held' = Held /\ buffer' = buffer /\ sift' = NoSift /\ sift.pc = "down"
  BY DEF PopEnd, HeapInv, TypeOK, Held, NoSift
<1>2. ASSUME NEW p \in Held, NEW c \in Children(p)
      PROVE  ~Before(buffer[c], buffer[p])
  <2>1. CASE p = sift.idx
    BY <1>1, <2>1, SmallestIs DEF PopEnd, HeapInv
  <2>2. CASE p # sift.idx
    BY <1>1, <2>2, OrderedPair
  <2> QED
    BY <2>1, <2>2
<1> QED
  BY <1>1, <1>2
  DEF HeapOrder, OrderedButAtSift, OrderedAroundSift, AtRest, NoSift, Children, Before

LEMMA RestOrder ==
  ASSUME HeapInv, Peek \/ Reset
  PROVE  HeapOrder'
<1>1. Held' \subseteq Held /\ buffer' = buffer /\ sift' = sift /\ sift.pc = "rest"
  BY DEF Peek, Reset, HeapInv, TypeOK, Held, AtRest
<1>2. \A p : Children(p)' \subseteq Children(p)
  BY <1>1 DEF Children
<1> QED
  BY <1>1, <1>2, OrderedPair DEF HeapOrder, OrderedButAtSift, OrderedAroundSift, AtRest, Before

LEMMA RisingStep ==
  ASSUME TypeOK, RisingHeld, [Next]_vars
  PROVE  RisingHeld'
<1>1. CASE SiftUp
  <2>1. sift.idx \in Nat /\ sift.idx > 0 /\ sift.idx \in Held /\ Held' = Held
    BY <1>1 DEF SiftUp, Rises, RisingHeld, TypeOK, Slot, Held
  <2>2. Parent(sift.idx) \in Held
    BY <2>1, ParentOfChild, HeldSlots
  <2> QED
    BY <1>1, <2>1, <2>2 DEF SiftUp, TypeOK, RisingHeld
<1>2. ASSUME NEW x \in Item, PushBegin(x) PROVE RisingHeld'
  BY <1>2 DEF PushBegin, RisingHeld, Held, TypeOK
<1>3. CASE UNCHANGED vars
  BY <1>3 DEF vars, RisingHeld, Held
<1>4. CASE PushEnd \/ PopBegin \/ SiftDown \/ PopEnd \/ Peek \/ Reset
  <2>1. sift'.pc # "up"
    BY <1>4 DEF PushEnd, PopBegin, SiftDown, PopEnd, Peek, Reset, NoSift, AtRest, TypeOK
  <2> QED
    BY <2>1 DEF RisingHeld
<1> QED
  BY <1>1, <1>2, <1>3, <1>4 DEF Next

LEMMA HeapStep ==
  ASSUME HeapInv, [Next]_vars
  PROVE  HeapInv'
<1>1. TypeOK' /\ RisingHeld'
  BY TypeStep, RisingStep DEF HeapInv
<1>2. CASE UNCHANGED vars
  BY <1>1, <1>2 DEF vars, HeapInv, HeapOrder, OrderedButAtSift, OrderedAroundSift,
    AtRest, Held, Children, Before
<1>3. CASE Next
  BY <1>1, <1>3, PushBeginOrder, SiftUpOrder, PushEndOrder, PopBeginOrder,
    SiftDownOrder, PopEndOrder, RestOrder DEF Next, HeapInv
<1> QED
  BY <1>2, <1>3

LEMMA HeapInvariant == Spec => []HeapInv
<1>1. Init => HeapInv
  <2>1. Init => TypeOK
    BY DEF Init, TypeOK, Held, Slot, NoSift
  <2>2. Init => Held = {} /\ AtRest /\ RisingHeld
    BY DEF Init, Held, NoSift, AtRest, RisingHeld
  <2> QED
    BY <2>1, <2>2 DEF HeapInv, HeapOrder, OrderedButAtSift, OrderedAroundSift
<1>2. HeapInv /\ [Next]_vars => HeapInv'
  BY HeapStep
<1> QED
  BY <1>1, <1>2, PTL DEF Spec

\* At rest no item goes before its parent; in the middle of a sift the only
\* disorder is where pq_sift_up or pq_sift_down is at work.
THEOREM HeapAlwaysOrdered == Spec => []HeapOrder
<1>1. HeapInv => HeapOrder
  BY DEF HeapInv
<1> QED
  BY <1>1, HeapInvariant, PTL

-----------------------------------------------------------------------------
(* The bag of the items                                                    *)

\* At rest, what a pop and a peek give out: nothing goes before the root.
LEMMA RootIsLeast ==
  ASSUME HeapInv, AtRest, NEW i \in Held
  PROVE  Priority[buffer[0]] <= Priority[buffer[i]]
<1> DEFINE T == {j \in Held : Before(buffer[j], buffer[0])}
<1>1. \A j \in Held : j \in Nat /\ j \in Slot
  BY HeldSlots DEF HeapInv
<1>2. 0 \in Held /\ 0 \in Slot
  BY <1>1, HeldSlots DEF HeapInv, Slot
<1>3. \A j \in Held : Priority[buffer[j]] \in Nat
  BY <1>1, PriorityOfSlot DEF HeapInv
<1>4. ASSUME T # {} PROVE FALSE
  <2>1. T \in SUBSET Nat
    BY <1>1
  <2>2. PICK m \in T : \A k \in T : m <= k
    BY <1>4, <2>1, LeastElement
  <2>3. m \in Held /\ m \in Nat /\ m > 0 /\ Before(buffer[m], buffer[0])
    BY <1>1, <1>2, <1>3, <2>2 DEF Before
  <2>4. /\ Parent(m) \in Nat /\ Parent(m) < m
        /\ m = Left(Parent(m)) \/ m = Right(Parent(m))
    BY <2>3, ParentOfChild
  <2>5. Parent(m) \in Held /\ m \in Children(Parent(m))
    BY <2>3, <2>4, HeldSlots DEF HeapInv, Children
  <2>6. ~Before(buffer[m], buffer[Parent(m)])
    BY <2>5, OrderedPair DEF AtRest
  <2>7. Parent(m) \notin T
    BY <2>2, <2>3, <2>4
  <2>8. ~Before(buffer[Parent(m)], buffer[0])
    BY <2>5, <2>7
  <2>9. /\ Priority[buffer[m]] \in Nat /\ Priority[buffer[Parent(m)]] \in Nat
        /\ Priority[buffer[0]] \in Nat
    BY <1>2, <1>3, <2>3, <2>5
  <2> QED
    BY <2>3, <2>6, <2>8, <2>9 DEF Before
<1>5. ~Before(buffer[i], buffer[0])
  BY <1>4
<1> QED
  BY <1>2, <1>3, <1>5 DEF Before

LEMMA PlacesFinite ==
  ASSUME TypeOK, NEW x
  PROVE  IsFiniteSet(Places(x)) /\ Cardinality(Places(x)) \in Nat
<1>1. IsFiniteSet(Held)
  <2>1. \A n \in Int : IsFiniteSet(0 .. n)
    BY FS_Interval
  <2> QED
    BY <2>1 DEF Held, TypeOK
<1>2. Places(x) \in SUBSET Held
  BY DEF Places
<1> QED
  BY <1>1, <1>2, FS_Subset, FS_CardinalityType

LEMMA MovedElement ==
  ASSUME NEW P, IsFiniteSet(P), Cardinality(P) \in Nat, NEW a \in P, NEW b, b \notin P
  PROVE  Cardinality((P \ {a}) \cup {b}) = Cardinality(P)
<1>1. IsFiniteSet(P \ {a}) /\ Cardinality(P \ {a}) = Cardinality(P) - 1
  BY FS_RemoveElement
<1>2. Cardinality((P \ {a}) \cup {b}) = Cardinality(P \ {a}) + 1
  BY <1>1, FS_AddElement
<1> QED BY <1>1, <1>2

\* pq_swap loses nothing and doubles nothing.
LEMMA SwapContents ==
  ASSUME TypeOK, NEW a \in Held, NEW b \in Held, a # b, Swap(a, b), Held' = Held
  PROVE  Contents' = Contents
<1>1. /\ buffer'[a] = buffer[b] /\ buffer'[b] = buffer[a]
      /\ \A j \in Held : j # a /\ j # b => buffer'[j] = buffer[j]
  BY SwapIs, HeldSlots
<1>2. ASSUME NEW x \in Item
      PROVE  Cardinality(Places(x)') = Cardinality(Places(x))
  <2> DEFINE P == Places(x)
             Q == Places(x)'
  <2>1. P = {j \in Held : buffer[j] = x} /\ Q = {j \in Held : buffer'[j] = x}
    BY DEF Places
  <2>2. IsFiniteSet(P) /\ Cardinality(P) \in Nat
    BY PlacesFinite
  <2> SUFFICES Cardinality(Q) = Cardinality(P)
    OBVIOUS
  <2> HIDE DEF P, Q
  <2>3. CASE a \in P /\ b \notin P
    <3>1. Q = (P \ {a}) \cup {b}
      BY <1>1, <2>1, <2>3
    <3> QED
      BY <2>2, <2>3, <3>1, MovedElement
  <2>4. CASE b \in P /\ a \notin P
    <3>1. Q = (P \ {b}) \cup {a}
      BY <1>1, <2>1, <2>4
    <3> QED
      BY <2>2, <2>4, <3>1, MovedElement
  <2>5. CASE a \in P <=> b \in P
    <3>1. Q = P
      BY <1>1, <2>1, <2>5
    <3> QED
      BY <3>1
  <2> QED
    BY <2>3, <2>4, <2>5
<1> QED
  BY <1>2 DEF Contents

LEMMA PushAddsItem ==
  ASSUME TypeOK, NEW x \in Item, PushBegin(x)
  PROVE  Contents' = [Contents EXCEPT ![x] = @ + 1]
<1>1. /\ Held = 0 .. size - 1 /\ Held' = 0 .. size /\ size \in Nat /\ size \in Slot
      /\ buffer'[size] = x /\ \A j \in Held : buffer'[j] = buffer[j]
  BY DEF PushBegin, TypeOK, Held, AtRest, IsFull, Slot
<1>2. Held' = Held \cup {size} /\ size \notin Held
  BY <1>1
<1>3. ASSUME NEW y \in Item
      PROVE  Cardinality(Places(y)')
               = IF y = x THEN Cardinality(Places(y)) + 1 ELSE Cardinality(Places(y))
  <2>1. IsFiniteSet(Places(y)) /\ size \notin Places(y)
    BY <1>2, PlacesFinite DEF Places
  <2>2. CASE y = x
    <3>1. Places(y)' = Places(y) \cup {size}
      BY <1>1, <1>2, <2>2 DEF Places
    <3> QED
      BY <2>1, <2>2, <3>1, FS_AddElement
  <2>3. CASE y # x
    <3>1. Places(y)' = Places(y)
      BY <1>1, <1>2, <2>3 DEF Places
    <3> QED
      BY <2>3, <3>1
  <2> QED
    BY <2>2, <2>3
<1> QED
  BY <1>3 DEF Contents

LEMMA PopTakesItem ==
  ASSUME TypeOK, PopBegin
  PROVE  Contents' = [Contents EXCEPT ![buffer[0]] = @ - 1]
<1> DEFINE last == size - 1
<1>1. /\ Held = 0 .. last /\ Held' = 0 .. last - 1 /\ size \in Nat /\ last \in Nat
      /\ size \in 0 .. Capacity /\ size' = last
  BY DEF PopBegin, TypeOK, Held, AtRest, IsEmpty
<1>2. Held' = Held \ {last} /\ 0 \in Held /\ last \in Held
  BY <1>1
<1>3. /\ last > 0 => buffer'[0] = buffer[last]
      /\ \A j \in Held' : j # 0 => buffer'[j] = buffer[j]
  BY <1>1, <1>2 DEF PopBegin, TypeOK, Slot
<1> HIDE DEF last
<1>4. ASSUME NEW y \in Item
      PROVE  Cardinality(Places(y)')
               = IF y = buffer[0] THEN Cardinality(Places(y)) - 1
                 ELSE Cardinality(Places(y))
  <2> DEFINE P == Places(y)
             Q == Places(y)'
  <2>1. P = {j \in Held : buffer[j] = y} /\ Q = {j \in Held' : buffer'[j] = y}
    BY DEF Places
  <2>2. IsFiniteSet(P) /\ Cardinality(P) \in Nat
    BY PlacesFinite
  <2> HIDE DEF P, Q
  <2>3. y = buffer[0] <=> 0 \in P
    BY <1>2, <2>1
  <2>4. CASE last = 0
    <3>1. Held = {0} /\ Held' = {}
      BY <1>1, <1>2, <2>4
    <3>2. Q = P \ {0} /\ (0 \notin P => Q = P)
      BY <2>1, <3>1
    <3>3. 0 \in P => Cardinality(P \ {0}) = Cardinality(P) - 1
      BY <2>2, FS_RemoveElement
    <3>4. Cardinality(Q) = IF 0 \in P THEN Cardinality(P) - 1 ELSE Cardinality(P)
      BY <3>2, <3>3
    <3> QED
      BY <2>3, <3>4 DEF P, Q
  <2>5. CASE last # 0 /\ last \notin P
    <3>1. Q = P \ {0}
      BY <1>1, <1>2, <1>3, <2>1, <2>5
    <3>2. Cardinality(Q) = IF 0 \in P THEN Cardinality(P) - 1 ELSE Cardinality(P)
      BY <2>2, <3>1, FS_RemoveElement
    <3> QED
      BY <2>3, <3>2 DEF P, Q
  <2>6. CASE last # 0 /\ last \in P
    <3>1. Q = (P \ {last}) \cup {0}
      BY <1>1, <1>2, <1>3, <2>1, <2>6
    <3>2. IsFiniteSet(P \ {last}) /\ Cardinality(P \ {last}) = Cardinality(P) - 1
      BY <2>2, <2>6, FS_RemoveElement
    <3>3. 0 \in P \ {last} <=> 0 \in P
      BY <2>6
    <3>4. Cardinality(Q) = IF 0 \in P \ {last} THEN Cardinality(P \ {last})
                           ELSE Cardinality(P \ {last}) + 1
      BY <3>1, <3>2, FS_AddElement
    <3>5. Cardinality(Q) = IF 0 \in P THEN Cardinality(P) - 1 ELSE Cardinality(P)
      BY <2>2, <3>2, <3>3, <3>4
    <3> QED
      BY <2>3, <3>5 DEF P, Q
  <2> QED
    BY <2>4, <2>5, <2>6
<1> QED
  BY <1>4 DEF Contents

LEMMA RootIsAbstractLeast ==
  ASSUME HeapInv, AtRest, ~IsEmpty
  PROVE  buffer[0] \in Item /\ Abstract!Least(buffer[0])
<1>1. 0 \in Held /\ 0 \in Slot /\ buffer[0] \in Item
  BY DEF HeapInv, TypeOK, Held, Slot, AtRest, IsEmpty
<1>2. ASSUME NEW y \in Item
      PROVE  Contents[y] > 0 <=> \E i \in Held : buffer[i] = y
  <2>1. IsFiniteSet(Places(y)) /\ Cardinality(Places(y)) \in Nat
    BY PlacesFinite DEF HeapInv
  <2>2. Cardinality(Places(y)) = 0 <=> Places(y) = {}
    BY <2>1, FS_EmptySet
  <2>3. Contents[y] = Cardinality(Places(y))
    BY DEF Contents
  <2>4. Places(y) = {} <=> ~\E i \in Held : buffer[i] = y
    BY DEF Places
  <2> QED
    BY <2>1, <2>2, <2>3, <2>4
<1>3. Contents[buffer[0]] > 0
  BY <1>1, <1>2
<1>4. ASSUME NEW y \in Item, Contents[y] > 0
      PROVE  Priority[buffer[0]] <= Priority[y]
  <2>1. PICK i \in Held : buffer[i] = y
    BY <1>2, <1>4
  <2> QED
    BY <2>1, RootIsLeast
<1> QED
  BY <1>1, <1>3, <1>4 DEF Abstract!Least, Abstract!Queued

LEMMA ContentsKept ==
  ASSUME Held' = Held, buffer' = buffer
  PROVE  Contents' = Contents
BY DEF Contents, Places

LEMMA StepRefines ==
  ASSUME HeapInv, [Next]_vars
  PROVE  [Abstract!Next]_(Abstract!vars)
<1>1. CASE UNCHANGED vars
  BY <1>1, ContentsKept DEF vars, Held, Abstract!vars
<1>2. ASSUME NEW x \in Item, PushBegin(x)
      PROVE  Abstract!Next
  <2>1. Abstract!Push(x)
    BY <1>2, PushAddsItem DEF PushBegin, HeapInv, Abstract!Push
  <2> QED
    BY <2>1 DEF Abstract!Next
<1>3. CASE SiftUp
  <2>1. /\ sift.idx \in Held /\ Parent(sift.idx) \in Held /\ sift.idx # Parent(sift.idx)
        /\ Held' = Held
    <3>1. sift.idx \in Nat /\ sift.idx > 0
      BY <1>3 DEF SiftUp, Rises, HeapInv, TypeOK, Slot
    <3>2. Parent(sift.idx) \in Nat /\ Parent(sift.idx) < sift.idx
      BY <3>1, ParentOfChild
    <3>3. Held' = Held /\ sift.idx \in Held
      BY <1>3 DEF SiftUp, HeapInv, RisingHeld, TypeOK, Held
    <3> QED
      BY <3>1, <3>2, <3>3, HeldSlots DEF HeapInv
  <2> QED
    BY <1>3, <2>1, SwapContents DEF SiftUp, HeapInv, Abstract!vars
<1>4. CASE PushEnd
  <2>1. Held' = Held /\ buffer' = buffer
    BY <1>4 DEF PushEnd, HeapInv, TypeOK, Held, NoSift
  <2> QED
    BY <1>4, <2>1, ContentsKept DEF PushEnd, Abstract!vars
<1>5. CASE PopBegin
  <2>1. buffer[0] \in Item /\ Abstract!Least(buffer[0])
    BY <1>5, RootIsAbstractLeast DEF PopBegin
  <2>2. Abstract!Pop(buffer[0])
    BY <1>5, <2>1, PopTakesItem DEF PopBegin, HeapInv, Abstract!Pop
  <2> QED
    BY <2>1, <2>2 DEF Abstract!Next
<1>6. CASE SiftDown
  <2>1. /\ sift.idx \in Held /\ Smallest(sift.idx) \in Held
        /\ sift.idx # Smallest(sift.idx) /\ Held' = Held
    <3>1. Smallest(sift.idx) \in Children(sift.idx) /\ sift.idx \in Nat
      BY <1>6, SmallestIs DEF SiftDown, HeapInv, TypeOK, Slot
    <3>2. Smallest(sift.idx) \in Held /\ sift.idx < Smallest(sift.idx)
      BY <3>1, ChildBounds DEF Children
    <3>3. Held' = Held
      BY <1>6 DEF SiftDown, HeapInv, TypeOK, Held
    <3> QED
      BY <1>6, <3>1, <3>2, <3>3, HeldSlots DEF SiftDown, HeapInv
  <2> QED
    BY <1>6, <2>1, SwapContents DEF SiftDown, HeapInv, Abstract!vars
<1>7. CASE PopEnd
  <2>1. Held' = Held /\ buffer' = buffer
    BY <1>7 DEF PopEnd, HeapInv, TypeOK, Held, NoSift
  <2> QED
    BY <1>7, <2>1, ContentsKept DEF PopEnd, Abstract!vars
<1>8. CASE Peek
  <2>1. buffer[0] \in Item /\ Abstract!Least(buffer[0])
    BY <1>8, RootIsAbstractLeast DEF Peek
  <2>2. Contents' = Contents
    BY <1>8, ContentsKept DEF Peek, Held
  <2>3. Abstract!Peek(buffer[0])
    BY <1>8, <2>1, <2>2 DEF Peek, Abstract!Peek
  <2> QED
    BY <2>1, <2>3 DEF Abstract!Next
<1>9. CASE Reset
  <2>1. Held' = {} /\ out' = out
    BY <1>9 DEF Reset, Held, AtRest
  <2>2. \A x \in Item : Cardinality(Places(x)') = 0
    BY <2>1, FS_EmptySet DEF Places
  <2>3. Abstract!Clear
    BY <2>1, <2>2 DEF Contents, Abstract!Clear
  <2> QED
    BY <2>3 DEF Abstract!Next
<1> QED
  BY <1>1, <1>2, <1>3, <1>4, <1>5, <1>6, <1>7, <1>8, <1>9 DEF Next

\* The heap implements the bag: the swaps of the sifts lose and double no item,
\* and ds_pqueue_pop and ds_pqueue_peek give out one that none goes before.
THEOREM HeapImplementsPriorityBag == Spec => ImplementsPriorityBag
<1>1. Init => Abstract!Init
  <2>1. ASSUME Init PROVE Held = {} /\ out \in Item
    BY <2>1 DEF Init, Held, NoSift
  <2>2. ASSUME Init PROVE \A x \in Item : Cardinality(Places(x)) = 0
    BY <2>1, <2>2, FS_EmptySet DEF Places
  <2> QED
    BY <2>1, <2>2 DEF Contents, Abstract!Init
<1>2. HeapInv /\ [Next]_vars => [Abstract!Next]_(Abstract!vars)
  BY StepRefines
<1> QED
  BY <1>1, <1>2, HeapInvariant, PTL DEF Spec, ImplementsPriorityBag, Abstract!Spec
=============================================================================
