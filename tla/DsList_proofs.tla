---------------------------- MODULE DsList_proofs ----------------------------
(***************************************************************************)
(* The list of DsList is a whole ring after every call, and what           *)
(* ds_list_at shows of it is a sequence; a walk visits every node that     *)
(* stays in the list once.  For every set of nodes.                        *)
(*                                                                         *)
(* A call does the same to next as to prev with the directions swapped, so *)
(* the lemmas are about a pair of links f and g that are inverse to each   *)
(* other on the cells C of a ring.                                         *)
(***************************************************************************)
EXTENDS DsList, FiniteSetTheorems, SequenceTheorems, WellFoundedInduction, TLAPS

USE NodeAssumption, FiniteAssumption

-----------------------------------------------------------------------------
(* Rings                                                                   *)

\* f and g lead round the cells C, in one direction and in the other, and no part
\* of C is a ring of its own.
IsRing(f, g, C) ==
  /\ HEAD \in C
  /\ \A c \in C : f[c] \in C /\ g[c] \in C /\ f[g[c]] = c /\ g[f[c]] = c
  /\ \A S \in SUBSET C : ClosedUnder(f, S) \/ ClosedUnder(g, S) => S = C

LEMMA RingTurned ==
  ASSUME NEW f, NEW g, NEW C, IsRing(f, g, C)
  PROVE  IsRing(g, f, C)
BY DEF IsRing

LEMMA NoLoop ==
  ASSUME NEW f, NEW g, NEW C, IsRing(f, g, C), NEW n \in C, n # HEAD
  PROVE  f[n] # n /\ g[n] # n
<1> SUFFICES ASSUME f[n] = n \/ g[n] = n PROVE FALSE
  OBVIOUS
<1>1. f[n] = n /\ g[n] = n
  BY DEF IsRing
<1>2. \A c \in C \ {n} : f[c] \in C \ {n}
  BY <1>1 DEF IsRing
<1>3. ClosedUnder(f, C \ {n})
  BY <1>2 DEF IsRing, ClosedUnder
<1> QED
  BY <1>3 DEF IsRing

\* f2 and g2 are f and g with n put in behind a, in the direction of f.
Joins(f, g, f2, g2, C, a, n) ==
  /\ f2[n] = f[a] /\ f2[a] = n
  /\ \A c \in C : c # a => f2[c] = f[c]
  /\ g2[n] = a /\ g2[f[a]] = n
  /\ \A c \in C : c # f[a] => g2[c] = g[c]

\* f2 and g2 are f and g without n, whose own links stay.
Parts(f, g, f2, g2, C, n) ==
  /\ f2[g[n]] = f[n] /\ \A c \in C : c # g[n] => f2[c] = f[c]
  /\ g2[f[n]] = g[n] /\ \A c \in C : c # f[n] => g2[c] = g[c]

LEMMA JoinsTurned ==
  ASSUME NEW f, NEW g, NEW f2, NEW g2, NEW C, NEW a \in C, NEW n,
         IsRing(f, g, C), Joins(f, g, f2, g2, C, a, n)
  PROVE  Joins(g, f, g2, f2, C, f[a], n)
BY DEF IsRing, Joins

LEMMA JoinedClosed ==
  ASSUME NEW f, NEW g, NEW f2, NEW g2, NEW C, NEW a \in C, NEW n, n \notin C,
         IsRing(f, g, C), Joins(f, g, f2, g2, C, a, n),
         NEW S \in SUBSET (C \cup {n}), ClosedUnder(f2, S)
  PROVE  S = C \cup {n}
<1> DEFINE T == S \ {n}
<1>1. HEAD \in T
  BY DEF ClosedUnder, IsRing
<1>2. \A c \in T : f[c] \in T
  <2> TAKE c \in T
  <2>1. c \in C /\ f[c] \in C /\ f2[c] \in S
    BY DEF ClosedUnder, IsRing
  <2>2. CASE c = a
    BY <2>1, <2>2 DEF ClosedUnder, Joins
  <2>3. CASE c # a
    BY <2>1, <2>3 DEF Joins
  <2> QED
    BY <2>2, <2>3
<1>3. T \in SUBSET C /\ ClosedUnder(f, T)
  BY <1>1, <1>2 DEF ClosedUnder
<1>4. T = C
  BY <1>3 DEF IsRing
<1>5. n \in S
  BY <1>4 DEF ClosedUnder, Joins
<1> QED
  BY <1>4, <1>5

LEMMA Joined ==
  ASSUME NEW f, NEW g, NEW f2, NEW g2, NEW C, NEW a \in C, NEW n, n \notin C,
         IsRing(f, g, C), Joins(f, g, f2, g2, C, a, n)
  PROVE  IsRing(f2, g2, C \cup {n})
<1>1. \A c \in C \cup {n} : /\ f2[c] \in C \cup {n} /\ g2[c] \in C \cup {n}
                            /\ f2[g2[c]] = c /\ g2[f2[c]] = c
  BY DEF IsRing, Joins
<1>2. \A S \in SUBSET (C \cup {n}) : ClosedUnder(f2, S) => S = C \cup {n}
  BY JoinedClosed
<1>3. /\ IsRing(g, f, C) /\ Joins(g, f, g2, f2, C, f[a], n) /\ f[a] \in C
  BY RingTurned, JoinsTurned DEF IsRing
<1>4. \A S \in SUBSET (C \cup {n}) : ClosedUnder(g2, S) => S = C \cup {n}
  BY <1>3, JoinedClosed
<1> QED
  BY <1>1, <1>2, <1>4 DEF IsRing

LEMMA PartedClosed ==
  ASSUME NEW f, NEW g, NEW f2, NEW g2, NEW C, NEW n \in C, n # HEAD,
         IsRing(f, g, C), Parts(f, g, f2, g2, C, n),
         NEW S \in SUBSET (C \ {n}), ClosedUnder(f2, S)
  PROVE  S = C \ {n}
<1> DEFINE T == S \cup {n}
<1>1. g[n] \in S
  <2> SUFFICES ASSUME g[n] \notin S PROVE FALSE
    OBVIOUS
  <2>1. \A c \in S : f[c] \in S
    BY DEF ClosedUnder, Parts
  <2>2. S \in SUBSET C /\ ClosedUnder(f, S)
    BY <2>1 DEF ClosedUnder
  <2> QED
    BY <2>2 DEF IsRing
<1>2. f[n] \in S
  BY <1>1 DEF ClosedUnder, Parts
<1>3. \A c \in T : f[c] \in T
  <2> TAKE c \in T
  <2>1. CASE c = n
    BY <1>2, <2>1
  <2>2. CASE c = g[n]
    BY <2>2 DEF IsRing
  <2>3. CASE c # n /\ c # g[n]
    BY <2>3 DEF ClosedUnder, Parts
  <2> QED
    BY <2>1, <2>2, <2>3
<1>4. T \in SUBSET C /\ ClosedUnder(f, T)
  BY <1>3 DEF ClosedUnder
<1>5. T = C
  BY <1>4 DEF IsRing
<1> QED
  BY <1>5

LEMMA Parted ==
  ASSUME NEW f, NEW g, NEW f2, NEW g2, NEW C, NEW n \in C, n # HEAD,
         IsRing(f, g, C), Parts(f, g, f2, g2, C, n)
  PROVE  IsRing(f2, g2, C \ {n})
<1>0. f[n] # n /\ g[n] # n
  BY NoLoop
<1>1. \A c \in C \ {n} : /\ f2[c] \in C \ {n} /\ g2[c] \in C \ {n}
                         /\ f2[g2[c]] = c /\ g2[f2[c]] = c
  BY <1>0 DEF IsRing, Parts
<1>2. \A S \in SUBSET (C \ {n}) : ClosedUnder(f2, S) => S = C \ {n}
  BY PartedClosed
<1>3. IsRing(g, f, C) /\ Parts(g, f, g2, f2, C, n)
  BY RingTurned DEF Parts
<1>4. \A S \in SUBSET (C \ {n}) : ClosedUnder(g2, S) => S = C \ {n}
  BY <1>3, PartedClosed
<1>5. HEAD \in C \ {n}
  BY DEF IsRing
<1> QED
  BY <1>1, <1>2, <1>4, <1>5 DEF IsRing
-----------------------------------------------------------------------------
(* The invariant of the list                                               *)

Cells == linked \cup {HEAD}

\* The cells that have been in the list; their links lead to such cells, also when
\* they are out of it.
Written == {c \in Cell : next[c] # NULL /\ prev[c] # NULL}

LinksWritten ==
  /\ Cells \subseteq Written /\ walk.node \in Written
  /\ \A c \in Written : next[c] \in Written /\ prev[c] \in Written

ListInv == RingIntact /\ LinksWritten

WalkType == [on : BOOLEAN, forward : BOOLEAN, node : Cell, calling : BOOLEAN,
             owed : SUBSET Node, seen : SUBSET Node]

LEMMA RingParts ==
  RingIntact <=>
    /\ prev \in [Cell -> Cell \cup {NULL}] /\ next \in [Cell -> Cell \cup {NULL}]
    /\ linked \in SUBSET Node /\ walk \in WalkType
    /\ list_size \in 0 .. Cardinality(Node) /\ list_size = Cardinality(linked)
    /\ IsRing(next, prev, Cells)
BY DEF RingIntact, ListTypeOK, IsRing, Cells, Mutual, WalkType

LEMMA RingPartsNext ==
  RingIntact' <=>
    /\ prev' \in [Cell -> Cell \cup {NULL}] /\ next' \in [Cell -> Cell \cup {NULL}]
    /\ linked' \in SUBSET Node /\ walk' \in WalkType
    /\ list_size' \in 0 .. Cardinality(Node) /\ list_size' = Cardinality(linked')
    /\ IsRing(next', prev', Cells')
<1>1. (RingIntact <=>
         /\ prev \in [Cell -> Cell \cup {NULL}] /\ next \in [Cell -> Cell \cup {NULL}]
         /\ linked \in SUBSET Node /\ walk \in WalkType
         /\ list_size \in 0 .. Cardinality(Node) /\ list_size = Cardinality(linked)
         /\ IsRing(next, prev, Cells))'
  BY RingParts, PTL
<1> QED
  BY <1>1 DEF IsRing, ClosedUnder, Cells

LEMMA SizeIs ==
  ASSUME NEW S \in SUBSET Node
  PROVE  /\ IsFiniteSet(S) /\ Cardinality(S) \in 0 .. Cardinality(Node)
         /\ \A n \in Node \ S : Cardinality(S \cup {n}) = Cardinality(S) + 1
         /\ \A n \in S : Cardinality(S \ {n}) = Cardinality(S) - 1
<1>1. IsFiniteSet(S) /\ Cardinality(S) <= Cardinality(Node)
  BY FS_Subset
<1>2. Cardinality(S) \in Nat /\ Cardinality(Node) \in Nat
  BY <1>1, FS_CardinalityType
<1> QED
  BY <1>1, <1>2, FS_AddElement, FS_RemoveElement

\* An insertion of n behind a, and a removal of n.
Enter(n, a) ==
  /\ n \in Node \ linked /\ a \in Cells /\ ListMay("insert")
  /\ next' = [next EXCEPT ![n] = next[a], ![a] = n]
  /\ prev' = [prev EXCEPT ![n] = a, ![next[a]] = n]
  /\ list_size' = list_size + 1
  /\ Enters(n)

Leave(n) ==
  /\ n \in linked /\ MayRemove(n)
  /\ next' = [next EXCEPT ![prev[n]] = next[n]]
  /\ prev' = [prev EXCEPT ![next[n]] = prev[n]]
  /\ list_size' = list_size - 1
  /\ Leaves({n})

\* Every insertion is behind some cell.
LEMMA InsertionsAre ==
  ASSUME ListInv, NEW n \in Node, NEW pos \in Node,
         PushFront(n) \/ PushBack(n) \/ InsertBefore(pos, n) \/ InsertAfter(pos, n)
  PROVE  \E a \in Cells : Enter(n, a)
<1>1. IsRing(next, prev, Cells) /\ HEAD \in Cells /\ linked \subseteq Cells
  BY RingParts DEF ListInv, IsRing, Cells
<1>2. CASE PushFront(n)
  BY <1>1, <1>2 DEF PushFront, Enter
<1>3. CASE PushBack(n)
  <2>1. prev[HEAD] \in Cells /\ next[prev[HEAD]] = HEAD
    BY <1>1 DEF IsRing
  <2>2. Enter(n, prev[HEAD])
    BY <1>3, <2>1 DEF PushBack, Enter
  <2> QED
    BY <2>1, <2>2
<1>4. CASE InsertBefore(pos, n)
  <2>1. prev[pos] \in Cells /\ next[prev[pos]] = pos
    BY <1>1, <1>4 DEF IsRing, InsertBefore
  <2>2. Enter(n, prev[pos])
    BY <1>4, <2>1 DEF InsertBefore, Enter
  <2> QED
    BY <2>1, <2>2
<1>5. CASE InsertAfter(pos, n)
  BY <1>1, <1>5 DEF InsertAfter, Enter
<1> QED
  BY <1>2, <1>3, <1>4, <1>5

\* The first and the last node of a list that is not empty are nodes of it.
LEMMA EndsLinked ==
  ASSUME ListInv, ~ListIsEmpty
  PROVE  next[HEAD] \in linked /\ prev[HEAD] \in linked
<1>1. IsRing(next, prev, Cells) /\ linked \in SUBSET Node /\ list_size = Cardinality(linked)
  BY RingParts DEF ListInv
<1>2. linked # {}
  BY <1>1, FS_EmptySet DEF ListIsEmpty
<1>3. next[HEAD] \in Cells /\ prev[HEAD] \in Cells
  BY <1>1 DEF IsRing
<1>4. ~ClosedUnder(next, {HEAD}) /\ ~ClosedUnder(prev, {HEAD})
  <2>1. {HEAD} \in SUBSET Cells /\ {HEAD} # Cells
    BY <1>1, <1>2 DEF Cells
  <2> QED
    BY <1>1, <2>1 DEF IsRing
<1> QED
  BY <1>3, <1>4 DEF ClosedUnder, Cells

LEMMA RemovalsAre ==
  ASSUME ListInv, PopFront \/ PopBack \/ \E n \in Node : Remove(n)
  PROVE  \E n \in Node : Leave(n)
<1>1. /\ IsRing(next, prev, Cells) /\ HEAD \in Cells /\ linked \in SUBSET Node
  BY RingParts DEF ListInv, IsRing
<1>2. CASE PopFront
  <2>1. next[HEAD] \in linked /\ prev[next[HEAD]] = HEAD
    BY <1>1, <1>2, EndsLinked DEF PopFront, IsRing
  <2>2. Leave(next[HEAD])
    BY <1>2, <2>1 DEF PopFront, Leave
  <2> QED
    BY <1>1, <2>1, <2>2
<1>3. CASE PopBack
  <2>1. prev[HEAD] \in linked /\ next[prev[HEAD]] = HEAD
    BY <1>1, <1>3, EndsLinked DEF PopBack, IsRing
  <2>2. Leave(prev[HEAD])
    BY <1>3, <2>1 DEF PopBack, Leave
  <2> QED
    BY <1>1, <2>1, <2>2
<1>4. CASE \E n \in Node : Remove(n)
  BY <1>4 DEF Remove, Leave
<1> QED
  BY <1>2, <1>3, <1>4
LEMMA EnterJoins ==
  ASSUME ListInv, NEW n, NEW a, Enter(n, a)
  PROVE  /\ Joins(next, prev, next', prev', Cells, a, n)
         /\ n \in Node \ linked /\ n \notin Cells /\ a \in Cells /\ next[a] \in Cells
         /\ Cells' = Cells \cup {n} /\ IsRing(next', prev', Cells')
<1>1. /\ IsRing(next, prev, Cells) /\ linked \in SUBSET Node
      /\ prev \in [Cell -> Cell \cup {NULL}] /\ next \in [Cell -> Cell \cup {NULL}]
  BY RingParts DEF ListInv
<1>2. /\ n \in Node \ linked /\ n \notin Cells /\ a \in Cells /\ next[a] \in Cells
      /\ n # a /\ n # next[a] /\ Cells \subseteq Cell /\ n \in Cell
  BY <1>1 DEF Enter, Cells, Cell, IsRing
<1>3. Joins(next, prev, next', prev', Cells, a, n)
  BY <1>1, <1>2 DEF Enter, Joins
<1>4. Cells' = Cells \cup {n}
  BY DEF Enter, Enters, Cells
<1> QED
  BY <1>1, <1>2, <1>3, <1>4, Joined

LEMMA LeaveParts ==
  ASSUME ListInv, NEW n, Leave(n)
  PROVE  /\ Parts(next, prev, next', prev', Cells, n)
         /\ n \in linked /\ n \in Cells /\ n # HEAD
         /\ Cells' = Cells \ {n} /\ IsRing(next', prev', Cells')
<1>1. /\ IsRing(next, prev, Cells) /\ linked \in SUBSET Node
      /\ prev \in [Cell -> Cell \cup {NULL}] /\ next \in [Cell -> Cell \cup {NULL}]
  BY RingParts DEF ListInv
<1>2. n \in linked /\ n \in Cells /\ n # HEAD /\ Cells \subseteq Cell
  BY <1>1 DEF Leave, Cells, Cell
<1>3. Parts(next, prev, next', prev', Cells, n)
  BY <1>1, <1>2 DEF Leave, Parts, IsRing
<1>4. Cells' = Cells \ {n}
  BY <1>1, <1>2 DEF Leave, Leaves, Cells
<1> QED
  BY <1>1, <1>2, <1>3, <1>4, Parted

LEMMA ForgetsWell ==
  ASSUME walk \in WalkType, NEW ns,
         walk' = [walk EXCEPT !.owed = @ \ ns, !.seen = @ \ ns]
  PROVE  /\ walk' \in WalkType
         /\ walk'.on = walk.on /\ walk'.forward = walk.forward
         /\ walk'.node = walk.node /\ walk'.calling = walk.calling
         /\ walk'.owed = walk.owed \ ns /\ walk'.seen = walk.seen \ ns
BY DEF WalkType

LEMMA EnterStep ==
  ASSUME ListInv, NEW n, NEW a, Enter(n, a)
  PROVE  ListInv'
<1>1. /\ n \in Node \ linked /\ n \notin Cells /\ a \in Cells /\ next[a] \in Cells
      /\ Cells' = Cells \cup {n} /\ IsRing(next', prev', Cells')
  BY EnterJoins
<1>2. /\ prev \in [Cell -> Cell \cup {NULL}] /\ next \in [Cell -> Cell \cup {NULL}]
      /\ linked \in SUBSET Node /\ walk \in WalkType
      /\ list_size = Cardinality(linked)
      /\ Cells \subseteq Written /\ walk.node \in Written /\ Written \subseteq Cell
      /\ \A c \in Written : next[c] \in Written /\ prev[c] \in Written
  BY RingParts DEF ListInv, LinksWritten, Written
<1>3. /\ next' = [next EXCEPT ![n] = next[a], ![a] = n]
      /\ prev' = [prev EXCEPT ![n] = a, ![next[a]] = n]
      /\ list_size' = list_size + 1 /\ linked' = linked \cup {n} /\ walk' = walk
  BY DEF Enter, Enters
<1>4. n \in Cell /\ a \in Cell /\ next[a] \in Cell /\ n # a /\ n # next[a]
  BY <1>1, <1>2 DEF Cells, Cell
<1>5. /\ next' \in [Cell -> Cell \cup {NULL}] /\ prev' \in [Cell -> Cell \cup {NULL}]
      /\ next'[n] = next[a] /\ next'[a] = n
      /\ \A c \in Cell : c # n /\ c # a => next'[c] = next[c]
      /\ prev'[n] = a /\ prev'[next[a]] = n
      /\ \A c \in Cell : c # n /\ c # next[a] => prev'[c] = prev[c]
  BY <1>2, <1>3, <1>4
<1>6. Written' = Written \cup {n}
  <2>1. \A c \in Cell : c \in Written' <=> c \in Written \/ c = n
    <3> TAKE c \in Cell
    <3>1. a \in Written /\ next[a] \in Written
      BY <1>1, <1>2
    <3>2. CASE c = n
      BY <1>4, <1>5, <3>2 DEF Written, Cell
    <3>3. CASE c # n
      BY <1>4, <1>5, <3>1, <3>3 DEF Written, Cell
    <3> QED
      BY <3>2, <3>3
  <2> QED
    BY <1>4, <2>1 DEF Written
<1>7. LinksWritten'
  <2>1. Cells' \subseteq Written' /\ walk'.node \in Written'
    BY <1>1, <1>2, <1>3, <1>6
  <2>2. \A c \in Written' : next'[c] \in Written' /\ prev'[c] \in Written'
    <3> TAKE c \in Written'
    <3>1. a \in Written /\ next[a] \in Written /\ c \in Cell
      BY <1>1, <1>2, <1>4, <1>6
    <3> QED
      BY <1>2, <1>5, <1>6, <3>1
  <2> QED
    BY <2>1, <2>2 DEF LinksWritten
<1>8. linked' \in SUBSET Node /\ list_size' = Cardinality(linked')
      /\ list_size' \in 0 .. Cardinality(Node)
  <2>1. linked' \in SUBSET Node /\ list_size' = Cardinality(linked')
    BY <1>1, <1>2, <1>3, SizeIs
  <2> QED
    BY <2>1, SizeIs
<1> QED
  BY <1>1, <1>2, <1>3, <1>5, <1>7, <1>8, RingPartsNext DEF ListInv

LEMMA LeaveStep ==
  ASSUME ListInv, NEW n, Leave(n)
  PROVE  ListInv'
<1>1. /\ n \in linked /\ n \in Cells /\ n # HEAD
      /\ Cells' = Cells \ {n} /\ IsRing(next', prev', Cells')
  BY LeaveParts
<1>2. /\ prev \in [Cell -> Cell \cup {NULL}] /\ next \in [Cell -> Cell \cup {NULL}]
      /\ linked \in SUBSET Node /\ walk \in WalkType
      /\ list_size = Cardinality(linked)
      /\ Cells \subseteq Written /\ walk.node \in Written /\ Written \subseteq Cell
      /\ \A c \in Written : next[c] \in Written /\ prev[c] \in Written
  BY RingParts DEF ListInv, LinksWritten, Written
<1>3. /\ next' = [next EXCEPT ![prev[n]] = next[n]]
      /\ prev' = [prev EXCEPT ![next[n]] = prev[n]]
      /\ list_size' = list_size - 1 /\ linked' = linked \ {n}
      /\ walk' = [walk EXCEPT !.owed = @ \ {n}, !.seen = @ \ {n}]
  BY DEF Leave, Leaves
<1>4. next[n] \in Written /\ prev[n] \in Written /\ next[n] \in Cell /\ prev[n] \in Cell
  BY <1>1, <1>2
<1>5. /\ next' \in [Cell -> Cell \cup {NULL}] /\ prev' \in [Cell -> Cell \cup {NULL}]
      /\ \A c \in Cell : next'[c] = IF c = prev[n] THEN next[n] ELSE next[c]
      /\ \A c \in Cell : prev'[c] = IF c = next[n] THEN prev[n] ELSE prev[c]
  BY <1>2, <1>3, <1>4
<1>6. Written' = Written
  <2>1. next[n] # NULL /\ prev[n] # NULL
    BY <1>4 DEF Written, Cell
  <2>2. \A c \in Cell : c \in Written' <=> c \in Written
    BY <1>4, <1>5, <2>1 DEF Written
  <2> QED
    BY <2>2 DEF Written
<1>7. walk' \in WalkType /\ walk'.node = walk.node
  BY <1>2, <1>3, ForgetsWell
<1>8. LinksWritten'
  <2>1. Cells' \subseteq Written' /\ walk'.node \in Written'
    BY <1>1, <1>2, <1>6, <1>7
  <2>2. \A c \in Written' : next'[c] \in Written' /\ prev'[c] \in Written'
    <3> TAKE c \in Written'
    <3>1. c \in Cell /\ c \in Written
      BY <1>2, <1>6
    <3> QED
      BY <1>2, <1>4, <1>5, <1>6, <3>1
  <2> QED
    BY <2>1, <2>2 DEF LinksWritten
<1>9. linked' \in SUBSET Node /\ list_size' = Cardinality(linked')
      /\ list_size' \in 0 .. Cardinality(Node)
  <2>1. linked' \in SUBSET Node /\ list_size' = Cardinality(linked')
    BY <1>1, <1>2, <1>3, SizeIs
  <2> QED
    BY <2>1, SizeIs
<1> QED
  BY <1>1, <1>5, <1>7, <1>8, <1>9, RingPartsNext DEF ListInv

LEMMA ClearStep ==
  ASSUME ListInv, Clear
  PROVE  ListInv'
<1>2. /\ prev \in [Cell -> Cell \cup {NULL}] /\ next \in [Cell -> Cell \cup {NULL}]
      /\ linked \in SUBSET Node /\ walk \in WalkType
      /\ Cells \subseteq Written /\ walk.node \in Written /\ Written \subseteq Cell
      /\ \A c \in Written : next[c] \in Written /\ prev[c] \in Written
  BY RingParts DEF ListInv, LinksWritten, Written
<1>3. /\ next' = [next EXCEPT ![HEAD] = HEAD] /\ prev' = [prev EXCEPT ![HEAD] = HEAD]
      /\ list_size' = 0 /\ linked' = {}
      /\ walk' = [walk EXCEPT !.owed = @ \ linked, !.seen = @ \ linked]
  BY DEF Clear, Leaves
<1>4. HEAD \in Cell /\ HEAD # NULL /\ HEAD \in Written /\ Cells' = {HEAD}
  BY <1>2, <1>3 DEF Cell, Cells
<1>5. /\ next' \in [Cell -> Cell \cup {NULL}] /\ prev' \in [Cell -> Cell \cup {NULL}]
      /\ \A c \in Cell : next'[c] = IF c = HEAD THEN HEAD ELSE next[c]
      /\ \A c \in Cell : prev'[c] = IF c = HEAD THEN HEAD ELSE prev[c]
  BY <1>2, <1>3, <1>4
<1>6. Written' = Written
  BY <1>4, <1>5 DEF Written
<1>7. walk' \in WalkType /\ walk'.node = walk.node
  BY <1>2, <1>3, ForgetsWell
<1>8. LinksWritten'
  <2>1. \A c \in Written' : next'[c] \in Written' /\ prev'[c] \in Written'
    BY <1>2, <1>4, <1>5, <1>6
  <2> QED
    BY <1>2, <1>4, <1>6, <1>7, <2>1 DEF LinksWritten
<1>9. IsRing(next', prev', Cells')
  BY <1>4, <1>5 DEF IsRing, ClosedUnder
<1>10. list_size' = Cardinality(linked') /\ list_size' \in 0 .. Cardinality(Node)
  BY <1>3, FS_EmptySet, SizeIs
<1> QED
  BY <1>3, <1>5, <1>7, <1>8, <1>9, <1>10, RingPartsNext DEF ListInv

\* The loop of ds_list_reverse comes to every cell of the ring.
LEMMA RingIsCells ==
  ASSUME ListInv
  PROVE  Ring = Cells
<1>1. /\ IsRing(next, prev, Cells) /\ Cells \in SUBSET Cell
  BY RingParts DEF ListInv, Cells, Cell
<1>2. Ring \in SUBSET Cells
  BY <1>1 DEF Ring, IsRing, ClosedUnder
<1>3. ClosedUnder(next, Ring)
  <2>1. HEAD \in Ring
    BY DEF Ring, ClosedUnder, Cell
  <2>2. \A c \in Ring : next[c] \in Ring
    <3> TAKE c \in Ring
    <3>1. next[c] \in Cell
      BY <1>1, <1>2 DEF IsRing
    <3> QED
      BY <3>1 DEF Ring, ClosedUnder
  <2> QED
    BY <2>1, <2>2 DEF ClosedUnder
<1> QED
  BY <1>1, <1>2, <1>3 DEF IsRing

LEMMA ReverseStep ==
  ASSUME ListInv, Reverse
  PROVE  ListInv'
<1>1. Ring = Cells
  BY RingIsCells
<1>2. /\ prev \in [Cell -> Cell \cup {NULL}] /\ next \in [Cell -> Cell \cup {NULL}]
      /\ linked \in SUBSET Node /\ walk \in WalkType
      /\ list_size = Cardinality(linked) /\ list_size \in 0 .. Cardinality(Node)
      /\ IsRing(next, prev, Cells) /\ Cells \subseteq Cell
      /\ Cells \subseteq Written /\ walk.node \in Written /\ Written \subseteq Cell
      /\ \A c \in Written : next[c] \in Written /\ prev[c] \in Written
  BY RingParts DEF ListInv, LinksWritten, Written, Cells, Cell
<1>3. /\ next' = [c \in Cell |-> IF c \in Cells THEN prev[c] ELSE next[c]]
      /\ prev' = [c \in Cell |-> IF c \in Cells THEN next[c] ELSE prev[c]]
      /\ list_size' = list_size /\ linked' = linked /\ walk' = walk /\ Cells' = Cells
  BY <1>1 DEF Reverse, Cells
<1>4. /\ next' \in [Cell -> Cell \cup {NULL}] /\ prev' \in [Cell -> Cell \cup {NULL}]
      /\ \A c \in Cell : next'[c] = IF c \in Cells THEN prev[c] ELSE next[c]
      /\ \A c \in Cell : prev'[c] = IF c \in Cells THEN next[c] ELSE prev[c]
  BY <1>2, <1>3
<1>5. Written' = Written
  <2>1. \A c \in Cell : c \in Written' <=> c \in Written
    BY <1>4 DEF Written
  <2> QED
    BY <2>1 DEF Written
<1>6. LinksWritten'
  BY <1>2, <1>3, <1>4, <1>5 DEF LinksWritten
<1>7. IsRing(next', prev', Cells)
  <2>1. IsRing(prev, next, Cells)
    BY <1>2, RingTurned
  <2>2. \A c \in Cells : next'[c] = prev[c] /\ prev'[c] = next[c]
    BY <1>2, <1>4
  <2> QED
    BY <2>1, <2>2 DEF IsRing, ClosedUnder
<1> QED
  BY <1>2, <1>3, <1>4, <1>6, <1>7, RingPartsNext DEF ListInv

LEMMA WalkTypeStep ==
  ASSUME ListInv, (\E forward \in BOOLEAN : WalkBegin(forward))
                    \/ WalkCall \/ WalkNext \/ WalkBreak \/ WalkEnd
  PROVE  ListInv'
<1>1. /\ linked \in SUBSET Node /\ walk \in WalkType
      /\ Cells \subseteq Written /\ walk.node \in Written /\ Written \subseteq Cell
      /\ \A c \in Written : next[c] \in Written /\ prev[c] \in Written
      /\ HEAD \in Written
  BY RingParts DEF ListInv, LinksWritten, Written, Cells
<1>2. UNCHANGED <<prev, next, list_size, linked>>
  BY DEF WalkBegin, WalkCall, WalkNext, WalkBreak, WalkEnd
<1>3. walk' \in WalkType /\ walk'.node \in Written
  <2>1. ASSUME NEW forward \in BOOLEAN, WalkBegin(forward)
        PROVE  walk' \in WalkType /\ walk'.node \in Written
    BY <1>1, <2>1 DEF WalkBegin, WalkType, Follow
  <2>2. CASE WalkCall
    <3>1. PICK x \in Node : x = walk.node
      BY <1>1, <2>2 DEF WalkCall, WalkType, Cell
    <3>2. walk' = [walk EXCEPT !.calling = TRUE, !.owed = @ \ {x}, !.seen = @ \cup {x}]
      BY <2>2, <3>1 DEF WalkCall
    <3> QED
      BY <1>1, <3>1, <3>2 DEF WalkType
  <2>3. CASE WalkNext
    <3>1. PICK x \in Written : x = Follow(walk.forward, walk.node)
      BY <1>1 DEF Follow
    <3>2. walk' = [walk EXCEPT !.calling = FALSE, !.node = x]
      BY <2>3, <3>1 DEF WalkNext
    <3> QED
      BY <1>1, <3>2 DEF WalkType
  <2>4. CASE WalkBreak \/ WalkEnd
    <3>1. walk' = [on |-> FALSE, forward |-> TRUE, node |-> HEAD, calling |-> FALSE,
                   owed |-> {}, seen |-> {}]
      BY <2>4 DEF WalkBreak, WalkEnd, NoWalk
    <3>2. HEAD \in Cell /\ {} \in SUBSET Node
      BY DEF Cell
    <3> QED
      BY <1>1, <3>1, <3>2 DEF WalkType
  <2> QED
    BY <2>1, <2>2, <2>3, <2>4
<1>4. Cells' = Cells /\ Written' = Written
  BY <1>2 DEF Cells, Written
<1>5. LinksWritten'
  BY <1>1, <1>2, <1>3, <1>4 DEF LinksWritten
<1>6. RingIntact'
  BY <1>2, <1>3, <1>4, RingParts, RingPartsNext DEF ListInv
<1> QED
  BY <1>5, <1>6 DEF ListInv
LEMMA ListStart ==
  ASSUME ListInit
  PROVE  ListInv
<1>1. /\ linked = {} /\ Cells = {HEAD} /\ list_size = 0 /\ HEAD \in Cell /\ HEAD # NULL
      /\ prev \in [Cell -> Cell \cup {NULL}] /\ next \in [Cell -> Cell \cup {NULL}]
      /\ \A c \in Cell : next[c] = IF c = HEAD THEN HEAD ELSE NULL
      /\ \A c \in Cell : prev[c] = IF c = HEAD THEN HEAD ELSE NULL
  BY DEF ListInit, Cells, Cell
<1>2. walk \in WalkType /\ walk.node = HEAD
  <2>1. {} \in SUBSET Node
    OBVIOUS
  <2> QED
    BY <1>1, <2>1 DEF ListInit, NoWalk, WalkType
<1>3. IsRing(next, prev, Cells)
  BY <1>1 DEF IsRing, ClosedUnder
<1>4. list_size = Cardinality(linked) /\ list_size \in 0 .. Cardinality(Node)
  BY <1>1, FS_EmptySet, SizeIs
<1>5. Written = {HEAD}
  BY <1>1 DEF Written
<1>6. LinksWritten
  BY <1>1, <1>2, <1>5 DEF LinksWritten
<1> QED
  BY <1>1, <1>2, <1>3, <1>4, <1>6, RingParts DEF ListInv

LEMMA ListStep ==
  ASSUME ListInv, [ListNext]_listVars
  PROVE  ListInv'
<1>1. CASE \E n \in Node, pos \in Node :
             PushFront(n) \/ PushBack(n) \/ InsertBefore(pos, n) \/ InsertAfter(pos, n)
  BY <1>1, InsertionsAre, EnterStep
<1>2. CASE PopFront \/ PopBack \/ \E n \in Node : Remove(n)
  BY <1>2, RemovalsAre, LeaveStep
<1>3. CASE UNCHANGED listVars
  <2>1. Cells' = Cells /\ Written' = Written
    BY <1>3 DEF listVars, Cells, Written
  <2>2. LinksWritten'
    BY <1>3, <2>1 DEF ListInv, LinksWritten, listVars
  <2>3. RingIntact'
    BY <1>3, <2>1, RingParts, RingPartsNext DEF ListInv, listVars
  <2> QED
    BY <2>2, <2>3 DEF ListInv
<1> QED
  BY <1>1, <1>2, <1>3, ClearStep, ReverseStep, WalkTypeStep DEF ListNext

\* The strengthened invariant of the list: the ring, and the links of the cells that
\* were ever in it.
THEOREM ListHolds == ListSpec => []ListInv
<1>1. ListInit => ListInv
  BY ListStart
<1>2. ListInv /\ [ListNext]_listVars => ListInv'
  BY ListStep
<1> QED
  BY <1>1, <1>2, PTL DEF ListSpec

\* After every call, whatever the calls before it and whatever callbacks did, prev
\* and next are inverse to each other, go through the nodes put in and not taken out
\* and no other, in both directions, and size counts those nodes.
THEOREM RingAlwaysIntact == ListSpec => []RingIntact
<1>1. ListInv => RingIntact
  BY DEF ListInv
<1> QED
  BY <1>1, ListHolds, PTL
-----------------------------------------------------------------------------
(* The part of a ring that a walk has passed                               *)

\* P is what lies between the head and the cell goal, which comes next in the
\* direction of f.
Passed(f, g, C, P, goal) ==
  /\ HEAD \in P /\ P \subseteq C
  /\ goal \in C /\ goal \notin P \ {HEAD}
  /\ \A c \in P : f[c] \in P \/ f[c] = goal
  /\ \A c \in P \ {HEAD} : g[c] \in P

LEMMA PassedNone ==
  ASSUME NEW f, NEW g, NEW C, IsRing(f, g, C)
  PROVE  Passed(f, g, C, {HEAD}, f[HEAD])
BY DEF IsRing, Passed

\* Back at the head, a walk has passed every cell.
LEMMA PassedAll ==
  ASSUME NEW f, NEW g, NEW C, IsRing(f, g, C), NEW P, Passed(f, g, C, P, HEAD)
  PROVE  P = C
<1>1. P \in SUBSET C /\ ClosedUnder(f, P)
  BY DEF Passed, ClosedUnder
<1> QED
  BY <1>1 DEF IsRing

LEMMA PassedOn ==
  ASSUME NEW f, NEW g, NEW C, IsRing(f, g, C), NEW P, NEW goal, goal # HEAD,
         Passed(f, g, C, P, goal)
  PROVE  goal \notin P /\ Passed(f, g, C, P \cup {goal}, f[goal])
<1>1. goal \notin P /\ goal \in C /\ f[goal] \in C /\ f[goal] # goal
  BY NoLoop DEF Passed, IsRing
<1>2. g[goal] \in P
  <2>1. PICK c \in P : f[c] = goal
    <3>1. ~(P \in SUBSET C /\ ClosedUnder(f, P))
      BY <1>1 DEF IsRing
    <3> QED
      BY <3>1 DEF Passed, ClosedUnder
  <2> QED
    BY <2>1 DEF Passed, IsRing
<1>3. f[goal] \notin (P \cup {goal}) \ {HEAD}
  <2>1. ASSUME f[goal] \in P \ {HEAD} PROVE FALSE
    <3>1. g[f[goal]] \in P /\ g[f[goal]] = goal
      BY <1>1, <2>1 DEF Passed, IsRing
    <3> QED
      BY <1>1, <3>1
  <2> QED
    BY <1>1, <2>1
<1> QED
  BY <1>1, <1>2, <1>3 DEF Passed

\* A node is put in while the walk is at c, which it has passed.
LEMMA PassedJoin ==
  ASSUME NEW f, NEW g, NEW f2, NEW g2, NEW C, NEW a \in C, NEW n, n \notin C,
         IsRing(f, g, C), Joins(f, g, f2, g2, C, a, n),
         NEW P, NEW c \in P, Passed(f, g, C, P, f[c])
  PROVE  \/ Passed(f2, g2, C \cup {n}, P, f2[c])
         \/ Passed(f2, g2, C \cup {n}, P \cup {n}, f2[c])
<1>1. /\ P \subseteq C /\ c \in C /\ HEAD \in P /\ f[c] \in C
      /\ \A x, y \in C : f[x] = f[y] => x = y
      /\ \A x, y \in C : g[x] = y => x = f[y]
  BY DEF Passed, IsRing
<1>2. CASE a \in P /\ a # c
  <2>1. f[a] \in P
    BY <1>1, <1>2 DEF Passed
  <2>2. f2[c] = f[c] /\ f2[n] = f[a] /\ f2[a] = n /\ g2[n] = a /\ g2[f[a]] = n
    BY <1>1, <1>2 DEF Joins
  <2>3. \A x \in P \cup {n} : f2[x] \in P \cup {n} \/ f2[x] = f2[c]
    BY <1>1, <2>1, <2>2 DEF Joins, Passed
  <2>4. \A x \in (P \cup {n}) \ {HEAD} : g2[x] \in P \cup {n}
    BY <1>1, <1>2, <2>2 DEF Joins, Passed
  <2>5. Passed(f2, g2, C \cup {n}, P \cup {n}, f2[c])
    BY <1>1, <2>2, <2>3, <2>4 DEF Passed
  <2> QED
    BY <2>5
<1>3. CASE a = c
  <2>1. f2[c] = n /\ \A x \in P : x # c => f2[x] \in P
    BY <1>1, <1>3 DEF Joins, Passed
  <2>2. \A x \in P \ {HEAD} : g2[x] \in P
    <3> TAKE x \in P \ {HEAD}
    <3>1. x # f[a] /\ x \in C
      BY <1>1, <1>3 DEF Passed
    <3> QED
      BY <3>1 DEF Joins, Passed
  <2>3. Passed(f2, g2, C \cup {n}, P, f2[c])
    BY <1>1, <2>1, <2>2 DEF Passed
  <2> QED
    BY <2>3
<1>4. CASE a \notin P
  <2>1. \A x \in P : f2[x] = f[x]
    BY <1>1, <1>4 DEF Joins
  <2>2. \A x \in P \ {HEAD} : g2[x] \in P
    <3> TAKE x \in P \ {HEAD}
    <3>1. x \in C /\ g[x] \in P
      BY <1>1 DEF Passed
    <3>2. x # f[a]
      BY <1>4, <3>1 DEF IsRing
    <3> QED
      BY <3>1, <3>2 DEF Joins
  <2>3. Passed(f2, g2, C \cup {n}, P, f2[c])
    BY <1>1, <2>1, <2>2 DEF Passed
  <2> QED
    BY <2>3
<1> QED
  BY <1>2, <1>3, <1>4

\* A node is taken out while the walk is at c: another one, or c itself, whose links
\* still lead on.
LEMMA PassedPart ==
  ASSUME NEW f, NEW g, NEW f2, NEW g2, NEW C, NEW n \in C, n # HEAD,
         IsRing(f, g, C), Parts(f, g, f2, g2, C, n),
         NEW P, NEW c \in P, Passed(f, g, C, P, f[c])
  PROVE  Passed(f2, g2, C \ {n}, P \ {n}, f2[c])
<1>1. /\ P \subseteq C /\ c \in C /\ HEAD \in P /\ f[c] \in C
      /\ \A x, y \in C : f[x] = f[y] => x = y
      /\ f[n] # n /\ g[n] # n /\ g[n] \in C /\ f[n] \in C
      /\ f[g[n]] = n /\ g[f[n]] = n
  BY NoLoop DEF Passed, IsRing
<1>2. \A x \in C : f2[x] = IF x = g[n] THEN f[n] ELSE f[x]
  BY DEF Parts
<1>3. \A x \in C : g2[x] = IF x = f[n] THEN g[n] ELSE g[x]
  BY DEF Parts
<1>4. f2[c] \in C \ {n}
  BY <1>1, <1>2 DEF IsRing
<1>5. f2[c] \notin (P \ {n}) \ {HEAD}
  <2>1. CASE c = g[n]
    <3>1. f[c] = n /\ f2[c] = f[n] /\ n \notin P
      BY <1>1, <1>2, <2>1 DEF Passed
    <3>2. f[n] \in P \ {HEAD} => g[f[n]] \in P
      BY DEF Passed
    <3> QED
      BY <1>1, <3>1, <3>2
  <2>2. CASE c # g[n]
    BY <1>1, <1>2, <2>2 DEF Passed
  <2> QED
    BY <2>1, <2>2
<1>6. \A x \in P \ {n} : f2[x] \in P \ {n} \/ f2[x] = f2[c]
  <2> TAKE x \in P \ {n}
  <2>1. x \in C /\ (f[x] \in P \/ f[x] = f[c])
    BY <1>1 DEF Passed
  <2>2. CASE x = c
    BY <2>2
  <2>3. CASE x # c /\ x # g[n]
    <3>1. f[x] \in P /\ f[x] # n
      BY <1>1, <2>1, <2>3
    <3> QED
      BY <1>2, <2>1, <2>3, <3>1
  <2>4. CASE x # c /\ x = g[n]
    <3>1. n \in P /\ f2[x] = f[n] /\ f[n] # n
      BY <1>1, <1>2, <2>1, <2>4
    <3>2. f[n] \in P \/ f[n] = f[c]
      BY <3>1 DEF Passed
    <3>3. CASE f[n] = f[c]
      <4>1. n = c /\ c # g[n]
        BY <1>1, <3>3
      <4> QED
        BY <1>1, <1>2, <3>1, <4>1
    <3> QED
      BY <3>1, <3>2, <3>3
  <2> QED
    BY <2>2, <2>3, <2>4
<1>7. \A x \in (P \ {n}) \ {HEAD} : g2[x] \in P \ {n}
  <2> TAKE x \in (P \ {n}) \ {HEAD}
  <2>1. x \in C /\ g[x] \in P /\ f[g[x]] = x
    BY <1>1 DEF Passed, IsRing
  <2>2. CASE x = f[n]
    <3>1. n \in P /\ g[n] \in P
      BY <1>1, <2>1, <2>2 DEF Passed
    <3> QED
      BY <1>1, <1>3, <2>1, <2>2, <3>1
  <2>3. CASE x # f[n]
    BY <1>3, <2>1, <2>3
  <2> QED
    BY <2>2, <2>3
<1> QED
  BY <1>1, <1>4, <1>5, <1>6, <1>7 DEF Passed
-----------------------------------------------------------------------------
(* The invariant of a walk                                                 *)

\* A callback does not clear or reverse the list, and has done when it has taken out
\* its own node: ds_list_foreach finds the next node through the links of that one.
CallbacksOrderly == CallbackMay \subseteq {"insert", "remove", "self"}

Onward == IF walk.forward THEN next ELSE prev
Backward == IF walk.forward THEN prev ELSE next

\* The cell that the walk looks at next.
Goal == IF walk.calling THEN Onward[walk.node] ELSE walk.node

\* Of the cells that the walk has passed, none is owed a visit, and a node that was
\* visited is one of them as long as it is linked.
WalkPassed(P) ==
  /\ Passed(Onward, Backward, Cells, P, Goal)
  /\ walk.seen \subseteq P /\ walk.owed \subseteq linked \ P
  /\ walk.calling /\ walk.node \in linked => walk.node \in P

WalkInv == walk.on => \E P \in SUBSET Cells : WalkPassed(P)

LEMMA OnwardRing ==
  ASSUME ListInv
  PROVE  IsRing(Onward, Backward, Cells)
<1>1. IsRing(next, prev, Cells)
  BY RingParts DEF ListInv
<1>2. IsRing(prev, next, Cells)
  BY <1>1, RingTurned
<1> QED
  BY <1>1, <1>2 DEF Onward, Backward

LEMMA GoalIs ==
  /\ ~walk.calling => Goal = walk.node
  /\ walk.calling => Goal = Onward[walk.node]
  /\ ~walk'.calling => Goal' = walk'.node
  /\ walk'.calling => Goal' = Onward'[walk'.node]
BY DEF Goal

\* A callback that changes the list is that of a node in it.
LEMMA CallbackMayOnly ==
  ASSUME CallbacksOrderly, walk.on, NEW op, ListMay(op)
  PROVE  walk.calling /\ walk.node \in linked /\ op \in {"insert", "remove", "self"}
BY DEF CallbacksOrderly, ListMay

LEMMA WalkEnter ==
  ASSUME CallbacksOrderly, ListInv, WalkInv, NEW n, NEW a, Enter(n, a)
  PROVE  WalkInv'
<1> SUFFICES ASSUME walk.on PROVE \E P \in SUBSET Cells' : WalkPassed(P)'
  BY DEF WalkInv, Enter, Enters
<1>1. PICK P \in SUBSET Cells : WalkPassed(P)
  BY DEF WalkInv
<1>2. /\ walk' = walk /\ linked' = linked \cup {n} /\ n \notin linked
      /\ walk.calling /\ walk.node \in linked
  BY CallbackMayOnly DEF Enter, Enters
<1>3. /\ Joins(next, prev, next', prev', Cells, a, n)
      /\ n \notin Cells /\ a \in Cells /\ next[a] \in Cells
      /\ Cells' = Cells \cup {n}
      /\ IsRing(next, prev, Cells) /\ linked \in SUBSET Cells
  BY EnterJoins, RingParts DEF ListInv, Cells
<1>4. Joins(prev, next, prev', next', Cells, next[a], n)
  BY <1>3, JoinsTurned
<1>5. PICK b \in Cells : Joins(Onward, Backward, Onward', Backward', Cells, b, n)
  <2>1. CASE walk.forward
    BY <1>2, <1>3, <2>1 DEF Onward, Backward
  <2>2. CASE ~walk.forward
    BY <1>2, <1>3, <1>4, <2>2 DEF Onward, Backward
  <2> QED
    BY <2>1, <2>2
<1>6. PICK c \in P : c = walk.node
  BY <1>1, <1>2 DEF WalkPassed
<1>7. Goal = Onward[c] /\ Goal' = Onward'[c]
  BY <1>2, <1>6, GoalIs
<1>8. IsRing(Onward, Backward, Cells) /\ Passed(Onward, Backward, Cells, P, Onward[c])
  BY <1>1, <1>7, OnwardRing DEF WalkPassed
<1>9. PICK Q \in {P, P \cup {n}} :
        Passed(Onward', Backward', Cells \cup {n}, Q, Onward'[c])
  <2>1. \/ Passed(Onward', Backward', Cells \cup {n}, P, Onward'[c])
        \/ Passed(Onward', Backward', Cells \cup {n}, P \cup {n}, Onward'[c])
    BY <1>3, <1>5, <1>8, PassedJoin
  <2> QED
    BY <2>1
<1>10. Passed(Onward', Backward', Cells', Q, Goal')
  BY <1>3, <1>7, <1>9
<1>11. WalkPassed(Q)'
  BY <1>1, <1>2, <1>3, <1>6, <1>10 DEF WalkPassed, Passed
<1>12. Q \in SUBSET Cells'
  BY <1>3
<1> QED
  BY <1>11, <1>12

LEMMA WalkLeave ==
  ASSUME CallbacksOrderly, ListInv, WalkInv, NEW n, Leave(n)
  PROVE  WalkInv'
<1>0. /\ walk'.on = walk.on /\ walk'.forward = walk.forward
      /\ walk'.node = walk.node /\ walk'.calling = walk.calling
      /\ walk'.owed = walk.owed \ {n} /\ walk'.seen = walk.seen \ {n}
      /\ linked' = linked \ {n}
  <2>1. walk \in WalkType /\ walk' = [walk EXCEPT !.owed = @ \ {n}, !.seen = @ \ {n}]
    BY RingParts DEF ListInv, Leave, Leaves
  <2> QED
    BY <2>1, ForgetsWell DEF Leave, Leaves
<1> SUFFICES ASSUME walk.on PROVE \E P \in SUBSET Cells' : WalkPassed(P)'
  BY <1>0 DEF WalkInv
<1>1. PICK P \in SUBSET Cells : WalkPassed(P)
  BY DEF WalkInv
<1>2. walk.calling /\ walk.node \in linked
  BY CallbackMayOnly DEF Leave, MayRemove
<1>3. /\ Parts(next, prev, next', prev', Cells, n)
      /\ n \in Cells /\ n # HEAD /\ Cells' = Cells \ {n}
  BY LeaveParts
<1>4. Parts(prev, next, prev', next', Cells, n)
  BY <1>3 DEF Parts
<1>5. Parts(Onward, Backward, Onward', Backward', Cells, n)
  <2>1. CASE walk.forward
    BY <1>0, <1>3, <2>1 DEF Onward, Backward
  <2>2. CASE ~walk.forward
    BY <1>0, <1>4, <2>2 DEF Onward, Backward
  <2> QED
    BY <2>1, <2>2
<1>6. PICK c \in P : c = walk.node
  BY <1>1, <1>2 DEF WalkPassed
<1>7. Goal = Onward[c] /\ Goal' = Onward'[c]
  BY <1>0, <1>2, <1>6, GoalIs
<1>8. IsRing(Onward, Backward, Cells) /\ Passed(Onward, Backward, Cells, P, Onward[c])
  BY <1>1, <1>7, OnwardRing DEF WalkPassed
<1>9. Passed(Onward', Backward', Cells \ {n}, P \ {n}, Onward'[c])
  <2>1. \A f2, g2 : Parts(Onward, Backward, f2, g2, Cells, n)
          => Passed(f2, g2, Cells \ {n}, P \ {n}, f2[c])
    BY <1>3, <1>8, PassedPart
  <2> QED
    BY <1>5, <2>1
<1>10. WalkPassed(P \ {n})'
  BY <1>0, <1>1, <1>3, <1>6, <1>7, <1>9 DEF WalkPassed
<1>11. P \ {n} \in SUBSET Cells'
  BY <1>3
<1> QED
  BY <1>10, <1>11

LEMMA WalkMoves ==
  ASSUME ListInv, WalkInv, UNCHANGED <<prev, next, linked>>,
         (\E forward \in BOOLEAN : WalkBegin(forward))
           \/ WalkCall \/ WalkNext \/ WalkBreak \/ WalkEnd
  PROVE  WalkInv'
<1>0. /\ Cells' = Cells /\ HEAD \in Cells /\ walk \in WalkType
      /\ Cells = linked \cup {HEAD} /\ HEAD \notin linked /\ linked' = linked
  BY RingParts DEF Cells, ListInv
<1>1. CASE \E forward \in BOOLEAN : WalkBegin(forward)
  <2>1. PICK forward \in BOOLEAN : WalkBegin(forward)
    BY <1>1
  <2>2. walk' = [on |-> TRUE, forward |-> forward, node |-> Follow(forward, HEAD),
                 calling |-> FALSE, owed |-> linked, seen |-> {}]
    BY <2>1 DEF WalkBegin
  <2>3. PICK x : x = Follow(forward, HEAD)
    OBVIOUS
  <2>4. /\ walk'.on /\ walk'.forward = forward /\ walk'.node = x /\ ~walk'.calling
        /\ walk'.owed = linked /\ walk'.seen = {}
    BY <2>2, <2>3
  <2>5. /\ Onward' = IF forward THEN next ELSE prev
        /\ Backward' = IF forward THEN prev ELSE next
        /\ x = Onward'[HEAD]
    BY <2>3, <2>4 DEF Onward, Backward, Follow
  <2>6. IsRing(Onward', Backward', Cells)
    <3>1. IsRing(next, prev, Cells)
      BY RingParts DEF ListInv
    <3>2. IsRing(prev, next, Cells)
      BY <3>1, RingTurned
    <3> QED
      BY <2>5, <3>1, <3>2
  <2>7. Passed(Onward', Backward', Cells, {HEAD}, Onward'[HEAD])
    BY <2>6, PassedNone
  <2>8. Goal' = x
    BY <2>4, GoalIs
  <2>9. WalkPassed({HEAD})'
    BY <1>0, <2>4, <2>5, <2>7, <2>8 DEF WalkPassed
  <2> QED
    BY <1>0, <2>9 DEF WalkInv
<1>2. CASE WalkCall
  <2>1. /\ walk.on /\ ~walk.calling /\ walk.node # HEAD
        /\ walk' = [walk EXCEPT !.calling = TRUE, !.owed = @ \ {walk.node},
                                !.seen = @ \cup {walk.node}]
    BY <1>2 DEF WalkCall
  <2>2. PICK P \in SUBSET Cells : WalkPassed(P)
    BY <2>1 DEF WalkInv
  <2>3. PICK x : x = walk.node
    OBVIOUS
  <2>4. /\ walk'.on /\ walk'.forward = walk.forward /\ walk'.node = x /\ walk'.calling
        /\ walk'.owed = walk.owed \ {x} /\ walk'.seen = walk.seen \cup {x}
    BY <1>0, <2>1, <2>3 DEF WalkType
  <2>5. Onward' = Onward /\ Backward' = Backward
    BY <2>4 DEF Onward, Backward
  <2>6. Goal = x /\ Goal' = Onward[x]
    BY <2>1, <2>3, <2>4, <2>5, GoalIs
  <2>7. Passed(Onward, Backward, Cells, P, x) /\ IsRing(Onward, Backward, Cells)
    BY <2>2, <2>6, OnwardRing DEF WalkPassed
  <2>8. x \notin P /\ Passed(Onward, Backward, Cells, P \cup {x}, Onward[x])
    BY <2>1, <2>3, <2>7, PassedOn
  <2>9. WalkPassed(P \cup {x})'
    <3>1. walk'.seen \subseteq P \cup {x} /\ walk'.owed \subseteq linked' \ (P \cup {x})
      BY <1>0, <2>2, <2>4 DEF WalkPassed
    <3>2. Passed(Onward', Backward', Cells', P \cup {x}, Goal')
      BY <1>0, <2>5, <2>6, <2>8
    <3> QED
      BY <2>4, <3>1, <3>2 DEF WalkPassed
  <2>10. P \cup {x} \in SUBSET Cells'
    BY <1>0, <2>8 DEF Passed
  <2> QED
    BY <2>9, <2>10 DEF WalkInv
<1>3. CASE WalkNext
  <2>1. PICK x : x = Follow(walk.forward, walk.node)
    OBVIOUS
  <2>2. walk.calling /\ walk' = [walk EXCEPT !.calling = FALSE, !.node = x]
    BY <1>3, <2>1 DEF WalkNext
  <2>3. /\ walk'.on = walk.on /\ walk'.forward = walk.forward /\ walk'.node = x
        /\ ~walk'.calling /\ walk'.owed = walk.owed /\ walk'.seen = walk.seen
    BY <1>0, <2>2 DEF WalkType
  <2>4. Onward' = Onward /\ Backward' = Backward /\ x = Onward[walk.node]
    BY <2>1, <2>3 DEF Onward, Backward, Follow
  <2>5. Goal' = Goal
    BY <2>2, <2>3, <2>4, GoalIs
  <2>6. \A P : WalkPassed(P) => WalkPassed(P)'
    BY <1>0, <2>3, <2>4, <2>5 DEF WalkPassed
  <2> QED
    BY <1>0, <2>3, <2>6 DEF WalkInv
<1>4. CASE WalkBreak \/ WalkEnd
  BY <1>4 DEF WalkBreak, WalkEnd, NoWalk, WalkInv
<1> QED
  BY <1>1, <1>2, <1>3, <1>4

LEMMA WalkStep ==
  ASSUME CallbacksOrderly, ListInv, WalkInv, [ListNext]_listVars
  PROVE  WalkInv'
<1>1. CASE \E n \in Node, pos \in Node :
             PushFront(n) \/ PushBack(n) \/ InsertBefore(pos, n) \/ InsertAfter(pos, n)
  BY <1>1, InsertionsAre, WalkEnter
<1>2. CASE PopFront \/ PopBack \/ \E n \in Node : Remove(n)
  BY <1>2, RemovalsAre, WalkLeave
<1>3. CASE Clear \/ Reverse
  <2>1. ~walk.on
    BY <1>3, CallbackMayOnly DEF Clear, Reverse
  <2>2. walk'.on = walk.on
    <3>1. walk \in WalkType
      BY RingParts DEF ListInv
    <3>2. CASE Clear
      BY <3>1, <3>2, ForgetsWell DEF Clear, Leaves
    <3> QED
      BY <1>3, <3>2 DEF Reverse
  <2> QED
    BY <2>1, <2>2 DEF WalkInv
<1>4. CASE (\E forward \in BOOLEAN : WalkBegin(forward))
             \/ WalkCall \/ WalkNext \/ WalkBreak \/ WalkEnd
  <2>1. UNCHANGED <<prev, next, linked>>
    BY <1>4 DEF WalkBegin, WalkCall, WalkNext, WalkBreak, WalkEnd
  <2> QED
    BY <1>4, <2>1, WalkMoves
<1>5. CASE UNCHANGED listVars
  <2>1. \A P : WalkPassed(P)' <=> WalkPassed(P)
    BY <1>5 DEF listVars, WalkPassed, Cells, Goal, Onward, Backward
  <2> QED
    BY <1>5, <2>1 DEF listVars, WalkInv, Cells
<1> QED
  BY <1>1, <1>2, <1>3, <1>4, <1>5 DEF ListNext

\* A walk in either direction calls back for nodes of the list only, for none twice,
\* and has visited every node that stayed when it comes back to the head, whatever
\* its callbacks put in and take out.
THEOREM WalksVisitOnce ==
  ASSUME CallbacksOrderly
  PROVE  ListSpec => WalkVisitsEachOnce
<1>1. ListInit => WalkInv
  BY DEF ListInit, NoWalk, WalkInv
<1>2. ListInv /\ WalkInv /\ [ListNext]_listVars => WalkInv'
  BY WalkStep
<1>3. ASSUME ListInv, WalkInv
      PROVE  /\ WalkCall => walk.node \in linked /\ walk.node \notin walk.seen
             /\ WalkEnd => walk.owed = {}
  <2>1. SUFFICES ASSUME walk.on, ~walk.calling
                 PROVE  /\ walk.node # HEAD => walk.node \in linked
                                                 /\ walk.node \notin walk.seen
                        /\ walk.node = HEAD => walk.owed = {}
    BY DEF WalkCall, WalkEnd
  <2>2. PICK P \in SUBSET Cells : WalkPassed(P)
    BY <1>3, <2>1 DEF WalkInv
  <2>3. Passed(Onward, Backward, Cells, P, walk.node) /\ IsRing(Onward, Backward, Cells)
    BY <1>3, <2>1, <2>2, GoalIs, OnwardRing DEF WalkPassed
  <2>4. walk.node # HEAD => walk.node \in linked /\ walk.node \notin walk.seen
    BY <2>2, <2>3 DEF WalkPassed, Passed, Cells
  <2>5. walk.node = HEAD => walk.owed = {}
    BY <2>2, <2>3, PassedAll DEF WalkPassed, Cells
  <2> QED
    BY <2>4, <2>5
<1>4. ListInv /\ WalkInv
         => [/\ WalkCall => walk.node \in linked /\ walk.node \notin walk.seen
             /\ WalkEnd => walk.owed = {}]_listVars
  BY <1>3
<1> QED
  BY <1>1, <1>2, <1>4, ListHolds, PTL DEF ListSpec, WalkVisitsEachOnce

-----------------------------------------------------------------------------
(* Where the links lead from the head, step by step                        *)

\* The first n + 1 cells that the link leads to.
Steps(link, n, t) ==
  t = [i \in 0 .. n |-> IF i = 0 THEN link[HEAD] ELSE link[t[i - 1]]]

\* All of them.
Trail(link) ==
  CHOOSE t : t = [i \in Nat |-> IF i = 0 THEN link[HEAD] ELSE link[t[i - 1]]]

LEMMA AtIsTrail == At = Trail(next)
BY DEF At, Trail

LEMMA LeastNumber ==
  ASSUME NEW S \in SUBSET Nat, S # {}
  PROVE  \E n \in S : \A m \in S : n <= m
<1>1. PICK n \in S : \A m \in S : ~(<<m, n>> \in OpToRel(<, Nat))
  BY NatLessThanWellFounded, WFMin
<1>2. \A m \in S : ~(m < n)
  BY <1>1 DEF OpToRel
<1> QED
  BY <1>2

LEMMA StepsExist ==
  ASSUME NEW link, NEW n \in Nat
  PROVE  \E t : Steps(link, n, t)
<1> DEFINE S == {m \in Nat : ~ \E t : Steps(link, m, t)}
<1>1. SUFFICES ASSUME S # {} PROVE FALSE
  OBVIOUS
<1>2. PICK k \in S : \A m \in S : k <= m
  BY <1>1, LeastNumber
<1>3. CASE k = 0
  <2>1. Steps(link, 0, [i \in 0 .. 0 |-> link[HEAD]])
    BY DEF Steps
  <2> QED
    BY <1>3, <2>1
<1>4. CASE k # 0
  <2>1. k - 1 \in Nat /\ k \in Nat /\ k - 1 \notin S
    BY <1>2, <1>4
  <2>2. PICK t : Steps(link, k - 1, t)
    BY <2>1
  <2> DEFINE u == [i \in 0 .. k |-> IF i = k THEN link[t[k - 1]] ELSE t[i]]
  <2>3. \A i \in 0 .. k : u[i] = IF i = 0 THEN link[HEAD] ELSE link[u[i - 1]]
    <3> TAKE i \in 0 .. k
    <3>1. \A j \in 0 .. k - 1 : t[j] = IF j = 0 THEN link[HEAD] ELSE link[t[j - 1]]
      BY <2>2 DEF Steps
    <3>2. CASE i = k
      BY <2>1, <1>4, <3>2
    <3>3. CASE i # k
      <4>1. i \in 0 .. k - 1 /\ u[i] = t[i] /\ (i # 0 => i - 1 \in 0 .. k /\ u[i - 1] = t[i - 1])
        BY <2>1, <3>3
      <4> QED
        BY <3>1, <4>1
    <3> QED
      BY <3>2, <3>3
  <2>4. Steps(link, k, u)
    BY <2>3 DEF Steps
  <2> QED
    BY <1>2, <2>4
<1> QED
  BY <1>3, <1>4

LEMMA StepsAgree ==
  ASSUME NEW link, NEW n \in Nat, NEW m \in Nat, NEW t, NEW u,
         Steps(link, n, t), Steps(link, m, u), NEW i \in 0 .. n, i <= m
  PROVE  t[i] = u[i]
<1> DEFINE S == {j \in 0 .. n : j <= m /\ t[j] # u[j]}
<1>1. SUFFICES ASSUME S # {} PROVE FALSE
  OBVIOUS
<1>2. S \in SUBSET Nat
  OBVIOUS
<1>3. PICK k \in S : \A j \in S : k <= j
  BY <1>1, <1>2, LeastNumber
<1>4. /\ t[k] = IF k = 0 THEN link[HEAD] ELSE link[t[k - 1]]
      /\ u[k] = IF k = 0 THEN link[HEAD] ELSE link[u[k - 1]]
  <2>1. k \in 0 .. n /\ k \in 0 .. m
    BY <1>3
  <2> QED
    BY <2>1 DEF Steps
<1>5. CASE k = 0
  BY <1>3, <1>4, <1>5
<1>6. CASE k # 0
  <2>1. k - 1 \in 0 .. n /\ k - 1 <= m /\ k - 1 \notin S
    BY <1>3, <1>6
  <2> QED
    BY <1>3, <1>4, <1>6, <2>1
<1> QED
  BY <1>5, <1>6

LEMMA TrailIs ==
  ASSUME NEW link
  PROVE  /\ Trail(link)[0] = link[HEAD]
         /\ \A i \in Nat : Trail(link)[i + 1] = link[Trail(link)[i]]
<1> DEFINE F(i) == CHOOSE t : Steps(link, i, t)
           t == [i \in Nat |-> F(i)[i]]
<1>1. \A i \in Nat : Steps(link, i, F(i))
  BY StepsExist
<1>2. \A i \in Nat : t[i] = IF i = 0 THEN link[HEAD] ELSE link[t[i - 1]]
  <2> TAKE i \in Nat
  <2>1. F(i)[i] = IF i = 0 THEN link[HEAD] ELSE link[F(i)[i - 1]]
    <3> HIDE DEF F
    <3> QED
      BY <1>1 DEF Steps
  <2>2. i # 0 => F(i)[i - 1] = F(i - 1)[i - 1]
    <3>1. ASSUME i # 0 PROVE F(i)[i - 1] = F(i - 1)[i - 1]
      <4>1. i - 1 \in Nat /\ i - 1 \in 0 .. i - 1 /\ i - 1 <= i
        BY <3>1
      <4>2. Steps(link, i, F(i)) /\ Steps(link, i - 1, F(i - 1))
        BY <1>1, <4>1
      <4> HIDE DEF F
      <4> QED
        BY <4>1, <4>2, StepsAgree
    <3> QED
      BY <3>1
  <2> HIDE DEF F
  <2> QED
    BY <2>1, <2>2
<1>3. t = [i \in Nat |-> IF i = 0 THEN link[HEAD] ELSE link[t[i - 1]]]
  <2> HIDE DEF F
  <2>1. DOMAIN t = Nat
    OBVIOUS
  <2>2. t = [i \in Nat |-> t[i]]
    OBVIOUS
  <2> HIDE DEF t
  <2> QED
    BY <1>2, <2>2
<1>4. Trail(link) = [i \in Nat |-> IF i = 0 THEN link[HEAD] ELSE link[Trail(link)[i - 1]]]
  <2> HIDE DEF t
  <2> QED
    BY <1>3 DEF Trail
<1>5. \A i \in Nat : Trail(link)[i] = IF i = 0 THEN link[HEAD] ELSE link[Trail(link)[i - 1]]
  BY <1>4, Zenon
<1>6. \A i \in Nat : i + 1 \in Nat /\ i + 1 # 0 /\ (i + 1) - 1 = i
  OBVIOUS
<1> QED
  BY <1>5, <1>6

-----------------------------------------------------------------------------
(* The order in which a link goes round                                    *)

\* p are the cells C by number, in the order in which the link goes round: the
\* sentinel is both number 0 and the one behind the last, which is number len.
Goes(link, C, len, p) ==
  /\ p[0] = HEAD /\ p[len + 1] = HEAD
  /\ \A i \in 0 .. len : p[i] \in C /\ link[p[i]] = p[i + 1]
  /\ \A c \in C : \E i \in 0 .. len : p[i] = c
  /\ \A i, j \in 0 .. len : p[i] = p[j] => i = j

\* What goes round is what the trail leads along.
LEMMA GoesAlong ==
  ASSUME NEW link, NEW C, NEW len \in Nat, NEW p, Goes(link, C, len, p), NEW i \in 0 .. len
  PROVE  Trail(link)[i] = p[i + 1]
<1> DEFINE S == {j \in 0 .. len : Trail(link)[j] # p[j + 1]}
<1>1. SUFFICES ASSUME S # {} PROVE FALSE
  OBVIOUS
<1>2. S \in SUBSET Nat
  OBVIOUS
<1>3. PICK k \in S : \A j \in S : k <= j
  BY <1>1, <1>2, LeastNumber
<1>4. k \in 0 .. len /\ link[p[k]] = p[k + 1] /\ p[0] = HEAD
  BY <1>3 DEF Goes
<1>5. CASE k = 0
  BY <1>3, <1>4, <1>5, TrailIs
<1>6. CASE k # 0
  <2>1. k - 1 \in 0 .. len /\ k - 1 \in Nat /\ k - 1 \notin S /\ (k - 1) + 1 = k
    BY <1>3, <1>4, <1>6
  <2>2. Trail(link)[k - 1] = p[k]
    BY <2>1
  <2>3. Trail(link)[k] = link[Trail(link)[k - 1]]
    BY <2>1, TrailIs
  <2> QED
    BY <1>3, <1>4, <2>2, <2>3
<1> QED
  BY <1>5, <1>6

\* link2 is link with n put in behind the cell a, and with what is behind b left out.
LinkedIn(link, link2, C, a, n) ==
  link2[n] = link[a] /\ link2[a] = n /\ \A c \in C : c # a => link2[c] = link[c]

LinkedPast(link, link2, C, b, n) ==
  link2[b] = link[n] /\ \A c \in C : c # b => link2[c] = link[c]

\* p2 is p with n put in behind number k, with number k taken out, and turned round.
PutIn(len, p, p2, k, n) ==
  \A i \in 0 .. len + 2 :
    p2[i] = IF i <= k THEN p[i] ELSE IF i = k + 1 THEN n ELSE p[i - 1]

TakenOut(len, p, p2, k) ==
  \A i \in 0 .. len : p2[i] = IF i < k THEN p[i] ELSE p[i + 1]

Turned(len, p, p2) ==
  \A i \in 0 .. len + 1 : p2[i] = p[(len + 1) - i]

\* n put in behind number k.
LEMMA InsertGoes ==
  ASSUME NEW link, NEW link2, NEW C, NEW len \in Nat, NEW p, Goes(link, C, len, p),
         NEW n, n \notin C, NEW k \in 0 .. len,
         LinkedIn(link, link2, C, p[k], n), NEW p2, PutIn(len, p, p2, k, n)
  PROVE  Goes(link2, C \cup {n}, len + 1, p2)
<1> USE DEF LinkedIn, PutIn
<1>1. p2[0] = HEAD /\ p2[(len + 1) + 1] = HEAD
  BY DEF Goes
<1>2. ASSUME NEW i \in 0 .. len + 1
      PROVE  p2[i] \in C \cup {n} /\ link2[p2[i]] = p2[i + 1]
  <2>1. CASE i < k
    <3>1. i \in 0 .. len /\ p2[i] = p[i] /\ p2[i + 1] = p[i + 1]
      BY <2>1
    <3>2. p[i] \in C /\ p[i] # p[k] /\ link[p[i]] = p[i + 1]
      BY <2>1, <3>1 DEF Goes
    <3> QED
      BY <3>1, <3>2
  <2>2. CASE i = k
    <3>1. p2[i] = p[k] /\ p2[i + 1] = n /\ p[k] \in C
      BY <2>2 DEF Goes
    <3> QED
      BY <3>1
  <2>3. CASE i = k + 1
    <3>1. p2[i] = n /\ p2[i + 1] = p[k + 1] /\ link[p[k]] = p[k + 1]
      BY <2>3 DEF Goes
    <3> QED
      BY <3>1
  <2>4. CASE i > k + 1
    <3>1. i - 1 \in 0 .. len /\ p2[i] = p[i - 1] /\ p2[i + 1] = p[i] /\ (i - 1) + 1 = i
      BY <2>4
    <3>2. p[i - 1] \in C /\ p[i - 1] # p[k] /\ link[p[i - 1]] = p[i]
      BY <2>4, <3>1 DEF Goes
    <3> QED
      BY <3>1, <3>2
  <2> QED
    BY <2>1, <2>2, <2>3, <2>4
<1>3. ASSUME NEW c \in C \cup {n}
      PROVE  \E i \in 0 .. len + 1 : p2[i] = c
  <2>1. CASE c = n
    <3>1. k + 1 \in 0 .. len + 1 /\ p2[k + 1] = n
      OBVIOUS
    <3> QED
      BY <2>1, <3>1
  <2>2. CASE c # n
    <3>1. PICK i \in 0 .. len : p[i] = c
      BY <2>2 DEF Goes
    <3>2. CASE i <= k
      <4>1. i \in 0 .. len + 1 /\ p2[i] = c
        BY <3>1, <3>2
      <4> QED
        BY <4>1
    <3>3. CASE i > k
      <4>1. i + 1 \in 0 .. len + 1 /\ p2[i + 1] = c
        BY <3>1, <3>3
      <4> QED
        BY <4>1
    <3> QED
      BY <3>2, <3>3
  <2> QED
    BY <2>1, <2>2
<1>4. ASSUME NEW i \in 0 .. len + 1, NEW j \in 0 .. len + 1, p2[i] = p2[j]
      PROVE  i = j
  <2>1. \A m \in 0 .. len : p[m] # n
    BY DEF Goes
  <2>2. \A l, m \in 0 .. len : p[l] = p[m] => l = m
    BY DEF Goes
  <2> QED
    BY <1>4, <2>1, <2>2
<1> QED
  BY <1>1, <1>2, <1>3, <1>4 DEF Goes

\* Number k taken out.
LEMMA RemoveGoes ==
  ASSUME NEW link, NEW link2, NEW C, NEW len \in Nat, NEW p, Goes(link, C, len, p),
         NEW k \in 1 .. len,
         LinkedPast(link, link2, C, p[k - 1], p[k]), NEW p2, TakenOut(len, p, p2, k)
  PROVE  Goes(link2, C \ {p[k]}, len - 1, p2)
<1> USE DEF LinkedPast, TakenOut
<1>0. \A l, m \in 0 .. len : p[l] = p[m] => l = m
  BY DEF Goes
<1>1. p2[0] = HEAD /\ p2[(len - 1) + 1] = HEAD
  BY DEF Goes
<1>2. ASSUME NEW i \in 0 .. len - 1
      PROVE  p2[i] \in C \ {p[k]} /\ link2[p2[i]] = p2[i + 1]
  <2>1. CASE i < k - 1
    <3>1. i \in 0 .. len /\ p2[i] = p[i] /\ p2[i + 1] = p[i + 1]
      BY <2>1
    <3>2. p[i] \in C /\ p[i] # p[k - 1] /\ p[i] # p[k] /\ link[p[i]] = p[i + 1]
      BY <1>0, <2>1, <3>1 DEF Goes
    <3> QED
      BY <3>1, <3>2
  <2>2. CASE i = k - 1
    <3>1. p2[i] = p[k - 1] /\ p2[i + 1] = p[k + 1] /\ k - 1 \in 0 .. len /\ k \in 0 .. len
      BY <2>2
    <3>2. p[k - 1] \in C /\ p[k - 1] # p[k] /\ link[p[k]] = p[k + 1]
      BY <1>0, <3>1 DEF Goes
    <3> QED
      BY <3>1, <3>2
  <2>3. CASE i > k - 1
    <3>1. i + 1 \in 0 .. len /\ p2[i] = p[i + 1] /\ p2[i + 1] = p[(i + 1) + 1]
      BY <2>3
    <3>2. p[i + 1] \in C /\ p[i + 1] # p[k - 1] /\ p[i + 1] # p[k]
      BY <1>0, <2>3, <3>1 DEF Goes
    <3>3. link[p[i + 1]] = p[(i + 1) + 1]
      BY <3>1 DEF Goes
    <3> QED
      BY <3>1, <3>2, <3>3
  <2> QED
    BY <2>1, <2>2, <2>3
<1>3. ASSUME NEW c \in C \ {p[k]}
      PROVE  \E i \in 0 .. len - 1 : p2[i] = c
  <2>1. PICK i \in 0 .. len : p[i] = c
    BY DEF Goes
  <2>2. CASE i < k
    <3>1. i \in 0 .. len - 1 /\ p2[i] = c
      BY <2>1, <2>2
    <3> QED
      BY <3>1
  <2>3. CASE i > k
    <3>1. i - 1 \in 0 .. len - 1 /\ p2[i - 1] = c
      BY <2>1, <2>3
    <3> QED
      BY <3>1
  <2>4. i # k
    BY <2>1
  <2> QED
    BY <2>2, <2>3, <2>4
<1>4. ASSUME NEW i \in 0 .. len - 1, NEW j \in 0 .. len - 1, p2[i] = p2[j]
      PROVE  i = j
  BY <1>0, <1>4
<1> QED
  BY <1>1, <1>2, <1>3, <1>4 DEF Goes

\* The other link goes round the other way.
LEMMA TurnGoes ==
  ASSUME NEW f, NEW g, NEW C, IsRing(f, g, C),
         NEW len \in Nat, NEW p, Goes(f, C, len, p), NEW p2,
         Turned(len, p, p2)
  PROVE  Goes(g, C, len, p2)
<1> USE DEF Turned
<1>1. p2[0] = HEAD /\ p2[len + 1] = HEAD
  BY DEF Goes
<1>2. ASSUME NEW i \in 0 .. len
      PROVE  p2[i] \in C /\ g[p2[i]] = p2[i + 1]
  <2>1. PICK j \in 0 .. len : j = len - i
    OBVIOUS
  <2>2. p2[i] = p[j + 1] /\ p2[i + 1] = p[j]
    BY <2>1
  <2>3. f[p[j]] = p[j + 1] /\ p[j] \in C
    BY DEF Goes
  <2> QED
    BY <2>2, <2>3 DEF IsRing
<1>3. ASSUME NEW c \in C
      PROVE  \E i \in 0 .. len : p2[i] = c
  <2>1. PICK i \in 0 .. len : p[i] = c
    BY DEF Goes
  <2>2. CASE i = 0
    <3>1. p2[0] = c
      BY <1>1, <2>1, <2>2 DEF Goes
    <3> QED
      BY <3>1
  <2>3. CASE i # 0
    <3>1. (len + 1) - i \in 0 .. len /\ p2[(len + 1) - i] = c
      BY <2>1, <2>3
    <3> QED
      BY <3>1
  <2> QED
    BY <2>2, <2>3
<1>4. ASSUME NEW i \in 0 .. len, NEW j \in 0 .. len, p2[i] = p2[j]
      PROVE  i = j
  <2>1. \A l, m \in 0 .. len : p[l] = p[m] => l = m
    BY DEF Goes
  <2>2. \A m \in 1 .. len : p[m] # HEAD
    BY <2>1 DEF Goes
  <2>3. CASE i = 0 \/ j = 0
    BY <1>1, <1>4, <2>2, <2>3
  <2>4. CASE i # 0 /\ j # 0
    <3>1. (len + 1) - i \in 0 .. len /\ (len + 1) - j \in 0 .. len
      BY <2>4
    <3>2. (len + 1) - i = (len + 1) - j
      BY <1>4, <2>1, <3>1
    <3> QED
      BY <3>2
  <2> QED
    BY <2>3, <2>4
<1> QED
  BY <1>1, <1>2, <1>3, <1>4 DEF Goes

-----------------------------------------------------------------------------
(* The sequence of the nodes in that order                                 *)

\* The node at each place of q, and the sentinel before and behind them.
Places(q) == [i \in Nat |-> IF i \in 1 .. Len(q) THEN q[i] ELSE HEAD]

\* q are the nodes of the cells C, each once, in the order in which the link goes.
Shows(link, C, q) ==
  q \in Seq(C \ {HEAD}) /\ Goes(link, C, Len(q), Places(q))

\* The first len cells that the link leads to.
Listing(link, len) == [i \in 1 .. len |-> Trail(link)[i - 1]]

LEMMA ShownIs ==
  ASSUME NEW link, NEW C, NEW q, Shows(link, C, q)
  PROVE  q = Listing(link, Len(q))
<1>1. Len(q) \in Nat /\ q = [i \in 1 .. Len(q) |-> q[i]]
  BY LenProperties DEF Shows
<1>2. ASSUME NEW i \in 1 .. Len(q)
      PROVE  q[i] = Trail(link)[i - 1]
  <2>1. i - 1 \in 0 .. Len(q) /\ (i - 1) + 1 = i /\ Places(q)[i] = q[i]
    BY <1>1 DEF Places
  <2>2. Trail(link)[i - 1] = Places(q)[(i - 1) + 1]
    BY <1>1, <2>1, GoesAlong DEF Shows
  <2> QED
    BY <2>1, <2>2
<1> QED
  BY <1>1, <1>2 DEF Listing

\* Every node has a place.
LEMMA PlaceIn ==
  ASSUME NEW link, NEW C, NEW q, Shows(link, C, q), HEAD \in C
  PROVE  /\ Len(q) \in Nat /\ \A i \in 1 .. Len(q) : q[i] \in C \ {HEAD}
         /\ \A n \in C \ {HEAD} : \E i \in 1 .. Len(q) : q[i] = n
         /\ \A i, j \in 1 .. Len(q) : q[i] = q[j] => i = j
<1>1. Len(q) \in Nat /\ \A i \in 1 .. Len(q) : q[i] \in C \ {HEAD}
  BY LenProperties, ElementOfSeq DEF Shows
<1>2. ASSUME NEW n \in C \ {HEAD}
      PROVE  \E i \in 1 .. Len(q) : q[i] = n
  <2>1. PICK i \in 0 .. Len(q) : Places(q)[i] = n
    BY DEF Shows, Goes
  <2> QED
    BY <1>1, <2>1 DEF Places
<1>3. ASSUME NEW i \in 1 .. Len(q), NEW j \in 1 .. Len(q), q[i] = q[j]
      PROVE  i = j
  <2>1. /\ Places(q)[i] = q[i] /\ Places(q)[j] = q[j]
        /\ i \in 0 .. Len(q) /\ j \in 0 .. Len(q)
    BY <1>1 DEF Places
  <2> QED
    BY <1>3, <2>1 DEF Shows, Goes
<1> QED
  BY <1>1, <1>2, <1>3

\* What an insertion behind the k-th and a removal of the k-th make of a sequence.
InsertedAt(q, k, n, s) ==
  /\ Len(s) = Len(q) + 1
  /\ \A i \in 1 .. Len(q) + 1 :
       s[i] = IF i <= k THEN q[i] ELSE IF i = k + 1 THEN n ELSE q[i - 1]

Inserts(q, k, n, s) == s = SeqExt!InsertAt(q, k + 1, n)

LEMMA InsertAtIs ==
  ASSUME NEW S, NEW q \in Seq(S), NEW k \in 0 .. Len(q), NEW n,
         NEW s, Inserts(q, k, n, s)
  PROVE  s \in Seq(S \cup {n}) /\ InsertedAt(q, k, n, s)
<1>1. Len(q) \in Nat /\ k \in Nat
  BY LenProperties
<1> DEFINE a == SubSeq(q, 1, k)
           b == SubSeq(q, k + 1, Len(q))
<1>2. /\ a \in Seq(S) /\ Len(a) = k /\ \A i \in 1 .. k : a[i] = q[i]
  BY <1>1, SubSeqProperties
<1>3. /\ b \in Seq(S) /\ Len(b) = Len(q) - k
      /\ \A i \in 1 .. Len(q) - k : b[i] = q[k + i]
  BY <1>1, SubSeqProperties
<1>4. s = a \o <<n>> \o b
  <2>1. (k + 1) - 1 = k
    BY <1>1
  <2> QED
    BY <2>1 DEF SeqExt!InsertAt, Inserts
<1> HIDE DEF a, b
<1>5. /\ a \in Seq(S \cup {n}) /\ b \in Seq(S \cup {n}) /\ <<n>> \in Seq(S \cup {n})
      /\ Len(<<n>>) = 1 /\ <<n>>[1] = n
  <2>1. S \subseteq S \cup {n}
    OBVIOUS
  <2> QED
    BY <1>2, <1>3, <2>1, SeqDef, LenProperties
<1> DEFINE c == a \o <<n>>
<1>6. /\ c \in Seq(S \cup {n}) /\ Len(c) = k + 1
      /\ \A i \in 1 .. k + 1 : c[i] = IF i <= k THEN q[i] ELSE n
  BY <1>1, <1>2, <1>5, ConcatProperties
<1> HIDE DEF c
<1> DEFINE r == c \o b
<1>7. /\ r \in Seq(S \cup {n}) /\ Len(r) = Len(q) + 1
      /\ \A i \in 1 .. Len(q) + 1 : r[i] = IF i <= k + 1 THEN c[i] ELSE b[i - (k + 1)]
  <2>1. Len(c) + Len(b) = Len(q) + 1
    BY <1>1, <1>3, <1>6
  <2>2. /\ r \in Seq(S \cup {n}) /\ Len(r) = Len(c) + Len(b)
        /\ \A i \in 1 .. Len(c) + Len(b) :
             r[i] = IF i <= Len(c) THEN c[i] ELSE b[i - Len(c)]
    BY <1>5, <1>6, ConcatProperties
  <2> QED
    BY <1>6, <2>1, <2>2
<1>8. s = r
  BY <1>4 DEF c
<1> HIDE DEF r
<1>9. ASSUME NEW i \in 1 .. Len(q) + 1
      PROVE  r[i] = IF i <= k THEN q[i] ELSE IF i = k + 1 THEN n ELSE q[i - 1]
  <2>1. CASE i <= k
    BY <1>1, <1>6, <1>7, <2>1
  <2>2. CASE i = k + 1
    BY <1>1, <1>6, <1>7, <2>2
  <2>3. CASE i > k + 1
    <3>1. i - (k + 1) \in 1 .. Len(q) - k /\ k + (i - (k + 1)) = i - 1
      BY <1>1, <2>3
    <3>2. b[i - (k + 1)] = q[i - 1]
      BY <1>3, <3>1
    <3> QED
      BY <1>1, <1>7, <2>3, <3>2
  <2>4. i <= k \/ i = k + 1 \/ i > k + 1
    BY <1>1
  <2> QED
    BY <2>1, <2>2, <2>3, <2>4
<1> QED
  BY <1>7, <1>8, <1>9 DEF InsertedAt

LEMMA RemoveAtIs ==
  ASSUME NEW S, NEW q \in Seq(S), NEW k \in 1 .. Len(q)
  PROVE  /\ SeqExt!RemoveAt(q, k) \in Seq(S)
         /\ Len(SeqExt!RemoveAt(q, k)) = Len(q) - 1
         /\ \A i \in 1 .. Len(q) - 1 :
              SeqExt!RemoveAt(q, k)[i] = IF i < k THEN q[i] ELSE q[i + 1]
<1>1. Len(q) \in Nat /\ k \in Nat
  BY LenProperties
<1> DEFINE a == SubSeq(q, 1, k - 1)
           b == SubSeq(q, k + 1, Len(q))
<1>2. /\ a \in Seq(S) /\ Len(a) = k - 1 /\ \A i \in 1 .. k - 1 : a[i] = q[i]
  BY <1>1, SubSeqProperties
<1>3. /\ b \in Seq(S) /\ Len(b) = Len(q) - k
      /\ \A i \in 1 .. Len(q) - k : b[i] = q[k + i]
  BY <1>1, SubSeqProperties
<1>4. SeqExt!RemoveAt(q, k) = a \o b
  BY DEF SeqExt!RemoveAt
<1> HIDE DEF a, b
<1>5. /\ a \o b \in Seq(S) /\ Len(a \o b) = Len(q) - 1
      /\ \A i \in 1 .. Len(q) - 1 : (a \o b)[i] = IF i <= k - 1 THEN a[i] ELSE b[i - (k - 1)]
  <2>1. Len(a) + Len(b) = Len(q) - 1
    BY <1>1, <1>2, <1>3
  <2>2. /\ a \o b \in Seq(S) /\ Len(a \o b) = Len(a) + Len(b)
        /\ \A i \in 1 .. Len(a) + Len(b) :
             (a \o b)[i] = IF i <= Len(a) THEN a[i] ELSE b[i - Len(a)]
    BY <1>2, <1>3, ConcatProperties
  <2> QED
    BY <1>2, <2>1, <2>2
<1>6. \A i \in 1 .. Len(q) - 1 : i >= k => b[i - (k - 1)] = q[i + 1]
  BY <1>1, <1>3
<1> QED
  BY <1>1, <1>2, <1>4, <1>5, <1>6

-----------------------------------------------------------------------------
(* What the calls do to the sequence                                       *)

\* n put in behind the k-th node, or in front if k is 0.
LEMMA InsertShown ==
  ASSUME NEW link, NEW link2, NEW C, NEW q, Shows(link, C, q), HEAD \in C,
         NEW n, n \notin C, NEW k \in 0 .. Len(q),
         LinkedIn(link, link2, C, Places(q)[k], n),
         NEW r, Inserts(q, k, n, r)
  PROVE  Shows(link2, C \cup {n}, r) /\ Len(r) = Len(q) + 1
<1>2. PICK len \in Nat : len = Len(q) /\ k \in 0 .. len
  BY LenProperties DEF Shows
<1>3. /\ r \in Seq((C \ {HEAD}) \cup {n}) /\ Len(r) = len + 1
      /\ \A i \in 1 .. len + 1 :
           r[i] = IF i <= k THEN q[i] ELSE IF i = k + 1 THEN n ELSE q[i - 1]
  <2>1. q \in Seq(C \ {HEAD})
    BY DEF Shows
  <2>2. /\ r \in Seq((C \ {HEAD}) \cup {n}) /\ Len(r) = Len(q) + 1
        /\ \A i \in 1 .. Len(q) + 1 :
             r[i] = IF i <= k THEN q[i] ELSE IF i = k + 1 THEN n ELSE q[i - 1]
    <3>1. PICK S : S = C \ {HEAD}
      OBVIOUS
    <3>2. q \in Seq(S)
      BY <2>1, <3>1
    <3>3. r \in Seq(S \cup {n}) /\ InsertedAt(q, k, n, r)
      BY <3>2, InsertAtIs
    <3> QED
      BY <3>1, <3>3 DEF InsertedAt
  <2> QED
    BY <1>2, <2>2
<1>4. (C \ {HEAD}) \cup {n} = (C \cup {n}) \ {HEAD}
  OBVIOUS
<1>5. PICK p : p = Places(q)
  OBVIOUS
<1>6. PICK p2 : p2 = Places(r)
  OBVIOUS
<1>7. /\ \A i \in Nat : p[i] = IF i \in 1 .. len THEN q[i] ELSE HEAD
      /\ \A i \in Nat : p2[i] = IF i \in 1 .. len + 1 THEN r[i] ELSE HEAD
  BY <1>2, <1>3, <1>5, <1>6 DEF Places
<1>8. ASSUME NEW i \in 0 .. len + 2
      PROVE  p2[i] = IF i <= k THEN p[i] ELSE IF i = k + 1 THEN n ELSE p[i - 1]
  <2>1. CASE i <= k
    BY <1>2, <1>3, <1>7, <2>1
  <2>2. CASE i = k + 1
    BY <1>2, <1>3, <1>7, <2>2
  <2>3. CASE i > k + 1 /\ i <= len + 1
    <3>1. i \in 1 .. len + 1 /\ i - 1 \in 1 .. len
      BY <1>2, <2>3
    <3> QED
      BY <1>2, <1>3, <1>7, <2>3, <3>1
  <2>4. CASE i = len + 2
    <3>1. /\ i \in Nat /\ i - 1 \in Nat /\ i \notin 1 .. len + 1 /\ i - 1 \notin 1 .. len
          /\ ~(i <= k) /\ i # k + 1
      BY <1>2, <2>4
    <3>2. p2[i] = HEAD /\ p[i - 1] = HEAD
      BY <1>7, <3>1
    <3> QED
      BY <3>1, <3>2
  <2> QED
    BY <1>2, <2>1, <2>2, <2>3, <2>4
<1>9. Goes(link, C, len, p)
  BY <1>2, <1>5 DEF Shows
<1>10. Goes(link2, C \cup {n}, len + 1, p2)
  <2>1. PutIn(len, p, p2, k, n)
    BY <1>8 DEF PutIn
  <2>2. LinkedIn(link, link2, C, p[k], n)
    BY <1>5
  <2> QED
    BY <1>2, <1>9, <2>1, <2>2, InsertGoes
<1> QED
  BY <1>2, <1>3, <1>4, <1>6, <1>10 DEF Shows

\* The k-th node taken out.
LEMMA RemoveShown ==
  ASSUME NEW link, NEW link2, NEW C, NEW q, Shows(link, C, q), HEAD \in C,
         NEW k \in 1 .. Len(q),
         LinkedPast(link, link2, C, Places(q)[k - 1], q[k])
  PROVE  /\ Shows(link2, C \ {q[k]}, SeqExt!RemoveAt(q, k))
         /\ Len(SeqExt!RemoveAt(q, k)) = Len(q) - 1
<1>1. PICK r : r = SeqExt!RemoveAt(q, k)
  OBVIOUS
<1>2. PICK len \in Nat : len = Len(q) /\ k \in 1 .. len
  BY LenProperties DEF Shows
<1>3. /\ r \in Seq(C \ {HEAD}) /\ Len(r) = len - 1
      /\ \A i \in 1 .. len - 1 : r[i] = IF i < k THEN q[i] ELSE q[i + 1]
  BY <1>1, <1>2, RemoveAtIs DEF Shows
<1>4. r \in Seq((C \ {q[k]}) \ {HEAD})
  <2>1. /\ \A i \in 1 .. len : q[i] \in C \ {HEAD}
        /\ \A i, j \in 1 .. len : q[i] = q[j] => i = j
    BY <1>2, PlaceIn
  <2>2. \A i \in 1 .. len - 1 : r[i] \in (C \ {q[k]}) \ {HEAD}
    BY <1>2, <1>3, <2>1
  <2>3. r = [i \in 1 .. len - 1 |-> r[i]] /\ len - 1 \in Nat
    BY <1>2, <1>3, LenProperties
  <2>4. r \in [1 .. len - 1 -> (C \ {q[k]}) \ {HEAD}]
    BY <2>2, <2>3
  <2> QED
    BY <2>3, <2>4, SeqDef
<1>5. PICK p : p = Places(q)
  OBVIOUS
<1>6. PICK p2 : p2 = Places(r)
  OBVIOUS
<1>7. /\ \A i \in Nat : p[i] = IF i \in 1 .. len THEN q[i] ELSE HEAD
      /\ \A i \in Nat : p2[i] = IF i \in 1 .. len - 1 THEN r[i] ELSE HEAD
  BY <1>2, <1>3, <1>5, <1>6 DEF Places
<1>8. ASSUME NEW i \in 0 .. len
      PROVE  p2[i] = IF i < k THEN p[i] ELSE p[i + 1]
  <2>1. CASE i < k
    BY <1>2, <1>3, <1>7, <2>1
  <2>2. CASE i >= k /\ i < len
    <3>1. i \in 1 .. len - 1 /\ i + 1 \in 1 .. len
      BY <1>2, <2>2
    <3> QED
      BY <1>2, <1>3, <1>7, <2>2, <3>1
  <2>3. CASE i = len
    <3>1. i \in Nat /\ i + 1 \in Nat /\ i \notin 1 .. len - 1 /\ i + 1 \notin 1 .. len
      BY <1>2, <2>3
    <3>2. p2[i] = HEAD /\ p[i + 1] = HEAD
      BY <1>7, <3>1
    <3> QED
      BY <1>2, <2>3, <3>2
  <2> QED
    BY <1>2, <2>1, <2>2, <2>3
<1>9. Goes(link, C, len, p) /\ p[k] = q[k]
  BY <1>2, <1>5, <1>7 DEF Shows
<1>10. Goes(link2, C \ {p[k]}, len - 1, p2)
  <2>1. TakenOut(len, p, p2, k)
    BY <1>8 DEF TakenOut
  <2>2. LinkedPast(link, link2, C, p[k - 1], p[k])
    BY <1>5, <1>9
  <2> QED
    BY <1>2, <1>9, <2>1, <2>2, RemoveGoes
<1> QED
  BY <1>1, <1>2, <1>3, <1>4, <1>6, <1>9, <1>10 DEF Shows

\* The other link shows the nodes the other way round.
LEMMA TurnShown ==
  ASSUME NEW f, NEW g, NEW C, NEW q, IsRing(f, g, C), Shows(f, C, q)
  PROVE  Shows(g, C, SeqExt!Reverse(q)) /\ Len(SeqExt!Reverse(q)) = Len(q)
<1>1. PICK r : r = SeqExt!Reverse(q)
  OBVIOUS
<1>2. PICK len \in Nat : len = Len(q)
  BY LenProperties DEF Shows
<1>3. r = [i \in 1 .. len |-> q[(len - i) + 1]]
  BY <1>1, <1>2 DEF SeqExt!Reverse
<1>4. r \in Seq(C \ {HEAD}) /\ Len(r) = len
  <2>1. \A i \in 1 .. len : q[i] \in C \ {HEAD}
    BY <1>2, PlaceIn DEF IsRing
  <2>2. r \in [1 .. len -> C \ {HEAD}]
    BY <1>3, <2>1
  <2>3. r \in Seq(C \ {HEAD})
    BY <2>2, SeqDef
  <2>4. Len(r) \in Nat /\ 1 .. Len(r) = 1 .. len
    BY <2>2, <2>3, LenProperties
  <2> QED
    BY <2>3, <2>4
<1>5. PICK p : p = Places(q)
  OBVIOUS
<1>6. PICK p2 : p2 = Places(r)
  OBVIOUS
<1>7. /\ \A i \in Nat : p[i] = IF i \in 1 .. len THEN q[i] ELSE HEAD
      /\ \A i \in Nat : p2[i] = IF i \in 1 .. len THEN r[i] ELSE HEAD
  BY <1>2, <1>4, <1>5, <1>6 DEF Places
<1>8. ASSUME NEW i \in 0 .. len + 1
      PROVE  p2[i] = p[(len + 1) - i]
  BY <1>3, <1>7
<1>9. Goes(f, C, len, p)
  BY <1>2, <1>5 DEF Shows
<1>10. Goes(g, C, len, p2)
  <2>1. Turned(len, p, p2)
    BY <1>8 DEF Turned
  <2> QED
    BY <1>9, <2>1, TurnGoes
<1> QED
  BY <1>1, <1>2, <1>4, <1>6, <1>10 DEF Shows

-----------------------------------------------------------------------------
(* The list and the sequence                                               *)

\* What ds_list_at shows are the nodes in the list, in the order of the links.
InOrder == Shows(next, Cells, ListContents)

LEMMA Listed == ListContents = Listing(next, list_size)
BY AtIsTrail DEF ListContents, Listing

LEMMA ListedNext ==
  ASSUME NEW q, Shows(next', Cells', q), Len(q) = list_size'
  PROVE  ListContents' = q /\ InOrder'
<1>1. (ListContents = Listing(next, list_size))'
  BY Listed, PTL
<1>2. ListContents' = Listing(next', list_size')
  BY <1>1 DEF Listing, Trail
<1>3. q = Listing(next', list_size')
  BY ShownIs
<1>4. ListContents' = q
  BY <1>2, <1>3
<1> QED
  BY <1>4 DEF InOrder, Shows, Goes

LEMMA SizeIsLen ==
  ASSUME ListInv, InOrder, NEW q, q = ListContents
  PROVE  /\ Shows(next, Cells, q) /\ Len(q) = list_size /\ list_size \in Nat
         /\ HEAD \in Cells /\ IsRing(next, prev, Cells) /\ linked = Cells \ {HEAD}
         /\ DOMAIN q = 1 .. list_size /\ \A i \in 1 .. list_size : q[i] \in linked
<1>1. /\ IsRing(next, prev, Cells) /\ HEAD \in Cells /\ linked = Cells \ {HEAD}
      /\ list_size \in Nat
  <2>1. /\ IsRing(next, prev, Cells) /\ linked \in SUBSET Node
        /\ list_size = Cardinality(linked)
    BY RingParts DEF ListInv
  <2>2. list_size \in Nat
    BY <2>1, SizeIs
  <2>3. HEAD \notin linked
    BY <2>1
  <2> QED
    BY <2>1, <2>2, <2>3 DEF Cells, IsRing
<1>2. Shows(next, Cells, q) /\ DOMAIN q = 1 .. list_size
  BY DEF InOrder, ListContents
<1>3. /\ Len(q) \in Nat /\ DOMAIN q = 1 .. Len(q)
      /\ \A i \in 1 .. Len(q) : q[i] \in Cells \ {HEAD}
  BY <1>1, <1>2, PlaceIn, LenProperties DEF Shows
<1>4. Len(q) = list_size
  BY <1>1, <1>2, <1>3
<1> QED
  BY <1>1, <1>2, <1>3, <1>4

\* The cell before each place is the one that prev leads to.
LEMMA PlaceBefore ==
  ASSUME ListInv, InOrder, NEW q, q = ListContents, NEW k \in 0 .. list_size
  PROVE  /\ Places(q)[k] \in Cells
         /\ next[Places(q)[k]] = Places(q)[k + 1]
         /\ prev[Places(q)[k + 1]] = Places(q)[k]
<1>1. Shows(next, Cells, q) /\ Len(q) = list_size /\ IsRing(next, prev, Cells)
  BY SizeIsLen
<1>2. Places(q)[k] \in Cells /\ next[Places(q)[k]] = Places(q)[k + 1]
  BY <1>1 DEF Shows, Goes
<1> QED
  BY <1>1, <1>2 DEF IsRing

LEMMA EnterOrder ==
  ASSUME ListInv, InOrder, NEW q, q = ListContents, NEW k \in 0 .. list_size,
         NEW n, Enter(n, Places(q)[k])
  PROVE  ListContents' = SeqExt!InsertAt(q, k + 1, n) /\ InOrder'
<1>1. Shows(next, Cells, q) /\ Len(q) = list_size /\ HEAD \in Cells
  BY SizeIsLen
<1>2. PICK a : a = Places(q)[k]
  OBVIOUS
<1>3. /\ Joins(next, prev, next', prev', Cells, a, n) /\ n \notin Cells
      /\ Cells' = Cells \cup {n}
  BY <1>2, EnterJoins
<1>4. LinkedIn(next, next', Cells, a, n)
  BY <1>3 DEF Joins, LinkedIn
<1>5. /\ Shows(next', Cells \cup {n}, SeqExt!InsertAt(q, k + 1, n))
      /\ Len(SeqExt!InsertAt(q, k + 1, n)) = Len(q) + 1
  <2>1. k \in 0 .. Len(q) /\ n \notin Cells
    BY <1>1, <1>3
  <2>2. PICK r : r = SeqExt!InsertAt(q, k + 1, n)
    OBVIOUS
  <2>3. LinkedIn(next, next', Cells, Places(q)[k], n)
    BY <1>2, <1>4
  <2>4. Inserts(q, k, n, r)
    BY <2>2 DEF Inserts
  <2>5. Shows(next', Cells \cup {n}, r) /\ Len(r) = Len(q) + 1
    <3>1. PICK C : C = Cells
      OBVIOUS
    <3>2. PICK f : f = next
      OBVIOUS
    <3>3. PICK g : g = next'
      OBVIOUS
    <3>4. /\ Shows(f, C, q) /\ HEAD \in C /\ n \notin C /\ k \in 0 .. Len(q)
          /\ LinkedIn(f, g, C, Places(q)[k], n) /\ Inserts(q, k, n, r)
      BY <1>1, <2>1, <2>3, <2>4, <3>1, <3>2, <3>3
    <3>5. Shows(g, C \cup {n}, r) /\ Len(r) = Len(q) + 1
      BY <3>4, InsertShown
    <3> QED
      BY <3>1, <3>3, <3>5
  <2> QED
    BY <2>2, <2>5
<1>6. list_size' = Len(q) + 1
  BY <1>1 DEF Enter
<1> QED
  BY <1>3, <1>5, <1>6, ListedNext

LEMMA LeaveOrder ==
  ASSUME ListInv, InOrder, NEW q, q = ListContents, NEW k \in 1 .. list_size, Leave(q[k])
  PROVE  ListContents' = SeqExt!RemoveAt(q, k) /\ InOrder'
<1>1. /\ Shows(next, Cells, q) /\ Len(q) = list_size /\ HEAD \in Cells
      /\ list_size \in Nat
  BY SizeIsLen
<1>2. PICK n : n = q[k]
  OBVIOUS
<1>3. /\ Parts(next, prev, next', prev', Cells, n) /\ Cells' = Cells \ {n}
  BY <1>2, LeaveParts
<1>4. prev[n] = Places(q)[k - 1]
  <2>1. k - 1 \in 0 .. list_size /\ (k - 1) + 1 = k /\ Places(q)[k] = n
    BY <1>1, <1>2 DEF Places
  <2> QED
    BY <2>1, PlaceBefore
<1>5. LinkedPast(next, next', Cells, Places(q)[k - 1], n)
  BY <1>3, <1>4 DEF Parts, LinkedPast
<1>6. /\ Shows(next', Cells \ {n}, SeqExt!RemoveAt(q, k))
      /\ Len(SeqExt!RemoveAt(q, k)) = Len(q) - 1
  BY <1>1, <1>2, <1>5, RemoveShown
<1>7. list_size' = Len(q) - 1
  BY <1>1 DEF Leave
<1> QED
  BY <1>3, <1>6, <1>7, ListedNext

LEMMA TurnOrder ==
  ASSUME ListInv, InOrder, NEW q, q = ListContents, Reverse
  PROVE  ListContents' = SeqExt!Reverse(q) /\ InOrder'
<1>1. /\ Shows(next, Cells, q) /\ Len(q) = list_size /\ IsRing(next, prev, Cells)
  BY SizeIsLen
<1>2. /\ Shows(prev, Cells, SeqExt!Reverse(q))
      /\ Len(SeqExt!Reverse(q)) = Len(q)
  BY <1>1, TurnShown
<1>3. Cells' = Cells /\ list_size' = list_size /\ \A c \in Cells : next'[c] = prev[c]
  <2>1. Ring = Cells /\ linked \in SUBSET Node
    BY RingIsCells, RingParts DEF ListInv
  <2> QED
    BY <2>1 DEF Reverse, Cells, Cell
<1>4. Shows(next', Cells, SeqExt!Reverse(q))
  BY <1>2, <1>3 DEF Shows, Goes
<1> QED
  BY <1>1, <1>2, <1>3, <1>4, ListedNext

LEMMA ClearOrder ==
  ASSUME ListInv, Clear
  PROVE  ListContents' = <<>> /\ InOrder'
<1>1. next \in [Cell -> Cell \cup {NULL}]
  BY RingParts DEF ListInv
<1>2. Cells' = {HEAD} /\ list_size' = 0 /\ next'[HEAD] = HEAD
  BY <1>1 DEF Clear, Leaves, Cells, Cell
<1>3. Shows(next', {HEAD}, <<>>) /\ Len(<<>>) = 0
  <2>1. <<>> \in Seq({HEAD} \ {HEAD}) /\ Len(<<>>) = 0
    BY EmptySeq
  <2>2. PICK p : p = Places(<<>>)
    OBVIOUS
  <2>3. \A i \in Nat : p[i] = HEAD
    BY <2>1, <2>2 DEF Places
  <2>4. Goes(next', {HEAD}, 0, p)
    BY <1>2, <2>3 DEF Goes
  <2> QED
    BY <2>1, <2>2, <2>4 DEF Shows
<1> QED
  BY <1>2, <1>3, ListedNext

LEMMA SameOrder ==
  ASSUME ListInv, InOrder, UNCHANGED <<next, list_size, linked>>
  PROVE  ListContents' = ListContents /\ InOrder'
<1>1. PICK q : q = ListContents
  OBVIOUS
<1>2. /\ Shows(next, Cells, q) /\ Len(q) = list_size /\ Cells' = Cells
  BY <1>1, SizeIsLen DEF Cells
<1> QED
  BY <1>1, <1>2, ListedNext

\* Every call does to the sequence what its abstract counterpart does.
LEMMA OrderStep ==
  ASSUME ListInv, InOrder, [ListNext]_listVars
  PROVE  InOrder' /\ [ListAbstract!Next]_ListContents
<1>1. PICK q : q = ListContents
  OBVIOUS
<1>2. /\ Shows(next, Cells, q) /\ Len(q) = list_size /\ list_size \in Nat /\ HEAD \in Cells
      /\ linked = Cells \ {HEAD} /\ DOMAIN q = 1 .. list_size
  BY <1>1, SizeIsLen
<1>3. CASE \E n \in Node, pos \in Node :
             PushFront(n) \/ PushBack(n) \/ InsertBefore(pos, n) \/ InsertAfter(pos, n)
  <2>1. PICK n \in Node, a \in Cells : Enter(n, a)
    BY <1>3, InsertionsAre
  <2>2. PICK k \in 0 .. list_size : Places(q)[k] = a
    BY <1>2 DEF Shows, Goes
  <2>3. ListContents' = SeqExt!InsertAt(q, k + 1, n) /\ InOrder'
    BY <1>1, <2>1, <2>2, EnterOrder
  <2>4. n \notin ListAbstract!Range(q)
    <3>1. n \notin linked
      BY <2>1 DEF Enter
    <3>2. \A i \in 1 .. list_size : q[i] \in linked
      BY <1>1, SizeIsLen
    <3> QED
      BY <1>2, <3>1, <3>2 DEF ListAbstract!Range
  <2>5. /\ k + 1 \in 1 .. Len(q) + 1
        /\ ListAbstract!InsertAt(q, k + 1, n) = SeqExt!InsertAt(q, k + 1, n)
    BY <1>2 DEF ListAbstract!InsertAt, SeqExt!InsertAt
  <2>6. ListAbstract!Insert(n)
    BY <1>1, <2>3, <2>4, <2>5 DEF ListAbstract!Insert
  <2> QED
    BY <2>3, <2>6 DEF ListAbstract!Next
<1>4. CASE PopFront \/ PopBack \/ \E n \in Node : Remove(n)
  <2>1. PICK n \in Node : Leave(n)
    BY <1>4, RemovalsAre
  <2>2. PICK k \in 1 .. list_size : q[k] = n
    <3>1. n \in Cells \ {HEAD}
      BY <1>2, <2>1 DEF Leave
    <3> QED
      BY <1>2, <3>1, PlaceIn
  <2>3. ListContents' = SeqExt!RemoveAt(q, k) /\ InOrder'
    BY <1>1, <2>1, <2>2, LeaveOrder
  <2>4. k \in DOMAIN q /\ ListAbstract!RemoveAt(q, k) = SeqExt!RemoveAt(q, k)
    BY <1>2 DEF ListAbstract!RemoveAt, SeqExt!RemoveAt
  <2>5. ListAbstract!Delete
    BY <1>1, <2>3, <2>4 DEF ListAbstract!Delete
  <2> QED
    BY <2>3, <2>5 DEF ListAbstract!Next
<1>5. CASE Reverse
  <2>1. ListContents' = SeqExt!Reverse(q) /\ InOrder'
    BY <1>1, <1>5, TurnOrder
  <2>2. SeqExt!Reverse(q) = ListAbstract!Reverse(q)
    BY DEF SeqExt!Reverse, ListAbstract!Reverse
  <2> QED
    BY <1>1, <2>1, <2>2 DEF ListAbstract!Next, ListAbstract!Turn
<1>6. CASE Clear
  BY <1>6, ClearOrder DEF ListAbstract!Next, ListAbstract!Clear
<1>7. CASE \/ \E forward \in BOOLEAN : WalkBegin(forward)
           \/ WalkCall \/ WalkNext \/ WalkBreak \/ WalkEnd \/ UNCHANGED listVars
  <2>1. UNCHANGED <<next, list_size, linked>>
    BY <1>7 DEF WalkBegin, WalkCall, WalkNext, WalkBreak, WalkEnd, listVars
  <2> QED
    BY <2>1, SameOrder
<1> QED
  BY <1>3, <1>4, <1>5, <1>6, <1>7 DEF ListNext

LEMMA OrderInit == ListInit => InOrder /\ ListContents = <<>>
<1> SUFFICES ASSUME ListInit PROVE InOrder /\ ListContents = <<>>
  OBVIOUS
<1>1. Cells = {HEAD} /\ list_size = 0 /\ next[HEAD] = HEAD
  BY DEF ListInit, Cells, Cell
<1>2. ListContents = <<>>
  BY <1>1 DEF ListContents
<1>3. <<>> \in Seq(Cells \ {HEAD}) /\ Len(<<>>) = 0
  BY EmptySeq
<1>4. PICK p : p = Places(<<>>)
  OBVIOUS
<1>5. \A i \in Nat : p[i] = HEAD
  BY <1>3, <1>4 DEF Places
<1>6. Goes(next, Cells, 0, p)
  BY <1>1, <1>5 DEF Goes
<1> QED
  BY <1>2, <1>3, <1>4, <1>6 DEF InOrder, Shows

\* The list, whatever its callbacks may do, is a sequence of distinct nodes:
\* an insertion puts a node in somewhere and a removal takes one out, and
\* neither changes the order of the others, and a reversal turns it round.
THEOREM ListImplementsSequence == ListSpec => ImplementsSequence
<1>1. ListInit => InOrder /\ ListAbstract!Init
  BY OrderInit DEF ListAbstract!Init
<1>2. ListInv /\ InOrder /\ [ListNext]_listVars => InOrder' /\ [ListAbstract!Next]_ListContents
  BY OrderStep
<1> QED
  BY <1>1, <1>2, ListHolds, PTL DEF ListSpec, ImplementsSequence, ListAbstract!Spec

\* An insertion in front and one behind the last.
LEMMA InsertAtEnds ==
  ASSUME NEW S, NEW q \in Seq(S), NEW n
  PROVE  /\ SeqExt!InsertAt(q, 1, n) = <<n>> \o q
         /\ SeqExt!InsertAt(q, Len(q) + 1, n) = Append(q, n)
<1>1. PICK T : T = S \cup {n}
  OBVIOUS
<1>2. q \in Seq(T) /\ <<n>> \in Seq(T) /\ n \in T /\ Len(q) \in Nat
  BY <1>1, LenProperties, SeqDef
<1>3. ASSUME NEW s \in Seq(T), NEW t \in Seq(T), Len(s) = Len(t),
             \A i \in 1 .. Len(t) : s[i] = t[i]
      PROVE  s = t
  BY <1>3, SeqEqual
<1>4. SeqExt!InsertAt(q, 1, n) = <<n>> \o q
  <2>1. PICK s : s = SeqExt!InsertAt(q, 0 + 1, n)
    OBVIOUS
  <2>2. s \in Seq(T) /\ InsertedAt(q, 0, n, s)
    <3>1. 0 \in 0 .. Len(q) /\ Inserts(q, 0, n, s)
      BY <1>2, <2>1 DEF Inserts
    <3> QED
      BY <1>1, <3>1, InsertAtIs
  <2>3. PICK t : t = <<n>> \o q
    OBVIOUS
  <2>4. /\ t \in Seq(T) /\ Len(t) = 1 + Len(q)
        /\ \A i \in 1 .. 1 + Len(q) : t[i] = IF i <= 1 THEN n ELSE q[i - 1]
    BY <1>2, <2>3, ConcatProperties
  <2>5. Len(s) = Len(t) /\ \A i \in 1 .. Len(t) : s[i] = t[i]
    BY <1>2, <2>2, <2>4 DEF InsertedAt
  <2>6. s = t
    BY <1>3, <2>2, <2>4, <2>5
  <2> QED
    BY <2>1, <2>3, <2>6
<1>5. SeqExt!InsertAt(q, Len(q) + 1, n) = Append(q, n)
  <2>1. PICK s : s = SeqExt!InsertAt(q, Len(q) + 1, n)
    OBVIOUS
  <2>2. s \in Seq(T) /\ InsertedAt(q, Len(q), n, s)
    <3>1. Len(q) \in 0 .. Len(q) /\ Inserts(q, Len(q), n, s)
      BY <1>2, <2>1 DEF Inserts
    <3> QED
      BY <1>1, <3>1, InsertAtIs
  <2>3. PICK t : t = Append(q, n)
    OBVIOUS
  <2>4. /\ t \in Seq(T) /\ Len(t) = Len(q) + 1
        /\ \A i \in 1 .. Len(q) : t[i] = q[i]
        /\ t[Len(q) + 1] = n
    BY <1>2, <2>3, AppendProperties
  <2>5. Len(s) = Len(t) /\ \A i \in 1 .. Len(t) : s[i] = t[i]
    BY <1>2, <2>2, <2>4 DEF InsertedAt
  <2>6. s = t
    BY <1>3, <2>2, <2>4, <2>5
  <2> QED
    BY <2>1, <2>3, <2>6
<1> QED
  BY <1>4, <1>5

\* The end of the list where prev of the sentinel leads.
LEMMA LastPlace ==
  ASSUME ListInv, InOrder, NEW q, q = ListContents
  PROVE  /\ Places(q)[0] = HEAD /\ prev[HEAD] = Places(q)[list_size]
         /\ \A i \in 1 .. list_size : i \in Nat /\ Places(q)[i] = q[i]
         /\ \A i \in 1 .. list_size : i - 1 \in 0 .. list_size /\ prev[q[i]] = Places(q)[i - 1]
<1>1. /\ Shows(next, Cells, q) /\ Len(q) = list_size /\ list_size \in Nat
  BY SizeIsLen
<1>2. Places(q)[0] = HEAD /\ Places(q)[list_size + 1] = HEAD
  BY <1>1 DEF Places
<1>3. prev[HEAD] = Places(q)[list_size]
  <2>1. list_size \in 0 .. list_size
    BY <1>1
  <2> QED
    BY <1>2, <2>1, PlaceBefore
<1>4. \A i \in 1 .. list_size : i \in Nat /\ Places(q)[i] = q[i]
  BY <1>1 DEF Places
<1>5. ASSUME NEW i \in 1 .. list_size
      PROVE  i - 1 \in 0 .. list_size /\ prev[q[i]] = Places(q)[i - 1]
  <2>1. i - 1 \in 0 .. list_size /\ (i - 1) + 1 = i
    BY <1>1
  <2>2. prev[Places(q)[(i - 1) + 1]] = Places(q)[i - 1]
    BY <2>1, PlaceBefore
  <2> QED
    BY <1>4, <2>1, <2>2
<1> QED
  BY <1>2, <1>3, <1>4, <1>5

\* The call takes n in behind the place that k gives.
LEMMA InsertsWhere ==
  ASSUME ListInv, InOrder, NEW q, q = ListContents, NEW n \in Node
  PROVE  /\ PushFront(n) => ListContents' = <<n>> \o q
         /\ PushBack(n) => ListContents' = Append(q, n)
         /\ \A i \in 1 .. list_size :
              /\ InsertBefore(q[i], n) => ListContents' = SeqExt!InsertAt(q, i, n)
              /\ InsertAfter(q[i], n) => ListContents' = SeqExt!InsertAt(q, i + 1, n)
<1>1. /\ Shows(next, Cells, q) /\ Len(q) = list_size /\ list_size \in Nat /\ q \in Seq(Cells \ {HEAD})
      /\ HEAD \in Cells /\ IsRing(next, prev, Cells) /\ linked \subseteq Cells
  BY SizeIsLen DEF Shows, Cells
<1>2. ASSUME PushFront(n)
      PROVE  ListContents' = <<n>> \o q
  <2>1. Enter(n, HEAD)
    BY <1>1, <1>2 DEF PushFront, Enter
  <2>2. 0 \in 0 .. list_size /\ Places(q)[0] = HEAD
    BY <1>1, LastPlace
  <2>3. ListContents' = SeqExt!InsertAt(q, 0 + 1, n)
    BY <2>1, <2>2, EnterOrder
  <2> QED
    BY <1>1, <2>3, InsertAtEnds
<1>3. ASSUME PushBack(n)
      PROVE  ListContents' = Append(q, n)
  <2>1. prev[HEAD] \in Cells /\ next[prev[HEAD]] = HEAD
    BY <1>1 DEF IsRing
  <2>2. Enter(n, prev[HEAD])
    BY <1>3, <2>1 DEF PushBack, Enter
  <2>3. list_size \in 0 .. list_size /\ Places(q)[list_size] = prev[HEAD]
    BY <1>1, LastPlace
  <2>4. ListContents' = SeqExt!InsertAt(q, list_size + 1, n)
    BY <2>2, <2>3, EnterOrder
  <2> QED
    BY <1>1, <2>4, InsertAtEnds
<1>4. ASSUME NEW i \in 1 .. list_size, InsertBefore(q[i], n)
      PROVE  ListContents' = SeqExt!InsertAt(q, i, n)
  <2>1. prev[q[i]] \in Cells /\ next[prev[q[i]]] = q[i]
    BY <1>1, <1>4 DEF IsRing, InsertBefore
  <2>2. Enter(n, prev[q[i]])
    BY <1>4, <2>1 DEF InsertBefore, Enter
  <2>3. i - 1 \in 0 .. list_size /\ Places(q)[i - 1] = prev[q[i]] /\ (i - 1) + 1 = i
    BY <1>1, LastPlace
  <2>4. ListContents' = SeqExt!InsertAt(q, (i - 1) + 1, n)
    BY <2>2, <2>3, EnterOrder
  <2> QED
    BY <2>3, <2>4
<1>5. ASSUME NEW i \in 1 .. list_size, InsertAfter(q[i], n)
      PROVE  ListContents' = SeqExt!InsertAt(q, i + 1, n)
  <2>1. Enter(n, q[i])
    BY <1>1, <1>5 DEF InsertAfter, Enter
  <2>2. i \in 0 .. list_size /\ Places(q)[i] = q[i]
    BY <1>1, LastPlace
  <2> QED
    BY <2>1, <2>2, EnterOrder
<1> QED
  BY <1>2, <1>3, <1>4, <1>5

LEMMA RemovesWhere ==
  ASSUME ListInv, InOrder, NEW q, q = ListContents
  PROVE  /\ PopFront => ListContents' = SeqExt!RemoveAt(q, 1)
         /\ PopBack => ListContents' = SeqExt!RemoveAt(q, list_size)
         /\ \A i \in 1 .. list_size : Remove(q[i]) => ListContents' = SeqExt!RemoveAt(q, i)
<1>1. /\ Len(q) = list_size /\ list_size \in Nat /\ IsRing(next, prev, Cells)
  BY SizeIsLen
<1>2. ASSUME PopFront
      PROVE  ListContents' = SeqExt!RemoveAt(q, 1)
  <2>1. next[HEAD] \in linked /\ prev[next[HEAD]] = HEAD
    BY <1>1, <1>2, EndsLinked DEF PopFront, IsRing
  <2>2. Leave(next[HEAD])
    BY <1>2, <2>1 DEF PopFront, Leave
  <2>3. 0 \in 0 .. list_size /\ 1 \in 1 .. list_size /\ Places(q)[0] = HEAD
    BY <1>1, <1>2, LastPlace DEF PopFront, ListIsEmpty
  <2>4. next[HEAD] = q[1]
    <3>1. next[Places(q)[0]] = Places(q)[0 + 1]
      BY <2>3, PlaceBefore
    <3>2. Places(q)[1] = q[1]
      BY <2>3, LastPlace
    <3> QED
      BY <2>3, <3>1, <3>2
  <2> QED
    BY <2>2, <2>3, <2>4, LeaveOrder
<1>3. ASSUME PopBack
      PROVE  ListContents' = SeqExt!RemoveAt(q, list_size)
  <2>1. prev[HEAD] \in linked /\ next[prev[HEAD]] = HEAD
    BY <1>1, <1>3, EndsLinked DEF PopBack, IsRing
  <2>2. Leave(prev[HEAD])
    BY <1>3, <2>1 DEF PopBack, Leave
  <2>3. list_size \in 1 .. list_size
    BY <1>1, <1>3 DEF PopBack, ListIsEmpty
  <2>4. prev[HEAD] = q[list_size]
    BY <2>3, LastPlace
  <2> QED
    BY <2>2, <2>3, <2>4, LeaveOrder
<1>4. ASSUME NEW i \in 1 .. list_size, Remove(q[i])
      PROVE  ListContents' = SeqExt!RemoveAt(q, i)
  <2>1. Leave(q[i])
    BY <1>4 DEF Remove, Leave
  <2> QED
    BY <2>1, LeaveOrder
<1> QED
  BY <1>2, <1>3, <1>4

\* An insertion puts its node in where it was asked to, at an end or next to the
\* position given, and a removal takes out the node it was asked to, in whatever
\* place that is; every other node keeps its place among the others.
THEOREM CallsActWhereAsked == ListSpec => ActsWhereAsked
<1>1. ListInit => InOrder
  BY OrderInit
<1>2. ListInv /\ InOrder /\ [ListNext]_listVars => InOrder'
  BY OrderStep
<1>3. ASSUME ListInv, InOrder
      PROVE  /\ PopFront => ListContents' = SeqExt!RemoveAt(ListContents, 1)
             /\ PopBack => ListContents' = SeqExt!RemoveAt(ListContents, list_size)
             /\ \A i \in DOMAIN ListContents :
                  Remove(ListContents[i]) => ListContents' = SeqExt!RemoveAt(ListContents, i)
             /\ \A n \in Node :
                  /\ PushFront(n) => ListContents' = <<n>> \o ListContents
                  /\ PushBack(n) => ListContents' = Append(ListContents, n)
                  /\ \A i \in DOMAIN ListContents :
                       /\ InsertBefore(ListContents[i], n) =>
                            ListContents' = SeqExt!InsertAt(ListContents, i, n)
                       /\ InsertAfter(ListContents[i], n) =>
                            ListContents' = SeqExt!InsertAt(ListContents, i + 1, n)
  <2>1. PICK q : q = ListContents
    OBVIOUS
  <2>2. DOMAIN q = 1 .. list_size
    BY <1>3, <2>1, SizeIsLen
  <2> QED
    BY <1>3, <2>1, <2>2, InsertsWhere, RemovesWhere
<1> QED
  BY <1>1, <1>2, <1>3, ListHolds, PTL DEF ListSpec, ActsWhereAsked

=============================================================================
