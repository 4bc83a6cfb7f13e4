-------------------------------- MODULE DsList --------------------------------
(***************************************************************************)
(* The intrusive doubly linked list of src/src/ds_linkedlist.c: a ring of  *)
(* prev and next pointers through a sentinel.                              *)
(*                                                                         *)
(* A call is one step, except ds_list_foreach and ds_list_foreach_reverse: *)
(* they hold a node while its callback runs, and the callback may change   *)
(* the list.  The library cannot tell whether a node is in a list, so that *)
(* is the caller's obligation: an insertion gets a node that is not, a     *)
(* removal and a position one that is (history: linked).  data is never    *)
(* read by the list and is left out.                                       *)
(***************************************************************************)
EXTENDS Integers, Sequences, FiniteSets

CONSTANTS
  Node,        \* the ds_list_node_t of the application
  HEAD,        \* &list->head
  NULL,        \* a link that was never written
  CallbackMay  \* what foreach callbacks do: subset of Permissions

Permissions ==
  {"insert",   \* put further nodes in
   "remove",   \* take out nodes other than their own
   "self",     \* take out their own node
   "after",    \* go on changing the list when their own node is out
   "clear", "reverse"}

ASSUME NodeAssumption == HEAD \notin Node /\ NULL \notin Node /\ HEAD # NULL
ASSUME FiniteAssumption == IsFiniteSet(Node)
ASSUME CallbackAssumption == CallbackMay \subseteq Permissions

VARIABLES
  prev, next,  \* the links of every node and of the sentinel
  list_size,   \* list->size
  linked,      \* history: the nodes put in and not taken out since
  walk         \* the foreach in progress

listVars == <<prev, next, list_size, linked, walk>>

-----------------------------------------------------------------------------
Cell == Node \cup {HEAD}

\* owed and seen are history: nodes linked ever since the walk began and yet
\* to be visited, and nodes visited and linked ever since.
NoWalk == [on |-> FALSE, forward |-> TRUE, node |-> HEAD, calling |-> FALSE,
           owed |-> {}, seen |-> {}]

ListInit ==
  /\ prev = [c \in Cell |-> IF c = HEAD THEN HEAD ELSE NULL]
  /\ next = prev
  /\ list_size = 0
  /\ linked = {}
  /\ walk = NoWalk

\* The application between calls, or the callback that is running.
ListMay(op) ==
  \/ ~walk.on
  \/ /\ walk.calling /\ op \in CallbackMay
     /\ walk.node \in linked \/ "after" \in CallbackMay

MayRemove(n) == ListMay(IF n = walk.node THEN "self" ELSE "remove")

\* History: what insertions and removals do.
Enters(n) == linked' = linked \cup {n} /\ UNCHANGED walk
Leaves(ns) ==
  /\ linked' = linked \ ns
  /\ walk' = [walk EXCEPT !.owed = @ \ ns, !.seen = @ \ ns]

ListIsEmpty == list_size = 0

-----------------------------------------------------------------------------
(* ds_list_push_front, _push_back, _insert_before, _insert_after           *)

PushFront(n) ==
  /\ ListMay("insert") /\ n \notin linked
  /\ next' = [next EXCEPT ![n] = next[HEAD], ![HEAD] = n]
  /\ prev' = [prev EXCEPT ![n] = HEAD, ![next[HEAD]] = n]
  /\ list_size' = list_size + 1
  /\ Enters(n)

\* Mutant: the old last node is not made to point at the new one.
PushBackOneWay(n) ==
  /\ ListMay("insert") /\ n \notin linked
  /\ prev' = [prev EXCEPT ![n] = prev[HEAD], ![HEAD] = n]
  /\ next' = [next EXCEPT ![n] = HEAD]
  /\ list_size' = list_size + 1
  /\ Enters(n)

PushBack(n) ==
  /\ ListMay("insert") /\ n \notin linked
  /\ prev' = [prev EXCEPT ![n] = prev[HEAD], ![HEAD] = n]
  /\ next' = [next EXCEPT ![n] = HEAD, ![prev[HEAD]] = n]
  /\ list_size' = list_size + 1
  /\ Enters(n)

InsertBefore(pos, n) ==
  /\ ListMay("insert") /\ n \notin linked /\ pos \in linked
  /\ prev' = [prev EXCEPT ![n] = prev[pos], ![pos] = n]
  /\ next' = [next EXCEPT ![n] = pos, ![prev[pos]] = n]
  /\ list_size' = list_size + 1
  /\ Enters(n)

\* Mutant: the node lands on the other side of the position.
InsertAfterBefore(pos, n) == InsertBefore(pos, n)

InsertAfter(pos, n) ==
  /\ ListMay("insert") /\ n \notin linked /\ pos \in linked
  /\ next' = [next EXCEPT ![n] = next[pos], ![pos] = n]
  /\ prev' = [prev EXCEPT ![n] = pos, ![next[pos]] = n]
  /\ list_size' = list_size + 1
  /\ Enters(n)

-----------------------------------------------------------------------------
(* ds_list_pop_front, _pop_back, _remove, _clear                           *)
(* The node that leaves keeps its own links.                               *)

PopFront ==
  LET n == next[HEAD]
  IN /\ ~ListIsEmpty /\ MayRemove(n)
     /\ prev' = [prev EXCEPT ![next[n]] = HEAD]
     /\ next' = [next EXCEPT ![HEAD] = next[n]]
     /\ list_size' = list_size - 1
     /\ Leaves({n})

PopBack ==
  LET n == prev[HEAD]
  IN /\ ~ListIsEmpty /\ MayRemove(n)
     /\ next' = [next EXCEPT ![prev[n]] = HEAD]
     /\ prev' = [prev EXCEPT ![HEAD] = prev[n]]
     /\ list_size' = list_size - 1
     /\ Leaves({n})

\* Mutant: the links of the removed node are cleared, as many lists do.
RemoveReset(n) ==
  /\ MayRemove(n) /\ n \in linked
  /\ next' = [next EXCEPT ![prev[n]] = next[n], ![n] = HEAD]
  /\ prev' = [prev EXCEPT ![next[n]] = prev[n], ![n] = HEAD]
  /\ list_size' = list_size - 1
  /\ Leaves({n})

\* Mutant: the removed node is made a ring of its own, as many lists do.
RemoveSelfLinked(n) ==
  /\ MayRemove(n) /\ n \in linked
  /\ next' = [next EXCEPT ![prev[n]] = next[n], ![n] = n]
  /\ prev' = [prev EXCEPT ![next[n]] = prev[n], ![n] = n]
  /\ list_size' = list_size - 1
  /\ Leaves({n})

Remove(n) ==
  /\ MayRemove(n) /\ n \in linked
  /\ next' = [next EXCEPT ![prev[n]] = next[n]]
  /\ prev' = [prev EXCEPT ![next[n]] = prev[n]]
  /\ list_size' = list_size - 1
  /\ Leaves({n})

Clear ==
  /\ ListMay("clear")
  /\ prev' = [prev EXCEPT ![HEAD] = HEAD]
  /\ next' = [next EXCEPT ![HEAD] = HEAD]
  /\ list_size' = 0
  /\ Leaves(linked)

-----------------------------------------------------------------------------
(* ds_list_at, ds_list_reverse                                             *)

\* Where i steps from the front lead.
At[i \in Nat] == IF i = 0 THEN next[HEAD] ELSE next[At[i - 1]]

ClosedUnder(link, S) == HEAD \in S /\ \A c \in S : link[c] \in S

\* The cells that the loop of reverse visits on its way back to the head.
Ring == {c \in Cell : \A S \in SUBSET Cell : ClosedUnder(next, S) => c \in S}

\* Mutant: the loop starts behind the head, whose links are forgotten.
ReverseNodes ==
  /\ ListMay("reverse") /\ list_size > 1
  /\ next' = [c \in Cell |-> IF c \in Ring \ {HEAD} THEN prev[c] ELSE next[c]]
  /\ prev' = [c \in Cell |-> IF c \in Ring \ {HEAD} THEN next[c] ELSE prev[c]]
  /\ UNCHANGED <<list_size, linked, walk>>

Reverse ==
  /\ ListMay("reverse") /\ list_size > 1
  /\ next' = [c \in Cell |-> IF c \in Ring THEN prev[c] ELSE next[c]]
  /\ prev' = [c \in Cell |-> IF c \in Ring THEN next[c] ELSE prev[c]]
  /\ UNCHANGED <<list_size, linked, walk>>

-----------------------------------------------------------------------------
(* ds_list_foreach and ds_list_foreach_reverse                             *)

Follow(forward, c) == IF forward THEN next[c] ELSE prev[c]

WalkBegin(forward) ==
  /\ ~walk.on
  /\ walk' = [on |-> TRUE, forward |-> forward, node |-> Follow(forward, HEAD),
              calling |-> FALSE, owed |-> linked, seen |-> {}]
  /\ UNCHANGED <<prev, next, list_size, linked>>

WalkCall ==
  /\ walk.on /\ ~walk.calling /\ walk.node # HEAD
  /\ walk' = [walk EXCEPT !.calling = TRUE, !.owed = @ \ {walk.node},
                          !.seen = @ \cup {walk.node}]
  /\ UNCHANGED <<prev, next, list_size, linked>>

\* The callback returns 0: the next node is looked up only now.
WalkNext ==
  /\ walk.calling
  /\ walk' = [walk EXCEPT !.calling = FALSE,
                          !.node = Follow(walk.forward, walk.node)]
  /\ UNCHANGED <<prev, next, list_size, linked>>

\* The callback returns something else.
WalkBreak ==
  /\ walk.calling
  /\ walk' = NoWalk
  /\ UNCHANGED <<prev, next, list_size, linked>>

WalkEnd ==
  /\ walk.on /\ ~walk.calling /\ walk.node = HEAD
  /\ walk' = NoWalk
  /\ UNCHANGED <<prev, next, list_size, linked>>

ListNext ==
  \/ \E n \in Node :
       \/ PushFront(n) \/ PushBack(n) \/ Remove(n)
       \/ \E pos \in Node : InsertBefore(pos, n) \/ InsertAfter(pos, n)
  \/ PopFront \/ PopBack \/ Clear \/ Reverse
  \/ \E forward \in BOOLEAN : WalkBegin(forward)
  \/ WalkCall \/ WalkNext \/ WalkBreak \/ WalkEnd

ListSpec == ListInit /\ [][ListNext]_listVars

\* The loop of foreach runs on, and its callbacks return.
ListFairness ==
  /\ WF_listVars(WalkCall)
  /\ WF_listVars(WalkNext \/ WalkBreak)
  /\ WF_listVars(WalkEnd)

FairListSpec == ListSpec /\ ListFairness

-----------------------------------------------------------------------------
(* Properties                                                              *)

\* Type invariant of the links, the counter and the walk.
ListTypeOK ==
  /\ prev \in [Cell -> Cell \cup {NULL}] /\ next \in [Cell -> Cell \cup {NULL}]
  /\ list_size \in 0 .. Cardinality(Node)
  /\ linked \subseteq Node
  /\ walk \in [on : BOOLEAN, forward : BOOLEAN, node : Cell, calling : BOOLEAN,
               owed : SUBSET Node, seen : SUBSET Node]

Mutual(c) == next[prev[c]] = c /\ prev[next[c]] = c

\* The ring is whole, whatever the order of the calls: prev and next are
\* inverse to each other on it, it passes through the nodes put in and not
\* taken out and through no other, in both directions, and size counts them.
RingIntact ==
  LET cells == linked \cup {HEAD}
  IN /\ ListTypeOK
     /\ \A c \in cells : next[c] \in cells /\ prev[c] \in cells /\ Mutual(c)
     /\ \A S \in SUBSET cells :
          ClosedUnder(next, S) \/ ClosedUnder(prev, S) => S = cells
     /\ list_size = Cardinality(linked)

SeqExt == INSTANCE SequencesExt

ListContents == [i \in 1 .. list_size |-> At[i - 1]]

ListAbstract == INSTANCE NodeSequence WITH list <- ListContents

\* What ds_list_at shows is a sequence: an insertion and a removal leave the
\* order of the other nodes alone, reverse turns it round.
ImplementsSequence == ListAbstract!Spec

\* An insertion lands where it was asked to, at an end or next to the position
\* given, and a removal takes the end it was asked to or the node it was given,
\* wherever that is.
ActsWhereAsked ==
  [][/\ PopFront => ListContents' = SeqExt!RemoveAt(ListContents, 1)
     /\ PopBack => ListContents' = SeqExt!RemoveAt(ListContents, list_size)
     /\ \A i \in DOMAIN ListContents :
          Remove(ListContents[i]) => ListContents' = SeqExt!RemoveAt(ListContents, i)
     /\ \A n \in Node :
          /\ PushFront(n) => ListContents' = <<n>> \o ListContents
          /\ PushBack(n) => ListContents' = Append(ListContents, n)
          /\ \A i \in DOMAIN ListContents :
               /\ InsertBefore(ListContents[i], n)
                    => ListContents' = SeqExt!InsertAt(ListContents, i, n)
               /\ InsertAfter(ListContents[i], n)
                    => ListContents' = SeqExt!InsertAt(ListContents, i + 1, n)
    ]_listVars

\* A walk calls back for nodes of the list only, for none twice, and has none
\* left when it comes back to the head, whatever callbacks inserted and removed.
WalkVisitsEachOnce ==
  [][/\ WalkCall => walk.node \in linked /\ walk.node \notin walk.seen
     /\ WalkEnd => walk.owed = {}]_listVars

\* ds_list_foreach returns, whatever its callbacks take out and put in, their own
\* nodes among them, unless nodes are put in for ever.
WalkReturns == <>[][linked' \subseteq linked]_listVars => (walk.on ~> ~walk.on)
=============================================================================
