------------------------------ MODULE DsHashMap ------------------------------
(***************************************************************************)
(* The open-addressing hash map of src/src/ds_hashmap.c: quadratic         *)
(* probing, and deleted slots that stay in the probe sequences.            *)
(*                                                                         *)
(* Keys are values with a hash each (ds_hash_djb2 is the constant Hash),   *)
(* a probe loop is one step, and ds_hashmap_foreach is one step for each   *)
(* slot, because its callback may call the map again.                      *)
(***************************************************************************)
EXTENDS Integers, FiniteSets, Functions

CONSTANTS
  Capacity,    \* map->capacity
  Word,        \* the range of uint32_t: 2^32 in the code
  Keys,        \* key strings in use
  LongKeys,    \* those of DS_HM_MAX_KEY_LEN characters or more
  Values,      \* value pointers, NULL among them if the application stores it
  NULL,
  Hash,        \* ds_hash_djb2
  CallbackMay  \* what foreach callbacks do: subset of {"put", "remove", "clear"}

\* capacity is a uint32_t and ds_hashmap_init refuses 0.
ASSUME CapacityAssumption == Capacity \in Nat \ {0} /\ Word \in Nat /\ Capacity < Word
ASSUME KeyAssumption == LongKeys \subseteq Keys /\ Hash \in [Keys -> 0 .. Word - 1]
ASSUME CallbackAssumption == CallbackMay \subseteq {"put", "remove", "clear"}

VARIABLES
  entries,        \* one ds_hm_entry_t per slot
  size,           \* map->size
  deleted_count,  \* map->deleted_count
  reply,          \* what the last call returned
  walk            \* the ds_hashmap_foreach in progress

vars == <<entries, size, deleted_count, reply, walk>>

-----------------------------------------------------------------------------
Slot == 0 .. Capacity - 1
DS_HM_SLOT_EMPTY == Word - 1
DS_HM_SLOT_DELETED == Word - 2
NoKey == NULL   \* the empty string in a slot without a key

Entry == [hash : 0 .. Word - 1, key : Keys \cup {NoKey}, value : Values \cup {NULL}]

IsEmpty(s) == entries[s].hash = DS_HM_SLOT_EMPTY
IsDeleted(s) == entries[s].hash = DS_HM_SLOT_DELETED
IsOccupied(s) == ~IsEmpty(s) /\ ~IsDeleted(s)
Occupied == {s \in Slot : IsOccupied(s)}

Mark(hash) == [hash |-> hash, key |-> NoKey, value |-> NULL]
MarkEmpty == Mark(DS_HM_SLOT_EMPTY)
MarkDeleted == Mark(DS_HM_SLOT_DELETED)

\* owed and seen are history: keys present ever since the walk began, and
\* yet to be visited or visited already.
NoWalk == [on |-> FALSE, slot |-> 0, calling |-> FALSE, owed |-> {}, seen |-> {}]

Init ==
  /\ entries = [s \in Slot |-> MarkEmpty]
  /\ size = 0
  /\ deleted_count = 0
  /\ reply = "OK"
  /\ walk = NoWalk

\* The application between calls, or the callback that is running.
May(op) == ~walk.on \/ (walk.on /\ walk.calling /\ op \in CallbackMay)

-----------------------------------------------------------------------------
(* The probe loop that put, get and remove share.                          *)

Probes == 0 .. Capacity - 1
Probe(k, i) == ((Hash[k] + i * i) % Word) % Capacity

Hit(k, i) ==
  LET e == entries[Probe(k, i)]
  IN IsOccupied(Probe(k, i)) /\ e.hash = Hash[k] /\ e.key = k

\* The loop for k ends at probe i: at an empty slot or at k itself.
Ends(k, i) == IsEmpty(Probe(k, i)) \/ Hit(k, i)
StopsAt(k, i) == Ends(k, i) /\ \A j \in 0 .. i - 1 : ~Ends(k, j)
Finds(k, i) == StopsAt(k, i) /\ Hit(k, i)
Absent(k) == \A i \in Probes : ~Finds(k, i)

\* first_deleted is the slot of probe j, met before the loop ends.
FirstDeleted(k, j) ==
  /\ IsDeleted(Probe(k, j))
  /\ \A i \in 0 .. j : ~Ends(k, i)
  /\ \A i \in 0 .. j - 1 : ~IsDeleted(Probe(k, i))
NoDeleted(k) == \A j \in Probes : ~FirstDeleted(k, j)

-----------------------------------------------------------------------------
(* ds_hashmap_put, _get, _remove, _clear                                   *)

\* History: the key is gone, however it comes back.
Forget(ks) == walk' = [walk EXCEPT !.owed = @ \ ks, !.seen = @ \ ks]

Fill(k, v, s) ==
  /\ entries' = [entries EXCEPT ![s] = [hash |-> Hash[k], key |-> k, value |-> v]]
  /\ size' = (size + 1) % Word
  /\ reply' = "OK"
  /\ UNCHANGED walk

PutTooLong(k) ==
  /\ May("put") /\ k \in LongKeys
  /\ reply' = "NOMEM"
  /\ UNCHANGED <<entries, size, deleted_count, walk>>

\* Mutant: an update moves the pair to the first deleted slot, to shorten
\* later probes.
PutUpdateMoves(k, v) ==
  /\ May("put") /\ k \notin LongKeys
  /\ \E i \in Probes :
       /\ Finds(k, i)
       /\ LET s == IF NoDeleted(k) THEN Probe(k, i)
                   ELSE Probe(k, CHOOSE j \in Probes : FirstDeleted(k, j))
          IN entries' = [entries EXCEPT
               ![Probe(k, i)] = IF s = Probe(k, i) THEN @ ELSE MarkDeleted,
               ![s] = [hash |-> Hash[k], key |-> k, value |-> v]]
  /\ reply' = "OK"
  /\ UNCHANGED <<size, deleted_count, walk>>

PutUpdate(k, v) ==
  /\ May("put") /\ k \notin LongKeys
  /\ \E i \in Probes :
       /\ Finds(k, i)
       /\ entries' = [entries EXCEPT ![Probe(k, i)].value = v]
  /\ reply' = "OK"
  /\ UNCHANGED <<size, deleted_count, walk>>

\* At an empty slot, none deleted on the way.
PutEmpty(k, v) ==
  /\ May("put") /\ k \notin LongKeys
  /\ NoDeleted(k)
  /\ \E i \in Probes : StopsAt(k, i) /\ ~Hit(k, i) /\ Fill(k, v, Probe(k, i))
  /\ UNCHANGED deleted_count

\* Mutant: the first deleted slot is taken without looking further for k.
PutDeletedAtOnce(k, v) ==
  /\ May("put") /\ k \notin LongKeys
  /\ \E j \in Probes : FirstDeleted(k, j) /\ Fill(k, v, Probe(k, j))
  /\ deleted_count' = (deleted_count - 1) % Word

\* Mutant: deleted_count is not kept.
PutDeletedNoCount(k, v) ==
  /\ May("put") /\ k \notin LongKeys
  /\ Absent(k)
  /\ \E j \in Probes : FirstDeleted(k, j) /\ Fill(k, v, Probe(k, j))
  /\ UNCHANGED deleted_count

\* In the first deleted slot, whether an empty one was found or none.
PutDeleted(k, v) ==
  /\ May("put") /\ k \notin LongKeys
  /\ Absent(k)
  /\ \E j \in Probes : FirstDeleted(k, j) /\ Fill(k, v, Probe(k, j))
  /\ deleted_count' = (deleted_count - 1) % Word

PutFull(k) ==
  /\ May("put") /\ k \notin LongKeys
  /\ \A i \in Probes : ~Ends(k, i)
  /\ NoDeleted(k)
  /\ reply' = "FULL"
  /\ UNCHANGED <<entries, size, deleted_count, walk>>

Get(k) ==
  /\ ~walk.on
  /\ \/ \E i \in Probes : Finds(k, i) /\ reply' = entries[Probe(k, i)].value
     \/ Absent(k) /\ reply' = NULL
  /\ UNCHANGED <<entries, size, deleted_count, walk>>

\* Mutant: the slot is marked empty, which cuts the probe sequences through it.
RemoveMarksEmpty(k) ==
  /\ May("remove")
  /\ \E i \in Probes :
       /\ Finds(k, i)
       /\ entries' = [entries EXCEPT ![Probe(k, i)] = MarkEmpty]
  /\ size' = (size - 1) % Word
  /\ deleted_count' = deleted_count
  /\ reply' = "OK"
  /\ Forget({k})

Remove(k) ==
  /\ May("remove")
  /\ \E i \in Probes :
       /\ Finds(k, i)
       /\ entries' = [entries EXCEPT ![Probe(k, i)] = MarkDeleted]
  /\ size' = (size - 1) % Word
  /\ deleted_count' = (deleted_count + 1) % Word
  /\ reply' = "OK"
  /\ Forget({k})

RemoveMissing(k) ==
  /\ May("remove") /\ Absent(k)
  /\ reply' = "NOTFOUND"
  /\ UNCHANGED <<entries, size, deleted_count, walk>>

Clear ==
  /\ May("clear")
  /\ entries' = [s \in Slot |-> MarkEmpty]
  /\ size' = 0
  /\ deleted_count' = 0
  /\ reply' = "OK"
  /\ Forget(Keys)

-----------------------------------------------------------------------------
(* ds_hashmap_foreach                                                      *)

WalkBegin ==
  /\ ~walk.on
  /\ walk' = [NoWalk EXCEPT !.on = TRUE,
                            !.owed = {entries[s].key : s \in Occupied}]
  /\ UNCHANGED <<entries, size, deleted_count, reply>>

WalkSlot ==
  /\ walk.on /\ ~walk.calling /\ walk.slot < Capacity
  /\ LET k == entries[walk.slot].key
     IN walk' = IF IsOccupied(walk.slot)
                THEN [walk EXCEPT !.calling = TRUE, !.owed = @ \ {k},
                                  !.seen = @ \cup {k}]
                ELSE [walk EXCEPT !.slot = @ + 1]
  /\ UNCHANGED <<entries, size, deleted_count, reply>>

\* The callback returns 0 to go on, anything else to stop.
CallbackReturn ==
  /\ walk.on /\ walk.calling
  /\ \/ walk' = [walk EXCEPT !.slot = @ + 1, !.calling = FALSE]
     \/ walk' = NoWalk
  /\ UNCHANGED <<entries, size, deleted_count, reply>>

WalkEnd ==
  /\ walk.on /\ ~walk.calling /\ walk.slot = Capacity
  /\ walk' = NoWalk
  /\ UNCHANGED <<entries, size, deleted_count, reply>>

Put(k, v) ==
  \/ PutTooLong(k) \/ PutUpdate(k, v) \/ PutEmpty(k, v) \/ PutDeleted(k, v)
  \/ PutFull(k)

Next ==
  \/ \E k \in Keys :
       \/ \E v \in Values : Put(k, v)
       \/ Get(k) \/ Remove(k) \/ RemoveMissing(k)
  \/ Clear
  \/ WalkBegin \/ WalkSlot \/ CallbackReturn \/ WalkEnd

Spec == Init /\ [][Next]_vars

-----------------------------------------------------------------------------
(* Properties                                                              *)

\* Type invariant of the table, the counters and the walk.
TypeOK ==
  /\ entries \in [Slot -> Entry]
  /\ size \in 0 .. Capacity /\ deleted_count \in 0 .. Capacity
  /\ reply \in {"OK", "NOMEM", "FULL", "NOTFOUND", NULL} \cup Values
  /\ walk \in [on : BOOLEAN, slot : 0 .. Capacity, calling : BOOLEAN,
               owed : SUBSET Keys, seen : SUBSET Keys]

\* ds_hashmap_size is the number of pairs stored, and deleted_count that of
\* the deleted slots: neither counter drifts or wraps below 0.
CountersMatch ==
  /\ size = Cardinality(Occupied)
  /\ deleted_count = Cardinality({s \in Slot : IsDeleted(s)})

\* A lookup for the key in a slot ends at that slot: no empty slot cuts its
\* probe sequence, and no second copy of the key comes earlier in it.
Reachable ==
  \A s \in Occupied :
    \E i \in Probes : Finds(entries[s].key, i) /\ Probe(entries[s].key, i) = s

\* The pairs in the table, as a function.
Pairs ==
  [k \in {entries[s].key : s \in Occupied} |->
     entries[CHOOSE s \in Occupied : entries[s].key = k].value]

Dict == INSTANCE Dictionary WITH dict <- Pairs

\* Every call does and returns what it does on a plain map, whatever hashes
\* collide and whatever was deleted before.
ImplementsDictionary == Dict!Spec

\* A walk visits every key that stays in the map, unless it is stopped, and none
\* of them a second time, whatever its callback puts, removes and clears.
ForeachVisitsEachOnce ==
  [][/\ walk.on /\ ~walk.calling /\ walk'.calling
          => entries[walk.slot].key \notin walk.seen
     /\ WalkEnd => walk.owed = {}]_vars

\* "DS_ERR_FULL: the table is full" (ds_hashmap.h).
FullMeansFull == reply = "FULL" => size = Capacity
=============================================================================
