------------------------------ MODULE Dictionary ------------------------------
(***************************************************************************)
(* What a map from keys to values promises its users: the abstract         *)
(* specification that DsHashMap implements.  A put of a new key may be     *)
(* refused; nothing else may fail, and no call loses or alters what other  *)
(* calls stored.                                                           *)
(***************************************************************************)
EXTENDS Functions

CONSTANTS Keys, LongKeys, Values, NULL

VARIABLES
  dict,   \* the pairs stored: a function on the keys present
  reply   \* the result of the last call

vars == <<dict, reply>>

NoPairs == [k \in {} |-> NULL]

Init == dict = NoPairs /\ reply = "OK"

Present == DOMAIN dict

Put(k, v) ==
  /\ k \notin LongKeys
  /\ dict' = [x \in Present \cup {k} |-> IF x = k THEN v ELSE dict[x]]
  /\ reply' = "OK"

Refuse(k) ==
  /\ k \notin Present
  /\ reply' = IF k \in LongKeys THEN "NOMEM" ELSE "FULL"
  /\ UNCHANGED dict

Get(k) ==
  /\ reply' = IF k \in Present THEN dict[k] ELSE NULL
  /\ UNCHANGED dict

Remove(k) ==
  /\ dict' = Restrict(dict, Present \ {k})
  /\ reply' = IF k \in Present THEN "OK" ELSE "NOTFOUND"

Clear == dict' = NoPairs /\ reply' = "OK"

Next ==
  \/ \E k \in Keys : Refuse(k) \/ Get(k) \/ Remove(k) \/ \E v \in Values : Put(k, v)
  \/ Clear

Spec == Init /\ [][Next]_vars
=============================================================================
