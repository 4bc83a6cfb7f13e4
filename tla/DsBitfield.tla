------------------------------ MODULE DsBitfield ------------------------------
(***************************************************************************)
(* The bit field of src/src/ds_bitfield.c: num_bits bits in an array of    *)
(* words.  The last word may have bits past num_bits; ds_bitfield_set_all  *)
(* sets them, ds_bitfield_init leaves whatever the array held, and every   *)
(* query has to get past them.                                             *)
(*                                                                         *)
(* A word is the set of its bits that are 1, so that popcount32 is         *)
(* Cardinality and ctz32 the least element.                                *)
(***************************************************************************)
EXTENDS Integers, FiniteSetsExt

CONSTANTS
  W,       \* bits of a word: 32 in the code
  NumBits  \* bf->num_bits

\* What ds_bitfield_init asks for, and a word of at least one bit.
WordAssumption == W \in Nat \ {0}
SizeAssumption == NumBits \in Nat \ {0}

VARIABLES
  words,  \* bf->words
  reply   \* the last query and what it returned

vars == <<words, reply>>

-----------------------------------------------------------------------------
Bit == 0 .. NumBits - 1
Word == 0 .. W - 1                    \* the bits of one word
NumWords == (NumBits + W - 1) \div W  \* bf->num_words
Index == 0 .. NumWords - 1

\* The storage is the application's: init does not clear it.
Init ==
  /\ words \in [Index -> SUBSET Word]
  /\ reply = <<"none", 0>>

Change(i, word) == words' = [words EXCEPT ![i] = word] /\ UNCHANGED reply
Return(query, n) == reply' = <<query, n>> /\ UNCHANGED words

-----------------------------------------------------------------------------
(* ds_bitfield_set, _clear, _toggle, _clear_all, _set_all, _test           *)

SetBit(b) == Change(b \div W, words[b \div W] \cup {b % W})
ClearBit(b) == Change(b \div W, words[b \div W] \ {b % W})

Toggle(b) ==
  LET word == words[b \div W]
  IN Change(b \div W, (word \ {b % W}) \cup ({b % W} \ word))

ClearAll == words' = [i \in Index |-> {}] /\ UNCHANGED reply
SetAll == words' = [i \in Index |-> Word] /\ UNCHANGED reply

Test(b) == Return("test", IF b % W \in words[b \div W] THEN 1 ELSE 0)

-----------------------------------------------------------------------------
(* ds_bitfield_find_first_set, ds_bitfield_find_first_clear                *)

\* The loop over the words w ends at the first that has a bit.  One past the
\* end can only be in the last word, and is refused.
First(w) ==
  LET found == {i \in Index : w[i] # {}}
      result == Min(found) * W + Min(w[Min(found)])
  IN IF found = {} \/ result >= NumBits THEN -1 ELSE result

FindFirstSet == Return("first_set", First(words))
FindFirstClear == Return("first_clear", First([i \in Index |-> Word \ words[i]]))

-----------------------------------------------------------------------------
(* ds_bitfield_count                                                       *)

\* What popcount32 finds in all the words.
Ones(w) == Cardinality({p \in Index \X Word : p[2] \in w[p[1]]})

\* The bits of the last word that the field uses, if it does not use all.
LastBits == NumBits % W
Last == words[NumWords - 1]

\* Mutant: the bits past num_bits are counted.
CountEveryWord == Return("count", Ones(words))

Count ==
  Return("count",
         IF LastBits = 0
         THEN Ones(words)
         ELSE Ones(words) - Cardinality(Last) + Cardinality(Last \cap (0 .. LastBits - 1)))

Next ==
  \/ \E b \in Bit : SetBit(b) \/ ClearBit(b) \/ Toggle(b) \/ Test(b)
  \/ ClearAll \/ SetAll
  \/ FindFirstSet \/ FindFirstClear \/ Count

Spec == Init /\ [][Next]_vars

-----------------------------------------------------------------------------
(* Properties                                                              *)

Field == INSTANCE BitSet WITH bits <- {b \in Bit : b % W \in words[b \div W]}

\* The words behave as a set of the numbers below num_bits, and every query gives
\* the answer of that set, whatever the bits of the last word past num_bits hold.
ImplementsBitSet == Field!Spec
=============================================================================
