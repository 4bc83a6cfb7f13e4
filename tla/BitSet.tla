-------------------------------- MODULE BitSet --------------------------------
(***************************************************************************)
(* What a bit field promises: a set of numbers below a limit, and answers  *)
(* about it.  The abstract specification that DsBitfield implements.       *)
(***************************************************************************)
EXTENDS Integers, FiniteSets

CONSTANT NumBits

Bit == 0 .. NumBits - 1

VARIABLES
  bits,   \* the bits that are set
  reply   \* the last query and its answer

vars == <<bits, reply>>

Init == bits \subseteq Bit /\ reply = <<"none", 0>>

Become(new) == bits' = new /\ UNCHANGED reply
Answer(query, n) == reply' = <<query, n>> /\ UNCHANGED bits

\* The least of a set of bits, or -1.
IsFirst(n, S) ==
  \/ S = {} /\ n = -1
  \/ n \in S /\ \A b \in S : n <= b

Next ==
  \/ \E b \in Bit : Become(bits \cup {b}) \/ Become(bits \ {b})
  \/ Become({}) \/ Become(Bit)
  \/ \E b \in bits : Answer("test", 1)
  \/ \E b \in Bit \ bits : Answer("test", 0)
  \/ \E n \in Bit \cup {-1} :
       \/ IsFirst(n, bits) /\ Answer("first_set", n)
       \/ IsFirst(n, Bit \ bits) /\ Answer("first_clear", n)
  \/ Answer("count", Cardinality(bits))

Spec == Init /\ [][Next]_vars
=============================================================================
