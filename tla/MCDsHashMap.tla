----------------------------- MODULE MCDsHashMap -----------------------------
(* DsHashMap and CommandTable with keys that collide from the first probe    *)
(* (ka, kb), that meet later (kc), whose probe sequence wraps around the     *)
(* word (kd), and that are too long to store (ke), hashed by ds_hash_djb2.   *)
EXTENDS CommandTable, TLC

CONSTANTS ka, kb, kc, kd, ke

Common == INSTANCE DsCommon
Bytes == INSTANCE DsCommon WITH Word <- 256  \* DsCommon on words of 8 bits

\* The characters of the keys: ka and kb are different strings of one hash.
MCChars ==
  (ka :> <<7, 5>>) @@ (kb :> <<5, 7>>) @@ (kc :> <<13>>) @@ (kd :> <<8>>)
    @@ (ke :> <<4, 4, 4>>)

\* Their hashes, written out.
MCHash == (ka :> 1) @@ (kb :> 1) @@ (kc :> 2) @@ (kd :> 13) @@ (ke :> 1)

ASSUME HashesAssumption ==
  MCHash = [k \in {ka, kb, kc, kd, ke} |-> Common!ds_hash_djb2(MCChars[k])]

\* The helpers of ds_common.h compute what they are to compute.
ASSUME CommonAssumption ==
  /\ Bytes!PowerTestRight(8)
  /\ Bytes!AlignmentRight(8)
  /\ Bytes!HashRight({1, 10, 97, 255})
  /\ Bytes!PowModRight(0 .. 40, 0 .. 8, 1 .. 16)
  /\ Bytes!PowModOverflows({19}, {2}, {20})

\* ka and kb have one hash; values are only passed through.
Symmetry ==
  Permutations({ka, kb})
    \cup Permutations(ApiValues) \cup Permutations(Values \ ApiValues)
=============================================================================
