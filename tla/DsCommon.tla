------------------------------- MODULE DsCommon -------------------------------
(***************************************************************************)
(* The pure helpers of src/inc/ds_common.h on unsigned words, each beside  *)
(* what it is to compute.  ds_ringbuf_init and ds_queue_init use the test  *)
(* for a power of two, the hash map ds_hash_djb2; the library itself calls *)
(* neither the alignment nor ds_pow_mod.                                   *)
(***************************************************************************)
EXTENDS Integers, SequencesExt, Bitwise

CONSTANT Word  \* the range of uint32_t: 2^32 in the code

-----------------------------------------------------------------------------
DS_IS_POWER_OF_TWO(x) == (x & ((x - 1) % Word)) = 0

\* The bit pattern of x - 1 is smeared to the right and 1 is added.
DS_ALIGN_POWER_OF_TWO(x) ==
  LET Smear(y, n) == y | shiftR(y, n)
  IN (FoldLeft(Smear, (x - 1) % Word, <<1, 2, 4, 8, 16>>) + 1) % Word

\* hash * 33 + c for each character of the string.
ds_hash_djb2(str) ==
  LET Step(hash, c) == (((hash * 32) % Word) + hash + c) % Word
  IN FoldLeft(Step, 5381 % Word, str)

\* Square and multiply over the bits of exp.
RECURSIVE PowLoop(_, _, _, _)
PowLoop(result, base, exp, mod) ==
  IF exp = 0 THEN result
  ELSE PowLoop(IF exp % 2 = 1 THEN ((result * base) % Word) % mod ELSE result,
               ((base * base) % Word) % mod, exp \div 2, mod)

ds_pow_mod(base, exp, mod) == PowLoop(1, base % mod, exp, mod)

-----------------------------------------------------------------------------
(* What they are to compute                                                *)

IsPower(x, bits) == \E n \in 0 .. bits - 1 : x = 2 ^ n

\* base^exp modulo mod, one factor at a time.
PowerModulo(base, exp, mod) ==
  LET p[e \in 0 .. exp] == IF e = 0 THEN (1 % mod) ELSE (p[e - 1] * base) % mod
  IN p[exp]

\* The test finds the powers of two, and takes 0 for one: the callers ask for a
\* capacity of at least 2 first.
PowerTestRight(bits) ==
  \A x \in 0 .. Word - 1 : DS_IS_POWER_OF_TWO(x) <=> x = 0 \/ IsPower(x, bits)

\* The alignment gives the least power of two that is not below x, if a word has
\* one, and 0 if not, or for 0.
AlignmentRight(bits) ==
  \A x \in 0 .. Word - 1 :
    LET y == DS_ALIGN_POWER_OF_TWO(x)
    IN IF x = 0 \/ x > Word \div 2 THEN y = 0
       ELSE IsPower(y, bits) /\ y >= x /\ y < 2 * x

\* The hash is the polynomial in 33 over the characters, whatever overflows.
HashRight(Chars) ==
  \A c, d \in Chars :
    ds_hash_djb2(<<c, d>>) = (5381 * 33 * 33 + c * 33 + d) % Word

\* ds_pow_mod is exact as long as the square of the modulus fits a word, but for
\* the 0th power modulo 1, where it gives 1 for 0.
PowModRight(Bases, Exps, Mods) ==
  \A b \in Bases, e \in Exps, m \in Mods :
    (m * m <= Word /\ ~(e = 0 /\ m = 1)) => ds_pow_mod(b, e, m) = PowerModulo(b, e, m)

\* Beyond that its products overflow, and the result can be wrong.
PowModOverflows(Bases, Exps, Mods) ==
  \E b \in Bases, e \in Exps, m \in Mods :
    m * m > Word /\ ds_pow_mod(b, e, m) # PowerModulo(b, e, m)
=============================================================================
