----------------------------- MODULE SmallCipher -----------------------------
(***************************************************************************)
(* Values for the constants of AESIO that TLC can enumerate: binary        *)
(* nibbles whose hex characters are "0" and "E" (so that, as in the code,  *)
(* a digit is also a command letter), and a keyed permutation of the       *)
(* blocks in the place of AES.  The permutation is not linear over xor and *)
(* differs from its inverse in every nibble position for some block.       *)
(***************************************************************************)
EXTENDS AESIO

MCHexChar == [n \in {0, 1} |-> IF n = 0 THEN "0" ELSE "E"]

MCXor(m, n) == (m + n) % 2

LOCAL INSTANCE FiniteSetsExt

\* The number a string of binary digits stands for, and back.
Value(b) == MapThenSumSet(LAMBDA i : b[i] * 2 ^ i, DOMAIN b)

Digits(v) == [i \in 0 .. FINAL_NIBBLE |-> (v \div 2 ^ i) % 2]

LOCAL Size == 2 ^ BlockNibs

\* v |-> v * (v + 1) / 2 is a permutation modulo a power of two.
Triangle(v) == ((v * (v + 1)) \div 2) % Size

\* A table, which TLC computes once.
Permutation ==
  [k \in MasterKey |-> [b \in AESBlock |->
     Digits((Triangle((Value(b) + Value(k)) % Size) + 3 * Value(k) + 1) % Size)]]

MCEnc(k, b) == Permutation[k][b]

MCDec(k, c) == CHOOSE b \in AESBlock : MCEnc(k, b) = c
=============================================================================
