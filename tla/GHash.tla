------------------------------- MODULE GHash -------------------------------
(***************************************************************************)
(* The multiplication of blocks in ghash_iter (AESIO.vhd), on blocks of    *)
(* Width bits.  A block is the set of its bits that are one; bit 0 is the  *)
(* leftmost, the code's FINAL_BIT, and stands for the power x^0.  Taps are *)
(* the bits that are flipped when the shift drops a one: {0, 1, 2, 7}, the *)
(* byte x"E1", for the 128 bits of the code.                               *)
(***************************************************************************)
EXTENDS Integers, FiniteSets

CONSTANTS
  Width,   \* at least 1
  Taps     \* some of the bits 0 .. Width - 1

ASSUME FieldAssumption == Width \in Nat \ {0} /\ Taps \subseteq 0 .. Width - 1

Plus(p, q) == (p \ q) \union (q \ p)

\* A mutant of ShiftV: the bit that falls out is forgotten.
ShiftV_plain(V) == {j + 1 : j \in V \ {Width - 1}}

\* V srl 1, and the reduction when the bit that falls out is set.
ShiftV(V) ==
  Plus({j + 1 : j \in V \ {Width - 1}}, IF Width - 1 \in V THEN Taps ELSE {})

\* One round of the loop "proc", for bit n of X.
Round(X, n, r) ==
  [Z |-> IF n \in X THEN Plus(r.Z, r.V) ELSE r.Z, V |-> ShiftV(r.V)]

\* The whole loop; run[n] are its variables after n rounds.
Mul(X, H) ==
  LET run[n \in 0 .. Width] ==
        IF n = 0 THEN [Z |-> {}, V |-> H] ELSE Round(X, n - 1, run[n - 1])
  IN  run[Width].Z

-----------------------------------------------------------------------------
(* The definition it is checked against: the product of two polynomials    *)
(* over GF(2), reduced by long division from the highest power down.       *)

Product(X, H) ==
  {k \in 0 .. 2 * Width - 2 : Cardinality({i \in X : k - i \in H}) % 2 = 1}

\* The modulus has the powers Taps and Width; r[k] is p with a multiple of it
\* added for each power from k on.
Remainder(p) ==
  LET r[k \in Width .. 2 * Width - 1] ==
        IF k = 2 * Width - 1 THEN p
        ELSE LET q == r[k + 1]
             IN  IF k \in q THEN Plus(q, {j + (k - Width) : j \in Taps \union {Width}}) ELSE q
  IN  IF p = {} THEN {} ELSE r[Width]

RefMul(X, H) == Remainder(Product(X, H))
=============================================================================
