------------------------------- MODULE AESIO -------------------------------
(***************************************************************************)
(* The helpers of hardware/src/AESIO.vhd that the modes of operation use:  *)
(* hex characters and nibbles, nibbles of a block, xor of blocks, and the  *)
(* increment of the counter block.                                         *)
(*                                                                         *)
(* A byte array is modelled by its nibbles, most significant nibble first, *)
(* numbered from 0 as the code's data_ofs numbers them.  The code has 32   *)
(* nibbles in a block and 64 in a key, of 16 values each: here these are   *)
(* constants.                                                              *)
(***************************************************************************)
EXTENDS Integers, Sequences

CONSTANTS
  Radix,       \* number of values of a nibble (16 in the code)
  BlockNibs,   \* nibbles in a block (32 in the code)
  KeyNibs,     \* nibbles in a key (KEY_SIZE/4 = 64 in the code)
  HexChar,     \* nibble_to_hex_a: the character a nibble is sent as
  Chars,       \* the characters a host may send
  Xor(_, _)    \* the xor of two nibbles

Nibble       == 0 .. Radix - 1
FINAL_NIBBLE == BlockNibs - 1
AESBlock     == [0 .. FINAL_NIBBLE -> Nibble]
MasterKey    == [0 .. KeyNibs - 1 -> Nibble]
ZERO_BLOCK   == [i \in 0 .. FINAL_NIBBLE |-> 0]
ZERO_KEY     == [i \in 0 .. KeyNibs - 1 |-> 0]

ASSUME SizesAssumption ==
  /\ Radix \in Nat /\ Radix >= 2
  /\ BlockNibs \in Nat \ {0}
  /\ KeyNibs \in Nat \ {0}

\* The sixteen characters of the table are different from each other.
ASSUME HexAssumption ==
  /\ HexChar \in [Nibble -> Chars]
  /\ \A m, n \in Nibble : HexChar[m] = HexChar[n] => m = n

ASSUME XorAssumption ==
  \A m, n \in Nibble : /\ Xor(m, n) \in Nibble
                       /\ Xor(m, n) = Xor(n, m)
                       /\ Xor(Xor(m, n), n) = m

nibble_to_hex(x) == HexChar[x]

is_valid_hex(c) == \E n \in Nibble : c = HexChar[n]

\* Every byte that is not an upper-case hex digit maps to 0 in the table.
hex_to_nibble(c) ==
  IF is_valid_hex(c) THEN CHOOSE n \in Nibble : c = HexChar[n] ELSE 0

get_nibble(arr, idx) == arr[idx]

set_nibble(arr, idx, value) == [arr EXCEPT ![idx] = value]

XorBlock(X, Y) == [i \in 0 .. FINAL_NIBBLE |-> Xor(X[i], Y[i])]

block_eq(X, Y) == \A i \in 0 .. FINAL_NIBBLE : X[i] = Y[i]

\* A mutant of incr_iv: the carry is lost.
incr_iv_no_carry(IV, lo) ==
  [IV EXCEPT ![FINAL_NIBBLE] = IF IV[FINAL_NIBBLE] = Radix - 1 THEN 0 ELSE IV[FINAL_NIBBLE] + 1]

(***************************************************************************)
(* Add one to the digits lo .. FINAL_NIBBLE of IV, the last one least      *)
(* significant; the carry out of digit lo is dropped.  The loop of the     *)
(* code visits a digit exactly when every digit behind it overflowed.      *)
(* split_96_32 of the code is lo = 24, its absence lo = 0.                 *)
(***************************************************************************)
incr_iv(IV, lo) ==
  [i \in 0 .. FINAL_NIBBLE |->
     IF i >= lo /\ \A j \in i + 1 .. FINAL_NIBBLE : IV[j] = Radix - 1
       THEN IF IV[i] = Radix - 1 THEN 0 ELSE IV[i] + 1
       ELSE IV[i]]
=============================================================================
