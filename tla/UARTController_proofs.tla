----------------------- MODULE UARTController_proofs -----------------------
(***************************************************************************)
(* Lemmas about the helpers of AESIO and the actions of UARTController,    *)
(* for any size of the registers and any hex characters.                   *)
(***************************************************************************)
EXTENDS UARTController, WellFoundedInduction, FiniteSetTheorems, TLAPS

LEMMA HexRoundTrip ==
  \A n \in Nibble : /\ nibble_to_hex(n) \in Chars
                    /\ hex_to_nibble(nibble_to_hex(n)) = n
<1> SUFFICES ASSUME NEW n \in Nibble
             PROVE  /\ nibble_to_hex(n) \in Chars
                    /\ hex_to_nibble(nibble_to_hex(n)) = n
  OBVIOUS
<1>1. nibble_to_hex(n) \in Chars
  BY HexAssumption DEF nibble_to_hex
<1>2. is_valid_hex(nibble_to_hex(n))
  BY DEF is_valid_hex, nibble_to_hex
<1> DEFINE m == CHOOSE m \in Nibble : nibble_to_hex(n) = HexChar[m]
<1>3. m \in Nibble /\ nibble_to_hex(n) = HexChar[m]
  BY Zenon DEF nibble_to_hex
<1>4. m = n
  BY <1>3, HexAssumption DEF nibble_to_hex
<1> QED
  BY <1>1, <1>2, <1>4 DEF hex_to_nibble

LEMMA HexToNibbleType == \A c : is_valid_hex(c) => hex_to_nibble(c) \in Nibble
<1> SUFFICES ASSUME NEW c, is_valid_hex(c) PROVE hex_to_nibble(c) \in Nibble
  OBVIOUS
<1>1. PICK n \in Nibble : c = nibble_to_hex(n)
  BY DEF is_valid_hex, nibble_to_hex
<1> QED
  BY <1>1, HexRoundTrip

LEMMA FinalNibble == FINAL_NIBBLE \in Nat /\ BlockNibs = FINAL_NIBBLE + 1
BY SizesAssumption DEF FINAL_NIBBLE

LEMMA ZeroTypes == ZERO_BLOCK \in AESBlock /\ ZERO_KEY \in MasterKey
BY SizesAssumption DEF ZERO_BLOCK, ZERO_KEY, AESBlock, MasterKey, Nibble

LEMMA XorBlockType == \A X, Y \in AESBlock : XorBlock(X, Y) \in AESBlock
BY XorAssumption DEF XorBlock, AESBlock

\* xor with the same block twice gives the block back: what makes the
\* encryption and the decryption of counter mode the same operation.
LEMMA XorBlockCancels == \A X, Y \in AESBlock : XorBlock(XorBlock(X, Y), Y) = X
<1> SUFFICES ASSUME NEW X \in AESBlock, NEW Y \in AESBlock
             PROVE  XorBlock(XorBlock(X, Y), Y) = X
  OBVIOUS
<1>1. \A i \in 0 .. FINAL_NIBBLE : X[i] \in Nibble /\ Y[i] \in Nibble
  BY DEF AESBlock
<1>2. \A i \in 0 .. FINAL_NIBBLE : Xor(Xor(X[i], Y[i]), Y[i]) = X[i]
  BY <1>1, XorAssumption
<1> QED
  BY <1>2 DEF XorBlock, AESBlock

\* ... on either side: what makes the decryption of CBC undo its encryption.
LEMMA XorBlockTwice == \A X, Y \in AESBlock : XorBlock(X, XorBlock(X, Y)) = Y
<1> SUFFICES ASSUME NEW X \in AESBlock, NEW Y \in AESBlock
             PROVE  XorBlock(X, XorBlock(X, Y)) = Y
  OBVIOUS
<1>1. \A i \in 0 .. FINAL_NIBBLE : X[i] \in Nibble /\ Y[i] \in Nibble
  BY DEF AESBlock
<1>2. \A i \in 0 .. FINAL_NIBBLE : Xor(X[i], Xor(X[i], Y[i])) = Y[i]
  <2> SUFFICES ASSUME NEW i \in 0 .. FINAL_NIBBLE
               PROVE  Xor(X[i], Xor(X[i], Y[i])) = Y[i]
    OBVIOUS
  <2>1. Xor(X[i], Y[i]) \in Nibble /\ Xor(X[i], Y[i]) = Xor(Y[i], X[i])
    BY <1>1, XorAssumption
  <2>2. Xor(X[i], Xor(X[i], Y[i])) = Xor(Xor(Y[i], X[i]), X[i])
    BY <1>1, <2>1, XorAssumption
  <2> QED
    BY <1>1, <2>2, XorAssumption
<1> QED
  BY <1>2 DEF XorBlock, AESBlock

LEMMA IncrType == \A IV \in AESBlock : \A lo : incr_iv(IV, lo) \in AESBlock
<1> SUFFICES ASSUME NEW IV \in AESBlock, NEW lo, NEW i \in 0 .. FINAL_NIBBLE
             PROVE  incr_iv(IV, lo)[i] \in Nibble
  BY DEF incr_iv, AESBlock
<1>1. IV[i] \in Nibble
  BY DEF AESBlock
<1>2. IV[i] # Radix - 1 => IV[i] + 1 \in Nibble
  BY <1>1, SizesAssumption DEF Nibble
<1>3. 0 \in Nibble
  BY SizesAssumption DEF Nibble
<1> QED
  BY <1>1, <1>2, <1>3 DEF incr_iv

LEMMA SetNibbleBlock ==
  \A b \in AESBlock, i \in 0 .. FINAL_NIBBLE, n \in Nibble : set_nibble(b, i, n) \in AESBlock
BY DEF set_nibble, AESBlock

LEMMA SetNibbleKey ==
  \A k \in MasterKey, i \in 0 .. KeyNibs - 1, n \in Nibble : set_nibble(k, i, n) \in MasterKey
BY DEF set_nibble, MasterKey

\* Among numbers there is a least one: inductions below go by the least number
\* for which a statement fails.
LEMMA LeastNumber ==
  ASSUME NEW S, S \subseteq Nat, S # {}
  PROVE  \E m \in S : \A k \in S : ~(k < m)
<1>1. IsWellFoundedOn(OpToRel(<, Nat), Nat)
  BY NatLessThanWellFounded
<1>2. PICK m \in S : \A k \in S : ~(<<k, m>> \in OpToRel(<, Nat))
  BY <1>1, WFMin
<1>3. \A k \in S : ~(k < m)
  BY <1>2 DEF OpToRel
<1> QED
  BY <1>3

\* There are finitely many blocks: each is a set of pairs.
LEMMA FiniteBlocks == IsFiniteSet(AESBlock) /\ Cardinality(AESBlock) \in Nat
<1> DEFINE All == (0 .. FINAL_NIBBLE) \X Nibble
           g == [x \in AESBlock |-> {<<i, x[i]>> : i \in 0 .. FINAL_NIBBLE}]
<1>1. IsFiniteSet(0 .. FINAL_NIBBLE) /\ IsFiniteSet(Nibble)
  BY FinalNibble, SizesAssumption, FS_Interval DEF Nibble
<1>2. IsFiniteSet(All)
  BY <1>1, FS_Product
<1>3. IsFiniteSet(SUBSET All)
  BY <1>2, FS_SUBSET
<1>4. ASSUME NEW x \in AESBlock PROVE g[x] \subseteq All
  BY DEF AESBlock
<1>5. ASSUME NEW x \in AESBlock, NEW y \in AESBlock, g[x] = g[y] PROVE x = y
  <2>1. ASSUME NEW i \in 0 .. FINAL_NIBBLE PROVE x[i] = y[i]
    <3>1. <<i, x[i]>> \in g[y]
      BY <1>5
    <3> QED BY <3>1
  <2>2. x = [i \in 0 .. FINAL_NIBBLE |-> x[i]] /\ y = [i \in 0 .. FINAL_NIBBLE |-> y[i]]
    BY DEF AESBlock
  <2> QED BY <2>1, <2>2, Zenon
<1>6. g \in Injection(AESBlock, SUBSET All)
  <2>1. g \in [AESBlock -> SUBSET All] /\ DOMAIN g = AESBlock
    BY <1>4
  <2> HIDE DEF g, All
  <2> QED BY <2>1, <1>5 DEF Injection, IsInjective
<1>7. IsFiniteSet(AESBlock)
  <2> HIDE DEF g, All
  <2> QED BY <1>3, <1>6, FS_Injection
<1> QED BY <1>7, FS_CardinalityType
=============================================================================
