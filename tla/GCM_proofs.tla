----------------------------- MODULE GCM_proofs -----------------------------
(***************************************************************************)
(* For registers and nonces of any size, any cipher and any multiplication *)
(* in the field: what the GCM controller sends in a message of any length  *)
(* is counter mode, a tag or a verdict.                                    *)
(***************************************************************************)
EXTENDS GCMSession, UARTController_proofs

(* The recursive definitions of GCMSession, unfolded. *)

HashingTo(h, Y0, s, n, Y) ==
  Y = [i \in 0 .. n |-> IF i = 0 THEN Y0 ELSE GMul(XorBlock(Y[i - 1], s[i]), h)]

\* GHASH of the blocks s with the key h, from Y0 on.
HashOf(h, Y0, s) ==
  LET Y[i \in 0 .. Len(s)] == IF i = 0 THEN Y0 ELSE GMul(XorBlock(Y[i - 1], s[i]), h)
  IN  Y[Len(s)]

LEMMA HashingExists ==
  ASSUME NEW h, NEW Y0, NEW s, NEW n \in Nat
  PROVE  \E Y : HashingTo(h, Y0, s, n, Y)
<1> DEFINE S == {m \in Nat : ~ \E Y : HashingTo(h, Y0, s, m, Y)}
<1>1. SUFFICES ASSUME S # {} PROVE FALSE
  OBVIOUS
<1>2. PICK m \in S : \A k \in S : ~(k < m)
  BY <1>1, LeastNumber
<1>3. CASE m = 0
  <2> DEFINE Y == [i \in 0 .. 0 |-> Y0]
  <2>1. Y = [i \in 0 .. 0 |-> IF i = 0 THEN Y0 ELSE GMul(XorBlock(Y[i - 1], s[i]), h)]
    OBVIOUS
  <2> QED BY <1>3, <2>1 DEF HashingTo
<1>4. CASE m # 0
  <2>1. m \in Nat /\ m - 1 \in Nat /\ m - 1 \notin S
    BY <1>2, <1>4
  <2>2. PICK old : HashingTo(h, Y0, s, m - 1, old)
    BY <2>1
  <2> DEFINE Y == [i \in 0 .. m |-> IF i = m THEN GMul(XorBlock(old[m - 1], s[m]), h) ELSE old[i]]
  <2>3. ASSUME NEW i \in 0 .. m
        PROVE  Y[i] = IF i = 0 THEN Y0 ELSE GMul(XorBlock(Y[i - 1], s[i]), h)
    <3>1. CASE i = m
      <4>1. i # 0 /\ i - 1 \in 0 .. m /\ i - 1 # m
        BY <3>1, <1>4, <2>1
      <4>2. Y[i - 1] = old[i - 1]
        BY <4>1
      <4> QED BY <3>1, <4>1, <4>2
    <3>2. CASE i # m
      <4>1. i \in 0 .. m - 1 /\ Y[i] = old[i]
        BY <3>2, <2>1
      <4>2. old[i] = IF i = 0 THEN Y0 ELSE GMul(XorBlock(old[i - 1], s[i]), h)
        BY <4>1, <2>2 DEF HashingTo
      <4>3. i # 0 => i - 1 \in 0 .. m /\ i - 1 # m
        BY <4>1, <2>1
      <4>4. i # 0 => Y[i - 1] = old[i - 1]
        BY <4>3
      <4> QED BY <4>1, <4>2, <4>4
    <3> QED BY <3>1, <3>2
  <2>4. Y = [i \in 0 .. m |-> IF i = 0 THEN Y0 ELSE GMul(XorBlock(Y[i - 1], s[i]), h)]
    <3>1. Y = [i \in 0 .. m |-> Y[i]]
      OBVIOUS
    <3> HIDE DEF Y
    <3> QED BY <3>1, <2>3
  <2> QED BY <2>1, <2>4 DEF HashingTo
<1> QED BY <1>3, <1>4

SameUpTo(m, s, t) == \A i \in 1 .. m : s[i] = t[i]

LEMMA HashingsAgree ==
  ASSUME NEW h, NEW Y0, NEW s, NEW t, NEW m \in Nat, NEW n \in Nat, m <= n,
         SameUpTo(m, s, t),
         NEW Y, HashingTo(h, Y0, s, m, Y), NEW Z, HashingTo(h, Y0, t, n, Z)
  PROVE  \A i \in 0 .. m : Y[i] = Z[i]
<1> DEFINE Off == {i \in 0 .. m : Y[i] # Z[i]}
<1>1. SUFFICES ASSUME Off # {} PROVE FALSE
  OBVIOUS
<1>2. Off \subseteq Nat
  OBVIOUS
<1>3. PICK k \in Off : \A i \in Off : ~(i < k)
  BY <1>1, <1>2, LeastNumber
<1>4. k \in 0 .. m /\ k \in 0 .. n
  OBVIOUS
<1>5. Y[k] = IF k = 0 THEN Y0 ELSE GMul(XorBlock(Y[k - 1], s[k]), h)
  BY <1>4 DEF HashingTo
<1>6. Z[k] = IF k = 0 THEN Y0 ELSE GMul(XorBlock(Z[k - 1], t[k]), h)
  BY <1>4 DEF HashingTo
<1>7. k # 0 => k - 1 \in 0 .. m /\ k - 1 < k /\ k \in 1 .. m
  BY <1>4
<1>8. k # 0 => Y[k - 1] = Z[k - 1] /\ s[k] = t[k]
  BY <1>3, <1>7 DEF SameUpTo
<1>9. Y[k] = Z[k]
  BY <1>5, <1>6, <1>8
<1> QED BY <1>9

\* What HashOf returns is a value of that recursion.
LEMMA HashOfIs ==
  ASSUME NEW h, NEW Y0, NEW s, Len(s) \in Nat
  PROVE  \E Y : HashingTo(h, Y0, s, Len(s), Y) /\ HashOf(h, Y0, s) = Y[Len(s)]
<1> DEFINE Y == CHOOSE Y : HashingTo(h, Y0, s, Len(s), Y)
<1>1. HashingTo(h, Y0, s, Len(s), Y)
  <2>1. \E Z : HashingTo(h, Y0, s, Len(s), Z)
    BY HashingExists
  <2> QED BY <2>1, Zenon
<1>2. HashOf(h, Y0, s) = Y[Len(s)]
  BY DEF HashOf, HashingTo
<1> HIDE DEF Y
<1> QED BY <1>1, <1>2

LEMMA HashOfNothing == ASSUME NEW h, NEW Y0 PROVE HashOf(h, Y0, << >>) = Y0
<1>1. Len(<< >>) = 0
  OBVIOUS
<1>2. PICK Y : HashingTo(h, Y0, << >>, 0, Y) /\ HashOf(h, Y0, << >>) = Y[0]
  BY <1>1, HashOfIs
<1> QED BY <1>2 DEF HashingTo

\* One more block is folded as ghash_iter folds it.
LEMMA HashOfMore ==
  ASSUME NEW h, NEW Y0, NEW X, NEW s \in Seq(X), NEW b \in X
  PROVE  HashOf(h, Y0, Append(s, b)) = ghash_iter(HashOf(h, Y0, s), b, h)
<1> DEFINE t == Append(s, b)
           n == Len(s)
<1>1. n \in Nat /\ Len(t) = n + 1 /\ t[n + 1] = b /\ \A i \in 1 .. n : s[i] = t[i]
  OBVIOUS
<1> HIDE DEF t
<1>2. PICK Y : HashingTo(h, Y0, s, n, Y) /\ HashOf(h, Y0, s) = Y[n]
  BY <1>1, HashOfIs
<1> HIDE DEF n
<1>3. PICK Z : HashingTo(h, Y0, t, n + 1, Z) /\ HashOf(h, Y0, t) = Z[n + 1]
  BY <1>1, HashOfIs
<1>4. Y[n] = Z[n]
  <2>1. n + 1 \in Nat /\ n <= n + 1 /\ n \in 0 .. n
    BY <1>1
  <2>2. SameUpTo(n, s, t)
    BY <1>1 DEF SameUpTo
  <2>3. \A i \in 0 .. n : Y[i] = Z[i]
    BY <2>1, <2>2, <1>1, <1>2, <1>3, HashingsAgree
  <2> QED BY <2>1, <2>3
<1>5. n + 1 \in 0 .. n + 1 /\ n + 1 # 0 /\ (n + 1) - 1 = n
  BY <1>1
<1>6. Z[n + 1] = GMul(XorBlock(Z[(n + 1) - 1], t[n + 1]), h)
  BY <1>3, <1>5 DEF HashingTo
<1> QED BY <1>1, <1>2, <1>3, <1>4, <1>5, <1>6 DEF ghash_iter, t
CountingTo(j, n, ctr) ==
  ctr = [i \in 0 .. n |-> IF i = 0 THEN j ELSE incr_iv(ctr[i - 1], IVNibs)]

\* The counter n steps after j.
CounterAt(j, n) ==
  LET ctr[i \in 0 .. n] == IF i = 0 THEN j ELSE incr_iv(ctr[i - 1], IVNibs) IN ctr[n]

LEMMA CountingExists == ASSUME NEW j, NEW n \in Nat PROVE \E ctr : CountingTo(j, n, ctr)
<1> DEFINE S == {m \in Nat : ~ \E ctr : CountingTo(j, m, ctr)}
<1>1. SUFFICES ASSUME S # {} PROVE FALSE
  OBVIOUS
<1>2. PICK m \in S : \A k \in S : ~(k < m)
  BY <1>1, LeastNumber
<1>3. CASE m = 0
  <2> DEFINE ctr == [i \in 0 .. 0 |-> j]
  <2>1. ctr = [i \in 0 .. 0 |-> IF i = 0 THEN j ELSE incr_iv(ctr[i - 1], IVNibs)]
    OBVIOUS
  <2> QED BY <1>3, <2>1 DEF CountingTo
<1>4. CASE m # 0
  <2>1. m \in Nat /\ m - 1 \in Nat /\ m - 1 \notin S
    BY <1>2, <1>4
  <2>2. PICK old : CountingTo(j, m - 1, old)
    BY <2>1
  <2> DEFINE ctr == [i \in 0 .. m |-> IF i = m THEN incr_iv(old[m - 1], IVNibs) ELSE old[i]]
  <2>3. ASSUME NEW i \in 0 .. m
        PROVE  ctr[i] = IF i = 0 THEN j ELSE incr_iv(ctr[i - 1], IVNibs)
    <3>1. CASE i = m
      <4>1. i # 0 /\ i - 1 \in 0 .. m /\ i - 1 # m
        BY <3>1, <1>4, <2>1
      <4>2. ctr[i - 1] = old[i - 1]
        BY <4>1
      <4> QED BY <3>1, <4>1, <4>2
    <3>2. CASE i # m
      <4>1. i \in 0 .. m - 1 /\ ctr[i] = old[i]
        BY <3>2, <2>1
      <4>2. old[i] = IF i = 0 THEN j ELSE incr_iv(old[i - 1], IVNibs)
        BY <4>1, <2>2 DEF CountingTo
      <4>3. i # 0 => i - 1 \in 0 .. m /\ i - 1 # m
        BY <4>1, <2>1
      <4>4. i # 0 => ctr[i - 1] = old[i - 1]
        BY <4>3
      <4> QED BY <4>1, <4>2, <4>4
    <3> QED BY <3>1, <3>2
  <2>4. ctr = [i \in 0 .. m |-> IF i = 0 THEN j ELSE incr_iv(ctr[i - 1], IVNibs)]
    <3>1. ctr = [i \in 0 .. m |-> ctr[i]]
      OBVIOUS
    <3> HIDE DEF ctr
    <3> QED BY <3>1, <2>3
  <2> QED BY <2>1, <2>4 DEF CountingTo
<1> QED BY <1>3, <1>4

LEMMA CountingsAgree ==
  ASSUME NEW j, NEW m \in Nat, NEW n \in Nat, m <= n,
         NEW Y, CountingTo(j, m, Y), NEW Z, CountingTo(j, n, Z)
  PROVE  \A i \in 0 .. m : Y[i] = Z[i]
<1> DEFINE Off == {i \in 0 .. m : Y[i] # Z[i]}
<1>1. SUFFICES ASSUME Off # {} PROVE FALSE
  OBVIOUS
<1>2. Off \subseteq Nat
  OBVIOUS
<1>3. PICK k \in Off : \A i \in Off : ~(i < k)
  BY <1>1, <1>2, LeastNumber
<1>4. k \in 0 .. m /\ k \in 0 .. n
  OBVIOUS
<1>5. Y[k] = IF k = 0 THEN j ELSE incr_iv(Y[k - 1], IVNibs)
  BY <1>4 DEF CountingTo
<1>6. Z[k] = IF k = 0 THEN j ELSE incr_iv(Z[k - 1], IVNibs)
  BY <1>4 DEF CountingTo
<1>7. k # 0 => k - 1 \in 0 .. m /\ k - 1 < k
  BY <1>4
<1>8. k # 0 => Y[k - 1] = Z[k - 1]
  BY <1>3, <1>7
<1>9. Y[k] = Z[k]
  BY <1>5, <1>6, <1>8
<1> QED BY <1>9

LEMMA CounterAtIs ==
  ASSUME NEW j, NEW n \in Nat
  PROVE  \E ctr : CountingTo(j, n, ctr) /\ CounterAt(j, n) = ctr[n]
<1> DEFINE ctr == CHOOSE ctr : CountingTo(j, n, ctr)
<1>1. CountingTo(j, n, ctr)
  <2>1. \E Z : CountingTo(j, n, Z)
    BY CountingExists
  <2> QED BY <2>1, Zenon
<1>2. CounterAt(j, n) = ctr[n]
  BY DEF CounterAt, CountingTo
<1> HIDE DEF ctr
<1> QED BY <1>1, <1>2

LEMMA CounterStarts == ASSUME NEW j PROVE CounterAt(j, 0) = j
<1>1. PICK Y : CountingTo(j, 0, Y) /\ CounterAt(j, 0) = Y[0]
  BY CounterAtIs
<1> QED BY <1>1 DEF CountingTo

LEMMA CounterGoesOn ==
  ASSUME NEW j, NEW n \in Nat
  PROVE  CounterAt(j, n + 1) = incr_iv(CounterAt(j, n), IVNibs)
<1>1. PICK Y : CountingTo(j, n, Y) /\ CounterAt(j, n) = Y[n]
  BY CounterAtIs
<1>2. n + 1 \in Nat /\ n <= n + 1 /\ n \in 0 .. n
  OBVIOUS
<1>3. PICK Z : CountingTo(j, n + 1, Z) /\ CounterAt(j, n + 1) = Z[n + 1]
  BY <1>2, CounterAtIs
<1>4. \A i \in 0 .. n : Y[i] = Z[i]
  BY <1>1, <1>2, <1>3, CountingsAgree
<1>5. n + 1 \in 0 .. n + 1 /\ n + 1 # 0 /\ (n + 1) - 1 = n
  OBVIOUS
<1>6. Z[n + 1] = incr_iv(Z[(n + 1) - 1], IVNibs)
  BY <1>3, <1>5 DEF CountingTo
<1> QED BY <1>1, <1>2, <1>3, <1>4, <1>5, <1>6

\* The definitions of GCMSession are these.
LEMMA IncrementIs == \A n : Increment(n) = CounterAt(J0, n)
BY DEF Increment, CounterAt

Ciphertexts == [i \in 1 .. Len(texts) |-> Ciphertext(i)]

LEMMA HashFromIs ==
  HashFrom(start) = HashOf(H, start, aads \o Ciphertexts \o << LenBlock(Len(aads), Len(texts)) >>)
BY DEF HashFrom, HashOf, Ciphertexts
-----------------------------------------------------------------------------
(* The types of the controller, whatever the host sends. *)

\* Nothing is entered while a reply is under way, and a nonce is shorter than a block.
EntryOK ==
  /\ state # "IDLE" => copy_to = "TO_NOWHERE"
  /\ copy_to = "TO_IV" => data_ofs < IVNibs

IInv == TypeOK /\ EntryOK

LEMMA Sizes ==
  /\ FINAL_NIBBLE \in Nat /\ FINAL_NIBBLE >= 1
  /\ IVNibs \in Nat /\ IVNibs >= 1 /\ IVNibs <= FINAL_NIBBLE
BY FinalNibble, GCMAssumption

LEMMA DigitsAt == \A b \in AESBlock : b[0] \in Nibble /\ \A i \in 0 .. FINAL_NIBBLE : b[i] \in Nibble
<1>1. 0 \in 0 .. FINAL_NIBBLE
  BY Sizes
<1> QED BY <1>1 DEF AESBlock

LEMMA FirstCounterType == \A iv \in AESBlock : FirstCounter(iv) \in AESBlock
<1> SUFFICES ASSUME NEW iv \in AESBlock PROVE FirstCounter(iv) \in AESBlock
  OBVIOUS
<1>1. {0, 1} \subseteq Nibble
  BY SizesAssumption DEF Nibble
<1>2. \A i \in 0 .. FINAL_NIBBLE : iv[i] \in Nibble
  BY DEF AESBlock
<1> QED BY <1>1, <1>2 DEF FirstCounter, AESBlock

LEMMA GHashType == \A t, c, h \in AESBlock : ghash_iter(t, c, h) \in AESBlock
BY GCMAssumption, XorBlockType DEF ghash_iter

LEMMA SizeTypes ==
  0 \in 0 .. SizeWrap - 1 /\ \A n \in 0 .. SizeWrap - 1 : OneMore(n) \in 0 .. SizeWrap - 1
BY GCMAssumption DEF OneMore

LEMMA OutputTypes ==
  TypeOK => /\ H \in AESBlock /\ J0 \in AESBlock
            /\ oblk \in AESBlock /\ auth_tag \in AESBlock
<1> SUFFICES ASSUME TypeOK
             PROVE  H \in AESBlock /\ J0 \in AESBlock /\ oblk \in AESBlock /\ auth_tag \in AESBlock
  OBVIOUS
<1>1. key \in MasterKey /\ iblk \in AESBlock /\ IV \in AESBlock /\ T \in AESBlock
  BY DEF TypeOK, FrontTypeOK
<1>2. J0 \in AESBlock
  BY <1>1, FirstCounterType DEF J0
<1>3. H \in AESBlock
  BY <1>1, GCMAssumption, ZeroTypes DEF H
<1>4. oblk \in AESBlock
  BY <1>1, GCMAssumption, XorBlockType DEF oblk
<1>5. auth_tag \in AESBlock
  BY <1>1, <1>2, GCMAssumption, XorBlockType DEF auth_tag
<1> QED BY <1>2, <1>3, <1>4, <1>5

LEMMA InitTypes == Init => IInv
BY SizeTypes, ZeroTypes, HexRoundTrip, FinalNibble, SizesAssumption
DEF Init, FrontInit, IInv, TypeOK, FrontTypeOK, EntryOK, nibble_to_hex, Nibble

\* The commands that open the entry of a register.
LEMMA OpenTypes ==
  ASSUME IInv, NEW c \in Chars,
         CmdIV(c) \/ CmdKey(c) \/ CmdBlock(c) \/ CmdAAD(c) \/ CmdTag(c)
  PROVE  IInv'
BY SizeTypes, Sizes, SizesAssumption
DEF IInv, TypeOK, FrontTypeOK, EntryOK, CmdIV, CmdKey, CmdBlock, CmdAAD, CmdTag, auth,
    StartKey, StartBlock, OpenEntry, Commanding

LEMMA DigitTypes ==
  ASSUME IInv, NEW c \in Chars,
         EnterIV(c) \/ EnterKeyDigit(c) \/ EnterBlockDigit(c) \/ EnterAAD(c) \/ EnterTag(c)
  PROVE  IInv'
<1> USE DEF IInv, TypeOK, FrontTypeOK, EntryOK
<1>1. CASE EnterIV(c)
  <2>1. IV' \in AESBlock
    BY <1>1, HexToNibbleType, SetNibbleBlock, FirstCounterType DEF EnterIV, Entering
  <2> QED BY <1>1, <2>1, Sizes DEF EnterIV, Entering, StepEntry, auth
<1>2. CASE EnterKeyDigit(c)
  <2>1. key' \in MasterKey
    BY <1>2, HexToNibbleType, SetNibbleKey DEF EnterKeyDigit, EnterKey, Entering
  <2> QED BY <1>2, <2>1, Sizes, SizesAssumption
          DEF EnterKeyDigit, EnterKey, Entering, StepEntry, auth
<1>3. CASE EnterBlockDigit(c)
  <2>1. iblk' \in AESBlock
    BY <1>3, HexToNibbleType, SetNibbleBlock DEF EnterBlockDigit, EnterBlock, Entering
  <2> QED BY <1>3, <2>1, Sizes DEF EnterBlockDigit, EnterBlock, Entering, StepEntry, auth
<1>4. CASE EnterAAD(c)
  <2>1. AAD_block' \in AESBlock
    BY <1>4, HexToNibbleType, SetNibbleBlock DEF EnterAAD, Entering
  <2>2. T' \in AESBlock
    BY <1>4, <2>1, GHashType, OutputTypes DEF EnterAAD
  <2> QED BY <1>4, <2>1, <2>2, Sizes DEF EnterAAD, Entering, StepEntry
<1>5. CASE EnterTag(c)
  <2>1. in_auth_tag' \in AESBlock
    BY <1>5, HexToNibbleType, SetNibbleBlock DEF EnterTag, Entering
  <2> QED BY <1>5, <2>1, Sizes DEF EnterTag, Entering, StepEntry
<1> QED BY <1>1, <1>2, <1>3, <1>4, <1>5

LEMMA CommandTypes ==
  ASSUME IInv, NEW c \in Chars, CmdCrypt(c) \/ CmdFinalize(c) \/ CmdReset(c)
  PROVE  IInv'
<1>1. oblk \in AESBlock /\ H \in AESBlock
  BY OutputTypes DEF IInv
<1> USE DEF IInv, TypeOK, FrontTypeOK, EntryOK
<1>2. CASE CmdCrypt(c)
  <2>1. oblk[0] \in Nibble
    BY <1>1, DigitsAt
  <2>2. frame_data' \in Chars
    BY <1>2, <2>1, HexRoundTrip DEF CmdCrypt, StartReply, get_nibble
  <2> QED BY <1>2, <2>2, SizeTypes, Sizes DEF CmdCrypt, StartReply, Commanding, ModeOf
<1>3. CASE CmdFinalize(c)
  <2>1. LenBlock(AAD_size, C_size) \in AESBlock
    BY GCMAssumption
  <2>2. T' \in AESBlock
    BY <1>1, <1>3, <2>1, GHashType DEF CmdFinalize
  <2> QED BY <1>3, <2>2, Sizes DEF CmdFinalize, Commanding
<1>4. CASE CmdReset(c)
  BY <1>4, ZeroTypes, SizeTypes, Sizes DEF CmdReset, ResetFront, Commanding
<1> QED BY <1>2, <1>3, <1>4

LEMMA TransmitTypes == ASSUME IInv, Transmit PROVE IInv'
<1>1. oblk \in AESBlock /\ auth_tag \in AESBlock /\ H \in AESBlock
  BY OutputTypes DEF IInv
<1> USE DEF IInv, TypeOK, FrontTypeOK, EntryOK
<1>2. CASE Finalize
  <2>1. auth_tag[0] \in Nibble
    BY <1>1, DigitsAt
  <2>2. frame_data' \in Chars \union {"P", "F"}
    BY <1>2, <2>1, HexRoundTrip DEF Finalize, get_nibble
  <2> QED BY <1>2, <2>2 DEF Finalize, auth
<1>3. CASE SendNext
  <2>1. copy_to = "TO_NOWHERE" /\ data_ofs + 1 \in 0 .. FINAL_NIBBLE
    BY <1>3, Sizes DEF SendNext, SendNibble
  <2>2. oblk[data_ofs + 1] \in Nibble /\ auth_tag[data_ofs + 1] \in Nibble
    BY <1>1, <2>1 DEF AESBlock
  <2>3. frame_data' \in Chars
    BY <1>3, <2>2, HexRoundTrip DEF SendNext, SendNibble, get_nibble
  <2> QED BY <1>3, <2>1, <2>3 DEF SendNext, SendNibble, auth
<1>4. CASE SendLast
  <2>1. IV' \in AESBlock /\ T' \in AESBlock
    BY <1>1, <1>4, GHashType, IncrType DEF SendLast
  <2> QED BY <1>4, <2>1, Sizes DEF SendLast, FinishReply
<1> QED BY <1>2, <1>3, <1>4 DEF Transmit

LEMMA TypesStep == IInv /\ [Next]_vars => IInv'
<1> SUFFICES ASSUME IInv, [Next]_vars PROVE IInv'
  OBVIOUS
<1>1. ASSUME NEW c \in Chars, Receive(c) PROVE IInv'
  BY <1>1, OpenTypes, DigitTypes, CommandTypes DEF Receive
<1>2. CASE Transmit
  BY <1>2, TransmitTypes
<1>3. CASE UNCHANGED vars
  BY <1>3 DEF vars, front, auth, IInv, TypeOK, FrontTypeOK, EntryOK
<1> QED BY <1>1, <1>2, <1>3 DEF Next
\* Every register keeps its type, the offset stays inside the register it points into,
\* and the sizes stay in theirs.
THEOREM TypeCorrect == Spec => []TypeOK
<1>1. IInv => TypeOK
  BY DEF IInv
<1> QED
  BY <1>1, InitTypes, TypesStep, PTL DEF Spec, Safety

-----------------------------------------------------------------------------
(* What holds in each phase of a message. *)

\* What has been folded into T, but for the sizes.
Data == aads \o Ciphertexts

Hashed == T = HashOf(H, start, Data)

Tag     == TagFrom(start)
Verdict == IF in_auth_tag = Tag THEN "P" ELSE "F"

\* The first n digits on the line and the next one are those of b.
Digits(text, n, next, b) ==
  /\ Len(text) = n
  /\ \A i \in 1 .. n : text[i] = nibble_to_hex(b[i - 1])
  /\ next = nibble_to_hex(b[n])

OnTrack(b) == Digits(TX, data_ofs, frame_data, b)

HistoryOK ==
  /\ phase \in {"new", "header", "text", "done"}
  /\ aads \in Seq(AESBlock)
  /\ texts \in Seq(AESBlock \X AESBlock)
  /\ start \in AESBlock
  /\ sent \in 1 .. Len(Messages)

\* A size is one ahead while its block is under way.
SizesOK ==
  /\ AAD_size = Len(aads) + (IF copy_to = "TO_AAD" THEN 1 ELSE 0)
  /\ phase # "done" => C_size = Len(texts) + (IF state = "WRITING" THEN 1 ELSE 0)
  /\ AAD_size <= Messages[sent].aad
  /\ phase # "done" => C_size <= Messages[sent].text

InNew ==
  phase = "new" =>
    /\ state = "IDLE" /\ copy_to \in {"TO_NOWHERE", "TO_KEY"}
    /\ aads = << >> /\ texts = << >>
    /\ T = start

InHeader ==
  phase = "header" =>
    /\ state = "IDLE" /\ copy_to \in {"TO_NOWHERE", "TO_IV", "TO_AAD", "TO_BLOCK"}
    /\ texts = << >>
    /\ copy_to # "TO_IV" => IV = J0
    /\ Hashed

InText ==
  phase = "text" =>
    /\ state \in {"IDLE", "WRITING"} /\ copy_to \in {"TO_NOWHERE", "TO_BLOCK", "TO_AUTH_TAG"}
    /\ copy_from = "FROM_OBLK"
    /\ IV = CounterAt(J0, Len(texts))
    /\ Hashed
    /\ state = "WRITING" => OnTrack(oblk)

InDone ==
  phase = "done" =>
    /\ copy_to = "TO_NOWHERE"
    /\ state # "IDLE" /\ mode = "ENCRYPT" => copy_from = "FROM_AUTH_TAG"
    /\ state = "FINALIZING" =>
         T = HashFrom(start) /\ TX = << >> /\ data_ofs = IF mode = "ENCRYPT" THEN 0 ELSE FINAL_NIBBLE
    /\ state = "WRITING" =>
         IF mode = "ENCRYPT" THEN T = HashFrom(start) /\ OnTrack(Tag)
         ELSE TX = << >> /\ data_ofs = FINAL_NIBBLE /\ frame_data = Verdict
    /\ state = "IDLE" => IF mode = "ENCRYPT" THEN ReadBack(TX) = Tag ELSE TX = << Verdict >>

SInv ==
  HistoryOK /\ SizesOK /\ InNew /\ InHeader /\ InText /\ InDone /\ CountersAreConsecutive

-----------------------------------------------------------------------------
(* What a step leaves as it is. *)

\* The nonce part of IV is that of J0, and counting does not touch it.
LEMMA NonceKept ==
  /\ \A iv \in AESBlock : FirstCounter(incr_iv(iv, IVNibs)) = FirstCounter(iv)
  /\ \A iv \in AESBlock : FirstCounter(FirstCounter(iv)) = FirstCounter(iv)
<1>1. ASSUME NEW iv \in AESBlock, NEW i \in 0 .. FINAL_NIBBLE, i < IVNibs
      PROVE  incr_iv(iv, IVNibs)[i] = iv[i]
  BY <1>1, Sizes DEF incr_iv
<1>2. ASSUME NEW iv \in AESBlock, NEW i \in 0 .. FINAL_NIBBLE, i < IVNibs
      PROVE  FirstCounter(iv)[i] = iv[i]
  BY <1>2 DEF FirstCounter
<1>3. ASSUME NEW iv \in AESBlock
      PROVE  FirstCounter(incr_iv(iv, IVNibs)) = FirstCounter(iv)
  BY <1>1 DEF FirstCounter
<1>4. ASSUME NEW iv \in AESBlock
      PROVE  FirstCounter(FirstCounter(iv)) = FirstCounter(iv)
  <2> DEFINE f == FirstCounter(iv)
  <2>1. \A i \in 0 .. FINAL_NIBBLE : i < IVNibs => f[i] = iv[i]
    BY <1>2
  <2> HIDE DEF f
  <2>2. FirstCounter(f) = FirstCounter(iv)
    BY <2>1 DEF FirstCounter
  <2> QED BY <2>2 DEF f
<1> QED BY <1>3, <1>4

\* What the host compares with depends on the key, the nonce, the mode and the history.
Reference == <<H, J0, Ciphertexts, Data, HashFrom(start), Tag>>

LEMMA ReferenceKept ==
  ASSUME key' = key, J0' = J0, mode' = mode, UNCHANGED <<aads, texts, start>>
  PROVE  /\ H' = H /\ Data' = Data /\ Ciphertexts' = Ciphertexts
         /\ HashFrom(start)' = HashFrom(start)
         /\ Tag' = Tag
         /\ CountersAreConsecutive' = CountersAreConsecutive
<1>1. H' = H
  BY DEF H
<1>2. Ciphertexts' = Ciphertexts
  BY DEF Ciphertexts, Ciphertext
<1>3. Data' = Data
  BY <1>2 DEF Data
<1>4. HashFrom(start)' = HashFrom(start)
  BY DEF HashFrom, Ciphertext, H
<1>5. Tag' = Tag
  BY <1>4 DEF Tag, TagFrom
<1>6. \A n : Increment(n)' = Increment(n)
  BY DEF Increment
<1>7. CountersAreConsecutive' = CountersAreConsecutive
  BY <1>6 DEF CountersAreConsecutive
<1> QED BY <1>1, <1>2, <1>3, <1>4, <1>5, <1>7

LEMMA CiphertextsType == HistoryOK => Ciphertexts \in Seq(AESBlock) /\ Len(Ciphertexts) = Len(texts)
<1> SUFFICES ASSUME HistoryOK
             PROVE  Ciphertexts \in Seq(AESBlock) /\ Len(Ciphertexts) = Len(texts)
  OBVIOUS
<1>1. \A i \in 1 .. Len(texts) : texts[i] \in AESBlock \X AESBlock
  BY DEF HistoryOK
<1>2. \A i \in 1 .. Len(texts) : Ciphertext(i) \in AESBlock
  BY <1>1 DEF Ciphertext
<1>3. Len(texts) \in Nat
  BY DEF HistoryOK
<1> QED BY <1>2, <1>3 DEF Ciphertexts

LEMMA DataType == HistoryOK => Data \in Seq(AESBlock)
BY CiphertextsType DEF Data, HistoryOK

\* What F folds into T last.
LEMMA HashFromLast ==
  ASSUME HistoryOK, LenBlock(Len(aads), Len(texts)) \in AESBlock
  PROVE  HashFrom(start) = ghash_iter(HashOf(H, start, Data), LenBlock(Len(aads), Len(texts)), H)
<1> DEFINE b == LenBlock(Len(aads), Len(texts))
<1>1. Data \in Seq(AESBlock)
  BY DataType
<1>2. HashFrom(start) = HashOf(H, start, Data \o << b >>)
  BY HashFromIs DEF Data
<1>3. b \in AESBlock
  OBVIOUS
<1> HIDE DEF b
<1>4. Data \o << b >> = Append(Data, b)
  BY <1>1, <1>3
<1>5. HashFrom(start) = ghash_iter(HashOf(H, start, Data), b, H)
  BY <1>1, <1>2, <1>3, <1>4, HashOfMore
<1> QED BY <1>5 DEF b

LEMMA MoreAAD ==
  ASSUME HistoryOK, texts = << >>, texts' = texts, NEW b \in AESBlock, aads' = Append(aads, b)
  PROVE  Data' = Append(Data, b)
<1>1. Ciphertexts = << >> /\ Ciphertexts' = << >>
  BY DEF Ciphertexts
<1>2. aads \in Seq(AESBlock)
  BY DEF HistoryOK
<1> QED BY <1>1, <1>2 DEF Data

LEMMA MoreText ==
  ASSUME HistoryOK, NEW x \in AESBlock, NEW y \in AESBlock,
         texts' = Append(texts, <<x, y>>), aads' = aads, mode' = mode
  PROVE  Data' = Append(Data, IF mode = "ENCRYPT" THEN y ELSE x)
<1> DEFINE b == IF mode = "ENCRYPT" THEN y ELSE x
<1>1. /\ Len(texts) \in Nat /\ Len(texts') = Len(texts) + 1
      /\ texts'[Len(texts) + 1] = <<x, y>>
      /\ \A i \in 1 .. Len(texts) : texts'[i] = texts[i]
  BY DEF HistoryOK
<1>2. b \in AESBlock
  OBVIOUS
<1>3. \A i : i = Len(texts) + 1 => Ciphertext(i)' = b
  BY <1>1 DEF Ciphertext
<1>4. \A i \in 1 .. Len(texts) : Ciphertext(i)' = Ciphertext(i)
  BY <1>1 DEF Ciphertext
<1> HIDE DEF b
<1>5. Ciphertexts \in Seq(AESBlock) /\ Len(Ciphertexts) = Len(texts)
  BY CiphertextsType
<1>6. Ciphertexts' = Append(Ciphertexts, b)
  <2>1. Ciphertexts' = [i \in 1 .. Len(texts) + 1 |-> Ciphertext(i)']
    BY <1>1 DEF Ciphertexts
  <2>2. \A i \in 1 .. Len(texts) + 1 : Ciphertext(i)' = Append(Ciphertexts, b)[i]
    <3>1. \A i \in 1 .. Len(texts) : Ciphertexts[i] = Ciphertext(i)
      BY DEF Ciphertexts
    <3> QED BY <3>1, <1>1, <1>2, <1>3, <1>4, <1>5
  <2>3. Append(Ciphertexts, b) = [i \in 1 .. Len(texts) + 1 |-> Append(Ciphertexts, b)[i]]
    <3> DEFINE a == Append(Ciphertexts, b)
    <3>1. a \in Seq(AESBlock) /\ Len(a) = Len(texts) + 1
      BY <1>1, <1>2, <1>5
    <3> HIDE DEF a
    <3>2. a = [i \in 1 .. Len(a) |-> a[i]]
      BY <3>1
    <3> QED BY <3>1, <3>2 DEF a
  <2> QED BY <2>1, <2>2, <2>3
<1>7. aads \in Seq(AESBlock)
  BY DEF HistoryOK
<1>8. Data' = Append(Data, b)
  BY <1>2, <1>5, <1>6, <1>7 DEF Data
<1> QED BY <1>8 DEF b

-----------------------------------------------------------------------------
(* Each step of a message keeps SInv. *)

LEMMA MessageSizes ==
  \A n \in 1 .. Len(Messages) : /\ Messages[n].aad \in 0 .. SizeWrap - 1
                                /\ Messages[n].text \in 0 .. SizeWrap - 1
<1> DEFINE R == [aad : 0 .. SizeWrap - 1, text : 0 .. SizeWrap - 1]
<1>1. \A n \in 1 .. Len(Messages) : Messages[n] \in R
  <2>1. Messages \in Seq(R)
    BY MessagesAssumption
  <2> HIDE DEF R
  <2> QED BY <2>1
<1> QED BY <1>1

LEMMA Bounds ==
  HistoryOK => /\ Messages[sent].aad \in 0 .. SizeWrap - 1
               /\ Messages[sent].text \in 0 .. SizeWrap - 1
               /\ Len(aads) \in Nat /\ Len(texts) \in Nat
BY MessageSizes DEF HistoryOK

LEMMA OneMoreBelow ==
  ASSUME NEW n \in Nat, NEW m \in 0 .. SizeWrap - 1, n < m PROVE OneMore(n) = n + 1
BY GCMAssumption DEF OneMore

LEMMA DataEmpty == aads = << >> /\ texts = << >> => Data = << >>
BY DEF Data, Ciphertexts

LEMMA SessionStarts == SessionInit => SInv
<1> SUFFICES ASSUME SessionInit PROVE SInv
  OBVIOUS
<1> USE DEF SessionInit, Init, FrontInit
<1>1. HistoryOK
  BY ZeroTypes, MessagesAssumption DEF HistoryOK
<1>2. SizesOK
  BY <1>1, Bounds DEF SizesOK
<1> QED BY <1>1, <1>2 DEF SInv, InNew, InHeader, InText, InDone, CountersAreConsecutive

LEMMA NonceStep == ASSUME SInv, IInv, NEW c \in Chars, Nonce(c) PROVE SInv'
<1> USE DEF Nonce, CmdIV, OpenEntry, Commanding
<1>1. HistoryOK /\ SizesOK /\ phase = "new" /\ aads = << >> /\ texts = << >> /\ T = start
  BY DEF SInv, InNew
<1>2. HistoryOK'
  BY <1>1 DEF HistoryOK
<1>3. SizesOK'
  BY <1>1, Bounds DEF SizesOK
<1>4. Data' = << >>
  BY <1>1, DataEmpty DEF Data, Ciphertexts
<1>5. Hashed'
  BY <1>1, <1>4, HashOfNothing DEF Hashed
<1>6. InHeader'
  BY <1>1, <1>5 DEF InHeader
<1> QED BY <1>1, <1>2, <1>3, <1>6 DEF SInv, InNew, InText, InDone, CountersAreConsecutive

LEMMA HostKeyStep == ASSUME SInv, IInv, NEW c \in Chars, HostKey(c) PROVE SInv'
<1> USE DEF HostKey, CmdKey, StartKey, OpenEntry, Commanding, history, auth
<1>1. phase = "new" /\ phase' = "new" /\ aads' = << >> /\ texts' = << >>
  BY DEF SInv, InNew
<1>2. HistoryOK'
  BY DEF SInv, HistoryOK
<1>3. SizesOK'
  BY DEF SInv, SizesOK
<1>4. InNew'
  BY DEF SInv, InNew
<1> QED BY <1>1, <1>2, <1>3, <1>4 DEF SInv, InHeader, InText, InDone, CountersAreConsecutive

LEMMA OpenAADStep == ASSUME SInv, IInv, NEW c \in Chars, OpenAAD(c) PROVE SInv'
<1> USE DEF OpenAAD, CmdAAD, OpenEntry, Commanding, history
<1>1. key' = key /\ IV' = IV /\ mode' = mode /\ T' = T /\ state' = state
      /\ phase' = phase /\ aads' = aads /\ texts' = texts /\ sent' = sent /\ start' = start
      /\ C_size' = C_size
  OBVIOUS
<1>2. J0' = J0
  BY <1>1 DEF J0
<1>3. H' = H /\ Data' = Data /\ CountersAreConsecutive' = CountersAreConsecutive
  BY <1>1, <1>2, ReferenceKept
<1>4. HistoryOK'
  BY <1>1 DEF SInv, HistoryOK
<1>5. SizesOK'
  <2>1. AAD_size = Len(aads) /\ Len(aads) < Messages[sent].aad
    BY Bounds DEF SInv, SizesOK
  <2>2. AAD_size' = Len(aads) + 1
    BY <2>1, Bounds, OneMoreBelow DEF SInv
  <2>3. AAD_size' = Len(aads') + 1 /\ AAD_size' <= Messages[sent'].aad /\ copy_to' = "TO_AAD"
    BY <1>1, <2>1, <2>2, Bounds DEF SInv
  <2>4. phase # "done" => C_size' = Len(texts') + (IF state' = "WRITING" THEN 1 ELSE 0)
                          /\ C_size' <= Messages[sent'].text
    BY <1>1 DEF SInv, SizesOK
  <2> QED BY <1>1, <2>3, <2>4 DEF SizesOK
<1>6. InHeader'
  BY <1>1, <1>2, <1>3 DEF SInv, InHeader, Hashed
<1> QED BY <1>1, <1>3, <1>4, <1>5, <1>6 DEF SInv, InNew, InText, InDone

LEMMA OpenBlockStep ==
  ASSUME SInv, IInv, NEW c \in Chars, OpenBlock(c) \/ HostTag(c)
  PROVE  SInv'
<1> USE DEF OpenBlock, CmdBlock, StartBlock, HostTag, CmdTag, OpenEntry, Commanding, history, auth
<1>1. key' = key /\ IV' = IV /\ mode' = mode /\ T' = T /\ state' = state
      /\ phase' = phase /\ aads' = aads /\ texts' = texts /\ sent' = sent /\ start' = start
      /\ C_size' = C_size /\ AAD_size' = AAD_size /\ copy_from' = copy_from
      /\ state = "IDLE" /\ copy_to = "TO_NOWHERE"
      /\ \/ copy_to' = "TO_BLOCK" /\ phase \in {"header", "text"}
         \/ copy_to' = "TO_AUTH_TAG" /\ phase = "text"
  OBVIOUS
<1>2. J0' = J0
  BY <1>1 DEF J0
<1>3. H' = H /\ Data' = Data /\ CountersAreConsecutive' = CountersAreConsecutive
  BY <1>1, <1>2, ReferenceKept
<1>4. HistoryOK'
  BY <1>1 DEF SInv, HistoryOK
<1>5. SizesOK'
  BY <1>1 DEF SInv, SizesOK
<1>6. InHeader'
  BY <1>1, <1>2, <1>3 DEF SInv, InHeader, Hashed
<1>7. InText'
  BY <1>1, <1>2, <1>3 DEF SInv, InText, Hashed
<1> QED BY <1>1, <1>3, <1>4, <1>5, <1>6, <1>7 DEF SInv, InNew, InDone

LEMMA CryptStep == ASSUME SInv, IInv, NEW c \in Chars, Crypt(c) PROVE SInv'
<1> USE DEF Crypt, CmdCrypt, StartReply, Commanding
<1>1. key' = key /\ iblk' = iblk /\ IV' = IV /\ T' = T
      /\ aads' = aads /\ texts' = texts /\ sent' = sent /\ start' = start
      /\ AAD_size' = AAD_size /\ copy_to' = copy_to
      /\ state = "IDLE" /\ copy_to = "TO_NOWHERE" /\ state' = "WRITING" /\ phase' = "text"
      /\ phase \in {"header", "text"} /\ Len(texts) < Messages[sent].text
  OBVIOUS
<1>2. J0' = J0 /\ H' = H /\ oblk' = oblk
  BY <1>1 DEF J0, H, oblk
<1>3. Data' = Data /\ CountersAreConsecutive'
  <2>1. CASE phase = "header"
    <3>1. texts = << >>
      BY <2>1 DEF SInv, InHeader
    <3>2. Data' = Data
      BY <1>1, <3>1 DEF Data, Ciphertexts
    <3> QED BY <1>1, <3>1, <3>2 DEF CountersAreConsecutive
  <2>2. CASE phase = "text"
    BY <1>1, <1>2, <2>2, ReferenceKept DEF SInv
  <2> QED BY <1>1, <2>1, <2>2
<1>4. HistoryOK'
  BY <1>1 DEF SInv, HistoryOK
<1>5. SizesOK'
  <2>1. C_size = Len(texts) /\ AAD_size = Len(aads) /\ AAD_size <= Messages[sent].aad
    BY <1>1, Bounds DEF SInv, SizesOK
  <2>2. C_size' = Len(texts) + 1
    BY <1>1, <2>1, Bounds, OneMoreBelow DEF SInv
  <2> QED BY <1>1, <2>1, <2>2, Bounds DEF SInv, SizesOK
<1>6. IV = CounterAt(J0, Len(texts))
  <2>1. CASE phase = "header"
    <3>1. texts = << >> /\ IV = J0 /\ Len(<< >>) = 0
      BY <1>1, <2>1 DEF SInv, InHeader
    <3> QED BY <3>1, CounterStarts
  <2>2. CASE phase = "text"
    BY <2>2 DEF SInv, InText
  <2> QED BY <1>1, <2>1, <2>2
<1>7. Hashed'
  BY <1>1, <1>2, <1>3 DEF SInv, InHeader, InText, Hashed
<1>8. OnTrack(oblk)'
  BY <1>2 DEF OnTrack, Digits, get_nibble
<1>9. InText'
  BY <1>1, <1>2, <1>6, <1>7, <1>8 DEF InText
<1> QED BY <1>1, <1>3, <1>4, <1>5, <1>9 DEF SInv, InNew, InHeader, InDone

LEMMA FinishStep == ASSUME SInv, IInv, NEW c \in Chars, Finish(c) PROVE SInv'
<1> USE DEF Finish, CmdFinalize, Commanding
<1>1. key' = key /\ IV' = IV /\ mode' = mode
      /\ aads' = aads /\ texts' = texts /\ sent' = sent /\ start' = start
      /\ AAD_size' = AAD_size /\ C_size' = C_size /\ copy_to' = copy_to
      /\ state = "IDLE" /\ copy_to = "TO_NOWHERE" /\ state' = "FINALIZING" /\ phase' = "done"
      /\ phase \in {"header", "text"} /\ T' = ghash_iter(T, LenBlock(AAD_size, C_size), H)
  OBVIOUS
<1>2. J0' = J0
  BY <1>1 DEF J0
<1>3. HashFrom(start)' = HashFrom(start) /\ CountersAreConsecutive' = CountersAreConsecutive
  BY <1>1, <1>2, ReferenceKept
<1>4. HistoryOK'
  BY <1>1 DEF SInv, HistoryOK
<1>5. AAD_size = Len(aads) /\ C_size = Len(texts)
  BY <1>1, Bounds DEF SInv, SizesOK
<1>6. SizesOK'
  BY <1>1, <1>5 DEF SInv, SizesOK
<1>7. LenBlock(Len(aads), Len(texts)) \in AESBlock
  BY <1>5, GCMAssumption DEF IInv, TypeOK
<1>8. T = HashOf(H, start, Data)
  BY <1>1 DEF SInv, InHeader, InText, Hashed
<1>9. T' = HashFrom(start)'
  BY <1>1, <1>3, <1>5, <1>7, <1>8, HashFromLast DEF SInv
<1>10. InDone'
  BY <1>1, <1>9 DEF InDone
<1> QED BY <1>1, <1>3, <1>4, <1>6, <1>10 DEF SInv, InNew, InHeader, InText

LEMMA NextMessageStep == ASSUME SInv, IInv, NEW c \in Chars, NextMessage(c) PROVE SInv'
<1> USE DEF NextMessage, CmdReset, ResetFront, Commanding
<1>1. T' = T /\ T \in AESBlock /\ state' = "IDLE" /\ copy_to' = "TO_NOWHERE"
  BY DEF IInv, TypeOK
<1>2. HistoryOK'
  BY <1>1, MessagesAssumption DEF SInv, HistoryOK
<1>3. SizesOK'
  <2>1. Messages[sent'].aad \in 0 .. SizeWrap - 1 /\ Messages[sent'].text \in 0 .. SizeWrap - 1
    BY <1>2, MessageSizes DEF HistoryOK
  <2> QED BY <1>1, <2>1, GCMAssumption DEF SizesOK
<1>4. InNew'
  BY <1>1 DEF InNew
<1> QED BY <1>2, <1>3, <1>4 DEF SInv, InHeader, InText, InDone, CountersAreConsecutive

LEMMA DigitStep == ASSUME SInv, IInv, NEW c \in Chars, Digit(c) PROVE SInv'
<1> USE DEF Digit, history, auth, StepEntry
<1>1. IV \in AESBlock
  BY DEF IInv, TypeOK
<1>2. phase' = phase /\ aads' = aads /\ texts' = texts /\ sent' = sent /\ start' = start
      /\ state = "IDLE" /\ state' = "IDLE" /\ mode' = mode /\ T' = T
      /\ AAD_size' = AAD_size /\ C_size' = C_size /\ copy_from' = copy_from
      /\ copy_to # "TO_AAD" /\ (copy_to' = copy_to \/ copy_to' = "TO_NOWHERE")
  BY DEF EnterIV, EnterKeyDigit, EnterKey, EnterBlockDigit, EnterBlock, EnterTag, Entering
<1>3. HistoryOK'
  BY <1>2 DEF SInv, HistoryOK
<1>4. SizesOK'
  BY <1>2 DEF SInv, SizesOK
<1>5. CASE EnterIV(c)
  <2>1. phase = "header" /\ copy_to = "TO_IV" /\ texts = << >>
    BY <1>5, <1>2 DEF SInv, HistoryOK, InNew, InHeader, InText, InDone, EnterIV, Entering
  <2>2. key' = key
    BY <1>5 DEF EnterIV
  <2>3. H' = H /\ Data' = Data
    BY <1>2, <2>1, <2>2 DEF H, Data, Ciphertexts
  <2>4. copy_to' # "TO_IV" => IV' = J0'
    <3>1. ASSUME copy_to' # "TO_IV" PROVE IV' = J0'
      <4> DEFINE iv == set_nibble(IV, data_ofs, hex_to_nibble(c))
      <4>1. data_ofs = IVNibs - 1
        BY <1>5, <2>1, <3>1 DEF EnterIV
      <4>2. IV' = FirstCounter(iv)
        BY <1>5, <4>1 DEF EnterIV
      <4>3. iv \in AESBlock
        BY <1>1, <1>5, HexToNibbleType, SetNibbleBlock, <2>1, <4>1, Sizes DEF EnterIV, Entering
      <4> HIDE DEF iv
      <4> QED BY <4>2, <4>3, NonceKept DEF J0
    <3> QED BY <3>1
  <2>5. InHeader'
    BY <1>2, <2>1, <2>3, <2>4 DEF SInv, InHeader, Hashed
  <2> QED BY <1>2, <1>3, <1>4, <2>1, <2>5 DEF SInv, InNew, InText, InDone, CountersAreConsecutive
<1>6. CASE EnterKeyDigit(c)
  <2>1. phase = "new" /\ texts = << >>
    BY <1>6, <1>2 DEF SInv, HistoryOK, InNew, InHeader, InText, InDone, EnterKeyDigit, EnterKey, Entering
  <2>2. InNew'
    BY <1>2 DEF SInv, InNew
  <2> QED BY <1>2, <1>3, <1>4, <2>1, <2>2 DEF SInv, InHeader, InText, InDone, CountersAreConsecutive
<1>7. CASE EnterBlockDigit(c) \/ EnterTag(c)
  <2>1. key' = key /\ IV' = IV
    BY <1>7 DEF EnterBlockDigit, EnterBlock, EnterTag
  <2>2. copy_to \in {"TO_BLOCK", "TO_AUTH_TAG"}
    BY <1>7 DEF EnterBlockDigit, EnterBlock, EnterTag, Entering
  <2>3. J0' = J0
    BY <2>1 DEF J0
  <2>4. H' = H /\ Data' = Data /\ CountersAreConsecutive' = CountersAreConsecutive
    BY <1>2, <2>1, <2>3, ReferenceKept
  <2>5. InHeader'
    BY <1>2, <2>1, <2>2, <2>3, <2>4 DEF SInv, InHeader, Hashed
  <2>6. InText'
    BY <1>2, <2>1, <2>2, <2>3, <2>4 DEF SInv, InText, Hashed
  <2>7. phase \in {"header", "text"}
    BY <2>2 DEF SInv, HistoryOK, InNew, InDone
  <2> QED BY <1>2, <1>3, <1>4, <2>4, <2>5, <2>6, <2>7 DEF SInv, InNew, InDone
<1> QED BY <1>5, <1>6, <1>7

LEMMA DigitAADStep == ASSUME SInv, IInv, NEW c \in Chars, DigitAAD(c) PROVE SInv'
<1> USE DEF DigitAAD, EnterAAD, Entering, StepEntry
<1>1. phase' = phase /\ texts' = texts /\ sent' = sent /\ start' = start
      /\ key' = key /\ IV' = IV /\ mode' = mode
      /\ state = "IDLE" /\ state' = "IDLE" /\ copy_to = "TO_AAD"
      /\ AAD_size' = AAD_size /\ C_size' = C_size
  OBVIOUS
<1>2. phase = "header" /\ texts = << >> /\ AAD_size = Len(aads) + 1
  BY <1>1 DEF SInv, HistoryOK, SizesOK, InNew, InHeader, InText, InDone
<1>3. J0' = J0 /\ H' = H
  BY <1>1 DEF J0, H
<1>4. AAD_block' \in AESBlock /\ H \in AESBlock /\ T \in AESBlock /\ HistoryOK /\ Hashed /\ IV = J0
  <2>1. IInv'
    BY DigitTypes DEF IInv
  <2> QED BY <2>1, <1>1, <1>2, OutputTypes DEF IInv, TypeOK, SInv, InHeader
<1>5. CASE data_ofs = FINAL_NIBBLE
  <2>1. copy_to' = "TO_NOWHERE" /\ aads' = Append(aads, AAD_block') /\ T' = ghash_iter(T, AAD_block', H)
    BY <1>5
  <2>2. Data' = Append(Data, AAD_block')
    BY <1>1, <1>2, <1>4, <2>1, MoreAAD
  <2>3. Hashed'
    <3>1. Data \in Seq(AESBlock)
      BY <1>4, DataType
    <3>2. HashOf(H, start, Append(Data, AAD_block')) = ghash_iter(HashOf(H, start, Data), AAD_block', H)
      BY <1>4, <3>1, HashOfMore
    <3> QED BY <1>1, <1>3, <1>4, <2>1, <2>2, <3>2 DEF Hashed
  <2>4. aads' \in Seq(AESBlock) /\ Len(aads') = Len(aads) + 1
    BY <1>4, <2>1 DEF HistoryOK
  <2>5. HistoryOK'
    BY <1>1, <1>4, <2>4 DEF HistoryOK
  <2>6. SizesOK'
    BY <1>1, <1>2, <2>1, <2>4 DEF SInv, SizesOK
  <2>7. InHeader'
    BY <1>1, <1>2, <1>3, <1>4, <2>1, <2>3 DEF InHeader
  <2> QED BY <1>1, <1>2, <2>5, <2>6, <2>7 DEF SInv, InNew, InText, InDone, CountersAreConsecutive
<1>6. CASE data_ofs # FINAL_NIBBLE
  <2>1. copy_to' = copy_to /\ aads' = aads /\ T' = T
    BY <1>1, <1>6
  <2>2. Data' = Data
    BY <1>1, <2>1, <1>3, ReferenceKept
  <2>3. HistoryOK'
    BY <1>1, <2>1 DEF SInv, HistoryOK
  <2>4. SizesOK'
    BY <1>1, <2>1 DEF SInv, SizesOK
  <2>5. InHeader'
    BY <1>1, <1>3, <2>1, <2>2 DEF SInv, InHeader, Hashed
  <2> QED BY <1>1, <1>2, <2>3, <2>4, <2>5 DEF SInv, InNew, InText, InDone, CountersAreConsecutive
<1> QED BY <1>5, <1>6

LEMMA DigitsGrow ==
  ASSUME NEW X, NEW text \in Seq(X), NEW n \in Nat, NEW next \in X, NEW b, Digits(text, n, next, b)
  PROVE  Digits(Append(text, next), n + 1, nibble_to_hex(b[n + 1]), b)
<1>1. Len(text) = n /\ next = nibble_to_hex(b[n]) /\ \A i \in 1 .. n : text[i] = nibble_to_hex(b[i - 1])
  BY DEF Digits
<1>2. Len(Append(text, next)) = n + 1 /\ Append(text, next)[n + 1] = next
      /\ \A i \in 1 .. n : Append(text, next)[i] = text[i]
  BY <1>1
<1>3. ASSUME NEW i \in 1 .. n + 1 PROVE Append(text, next)[i] = nibble_to_hex(b[i - 1])
  <2>1. CASE i = n + 1
    BY <2>1, <1>1, <1>2
  <2>2. CASE i # n + 1
    <3>1. i \in 1 .. n
      BY <2>2
    <3> QED BY <3>1, <1>1, <1>2
  <2> QED BY <2>1, <2>2
<1> QED BY <1>2, <1>3 DEF Digits

\* What the host reads once all digits are on the line.
LEMMA DigitsRead ==
  ASSUME NEW b \in AESBlock, NEW X, NEW text \in Seq(X), NEW next \in X,
         Digits(text, FINAL_NIBBLE, next, b)
  PROVE  ReadBack(Append(text, next)) = b
<1>1. FINAL_NIBBLE \in Nat
  BY Sizes
<1>2. Digits(Append(text, next), FINAL_NIBBLE + 1, nibble_to_hex(b[FINAL_NIBBLE + 1]), b)
  BY <1>1, DigitsGrow
<1>3. \A i \in 0 .. FINAL_NIBBLE : Append(text, next)[i + 1] = nibble_to_hex(b[i])
  <2>1. ASSUME NEW i \in 0 .. FINAL_NIBBLE PROVE Append(text, next)[i + 1] = nibble_to_hex(b[i])
    <3>1. i + 1 \in 1 .. FINAL_NIBBLE + 1 /\ (i + 1) - 1 = i
      BY <1>1
    <3>2. \A k \in 1 .. FINAL_NIBBLE + 1 : Append(text, next)[k] = nibble_to_hex(b[k - 1])
      BY <1>2 DEF Digits
    <3>3. Append(text, next)[i + 1] = nibble_to_hex(b[(i + 1) - 1])
      BY <3>1, <3>2
    <3> QED BY <3>1, <3>3
  <2> QED BY <2>1
<1>4. \A i \in 0 .. FINAL_NIBBLE : b[i] \in Nibble
  BY DigitsAt
<1>5. \A i \in 0 .. FINAL_NIBBLE : hex_to_nibble(Append(text, next)[i + 1]) = b[i]
  BY <1>3, <1>4, HexRoundTrip
<1>6. b = [i \in 0 .. FINAL_NIBBLE |-> b[i]]
  BY DEF AESBlock
<1> QED BY <1>5, <1>6 DEF ReadBack

LEMMA FinalizeStep == ASSUME SInv, IInv, Finalize, HostReads PROVE SInv'
<1> USE DEF Finalize, auth
<1>1. key' = key /\ IV' = IV /\ mode' = mode /\ T' = T /\ in_auth_tag' = in_auth_tag
      /\ state = "FINALIZING" /\ state' = "WRITING"
      /\ AAD_size' = AAD_size /\ C_size' = C_size /\ copy_to' = copy_to /\ copy_from' = copy_from
      /\ TX' = TX /\ data_ofs' = data_ofs
  OBVIOUS
<1>2. phase = "done"
  BY <1>1 DEF SInv, HistoryOK, InNew, InHeader, InText
<1>3. phase' = phase /\ aads' = aads /\ texts' = texts /\ sent' = sent /\ start' = start
  BY <1>2 DEF HostReads
<1>4. J0' = J0
  BY <1>1 DEF J0
<1>5. HashFrom(start)' = HashFrom(start) /\ Tag' = Tag
      /\ CountersAreConsecutive' = CountersAreConsecutive
  BY <1>1, <1>3, <1>4, ReferenceKept
<1>6. T = HashFrom(start) /\ TX = << >> /\ copy_to = "TO_NOWHERE"
      /\ data_ofs = (IF mode = "ENCRYPT" THEN 0 ELSE FINAL_NIBBLE)
      /\ (mode = "ENCRYPT" => copy_from = "FROM_AUTH_TAG")
  BY <1>1, <1>2 DEF SInv, InDone
<1>7. auth_tag = Tag /\ Tag \in AESBlock /\ in_auth_tag \in AESBlock
  BY <1>6, OutputTypes DEF auth_tag, Tag, TagFrom, IInv, TypeOK
<1>8. block_eq(auth_tag, in_auth_tag) <=> in_auth_tag = Tag
  <2>1. Tag = [i \in 0 .. FINAL_NIBBLE |-> Tag[i]]
        /\ in_auth_tag = [i \in 0 .. FINAL_NIBBLE |-> in_auth_tag[i]]
    BY <1>7 DEF AESBlock
  <2> QED BY <1>7, <2>1 DEF block_eq
<1>9. mode = "ENCRYPT" => OnTrack(Tag)'
  <2>1. mode = "ENCRYPT" => frame_data' = nibble_to_hex(Tag[0])
    BY <1>7 DEF get_nibble
  <2> QED BY <1>1, <1>5, <1>6, <2>1 DEF OnTrack, Digits
<1>10. mode # "ENCRYPT" => frame_data' = Verdict'
  BY <1>1, <1>5, <1>8 DEF Verdict
<1>11. HistoryOK'
  BY <1>3 DEF SInv, HistoryOK
<1>12. SizesOK'
  BY <1>1, <1>2, <1>3 DEF SInv, SizesOK
<1>13. InDone'
  BY <1>1, <1>5, <1>6, <1>9, <1>10 DEF InDone
<1> QED BY <1>2, <1>3, <1>5, <1>11, <1>12, <1>13 DEF SInv, InNew, InHeader, InText

LEMMA SendNextStep == ASSUME SInv, IInv, SendNext, HostReads PROVE SInv'
<1> USE DEF SendNext, SendNibble, auth
<1>1. key' = key /\ iblk' = iblk /\ IV' = IV /\ mode' = mode /\ T' = T
      /\ state = "WRITING" /\ state' = "WRITING" /\ data_ofs # FINAL_NIBBLE
      /\ AAD_size' = AAD_size /\ C_size' = C_size /\ copy_to' = copy_to /\ copy_from' = copy_from
      /\ TX' = Append(TX, frame_data) /\ data_ofs' = data_ofs + 1
  OBVIOUS
<1>2. phase \in {"text", "done"}
  BY <1>1 DEF SInv, HistoryOK, InNew, InHeader
<1>3. phase' = phase /\ aads' = aads /\ texts' = texts /\ sent' = sent /\ start' = start
  BY <1>1 DEF HostReads, SendLast, FinishReply
<1>4. J0' = J0 /\ oblk' = oblk
  BY <1>1 DEF J0, oblk
<1>5. H' = H /\ Data' = Data /\ HashFrom(start)' = HashFrom(start) /\ Tag' = Tag
      /\ CountersAreConsecutive' = CountersAreConsecutive
  BY <1>1, <1>3, <1>4, ReferenceKept
<1>6. TX \in Seq(Chars \union {"P", "F"}) /\ frame_data \in Chars \union {"P", "F"} /\ data_ofs \in Nat
  BY Sizes, SizesAssumption DEF IInv, TypeOK, FrontTypeOK
<1>7. HistoryOK'
  BY <1>3 DEF SInv, HistoryOK
<1>8. SizesOK'
  BY <1>1, <1>3 DEF SInv, SizesOK
<1>9. CASE phase = "text"
  <2>1. OnTrack(oblk) /\ copy_from = "FROM_OBLK"
    BY <1>1, <1>9 DEF SInv, InText
  <2>2. frame_data' = nibble_to_hex(oblk[data_ofs + 1])
    BY <2>1 DEF get_nibble
  <2>3. OnTrack(oblk)'
    <3>1. Digits(Append(TX, frame_data), data_ofs + 1, nibble_to_hex(oblk[data_ofs + 1]), oblk)
      BY <1>6, <2>1, DigitsGrow DEF OnTrack
    <3> QED BY <1>1, <1>4, <2>2, <3>1 DEF OnTrack
  <2>4. InText'
    BY <1>1, <1>3, <1>4, <1>5, <2>3 DEF SInv, InText, Hashed
  <2> QED BY <1>3, <1>5, <1>7, <1>8, <1>9, <2>4 DEF SInv, InNew, InHeader, InDone
<1>10. CASE phase = "done"
  <2>1. mode = "ENCRYPT" /\ T = HashFrom(start) /\ OnTrack(Tag) /\ copy_from = "FROM_AUTH_TAG"
    BY <1>1, <1>10 DEF SInv, InDone
  <2>2. frame_data' = nibble_to_hex(Tag[data_ofs + 1])
    BY <2>1 DEF get_nibble, auth_tag, Tag, TagFrom
  <2>3. OnTrack(Tag)'
    <3>1. Digits(Append(TX, frame_data), data_ofs + 1, nibble_to_hex(Tag[data_ofs + 1]), Tag)
      BY <1>6, <2>1, DigitsGrow DEF OnTrack
    <3> QED BY <1>1, <1>5, <2>2, <3>1 DEF OnTrack
  <2>4. InDone'
    BY <1>1, <1>3, <1>5, <1>10, <2>1, <2>3 DEF SInv, InDone
  <2> QED BY <1>3, <1>5, <1>7, <1>8, <1>10, <2>4 DEF SInv, InNew, InHeader, InText
<1> QED BY <1>2, <1>9, <1>10

\* A text block is answered: the pair goes into the history, its ciphertext into T,
\* and the counter moves on.
LEMMA TextAnswered == ASSUME SInv, IInv, SendLast, HostReads, phase = "text" PROVE SInv'
<1> USE DEF SendLast, FinishReply
<1>1. key' = key /\ mode' = mode /\ state = "WRITING" /\ state' = "IDLE"
      /\ AAD_size' = AAD_size /\ C_size' = C_size /\ copy_to' = copy_to /\ copy_from' = copy_from
      /\ data_ofs = FINAL_NIBBLE /\ TX' = Append(TX, frame_data)
  OBVIOUS
<1>2. phase' = phase /\ aads' = aads /\ sent' = sent /\ start' = start
      /\ texts' = Append(texts, <<iblk, ReadBack(TX')>>)
  BY DEF HostReads
<1>3. copy_from = "FROM_OBLK" /\ IV = CounterAt(J0, Len(texts)) /\ Hashed /\ OnTrack(oblk)
      /\ copy_to \in {"TO_NOWHERE", "TO_BLOCK", "TO_AUTH_TAG"}
  BY <1>1 DEF SInv, InText
<1>4. oblk \in AESBlock /\ iblk \in AESBlock /\ IV \in AESBlock /\ H \in AESBlock
      /\ TX \in Seq(Chars \union {"P", "F"}) /\ frame_data \in Chars \union {"P", "F"}
  BY OutputTypes DEF IInv, TypeOK, FrontTypeOK
<1>5. ReadBack(TX') = oblk
  BY <1>1, <1>3, <1>4, DigitsRead DEF OnTrack
<1>6. IV' = incr_iv(IV, IVNibs)
      /\ T' = ghash_iter(T, IF mode = "ENCRYPT" THEN oblk ELSE iblk, H)
  BY <1>3
<1>7. J0' = J0 /\ H' = H
  BY <1>1, <1>4, <1>6, NonceKept DEF J0, H
<1>8. HistoryOK /\ Len(texts) \in Nat /\ texts \in Seq(AESBlock \X AESBlock)
  BY Bounds DEF SInv, HistoryOK
<1>9. texts' \in Seq(AESBlock \X AESBlock) /\ Len(texts') = Len(texts) + 1
      /\ texts'[Len(texts) + 1] = <<iblk, oblk>>
      /\ \A i \in 1 .. Len(texts) : texts'[i] = texts[i]
  <2> DEFINE pair == <<iblk, oblk>>
  <2>1. pair \in AESBlock \X AESBlock /\ texts' = Append(texts, pair)
    BY <1>2, <1>4, <1>5
  <2> HIDE DEF pair
  <2>2. texts' \in Seq(AESBlock \X AESBlock) /\ Len(texts') = Len(texts) + 1
        /\ texts'[Len(texts) + 1] = pair
        /\ \A i \in 1 .. Len(texts) : texts'[i] = texts[i]
    BY <1>8, <2>1
  <2> QED BY <2>2 DEF pair
<1>10. HistoryOK'
  BY <1>2, <1>9 DEF SInv, HistoryOK
<1>11. SizesOK'
  BY <1>1, <1>2, <1>8, <1>9 DEF SInv, SizesOK
<1>12. Hashed'
  <2> DEFINE b == IF mode = "ENCRYPT" THEN oblk ELSE iblk
  <2>1. Data' = Append(Data, b)
    BY <1>1, <1>2, <1>4, <1>5, <1>8, MoreText
  <2>2. b \in AESBlock
    BY <1>4
  <2>3. T' = ghash_iter(T, b, H)
    BY <1>6
  <2> HIDE DEF b
  <2>4. Data \in Seq(AESBlock)
    BY <1>8, DataType
  <2>5. HashOf(H, start, Append(Data, b)) = ghash_iter(HashOf(H, start, Data), b, H)
    BY <2>2, <2>4, HashOfMore
  <2> QED BY <1>2, <1>3, <1>7, <2>1, <2>3, <2>5 DEF Hashed
<1>13. IV' = CounterAt(J0, Len(texts) + 1)
  BY <1>3, <1>6, <1>8, CounterGoesOn
<1>14. InText'
  BY <1>1, <1>2, <1>3, <1>7, <1>9, <1>12, <1>13 DEF InText
<1>15. CountersAreConsecutive'
  <2>1. ASSUME NEW i, i \in 1 .. Len(texts) + 1
        PROVE  texts'[i][2] = XorBlock(texts'[i][1], Enc(key', CounterAt(J0', i - 1)))
    <3>1. CASE i = Len(texts) + 1
      <4>1. i - 1 = Len(texts)
        BY <3>1, <1>8
      <4>2. texts'[i] = <<iblk, oblk>>
        BY <3>1, <1>9
      <4>3. oblk = XorBlock(iblk, Enc(key, CounterAt(J0, i - 1)))
        BY <4>1, <1>3 DEF oblk
      <4> QED BY <1>1, <1>7, <4>2, <4>3
    <3>2. CASE i # Len(texts) + 1
      <4>1. i \in 1 .. Len(texts) /\ texts'[i] = texts[i]
        BY <2>1, <3>2, <1>8, <1>9
      <4>2. texts[i][2] = XorBlock(texts[i][1], Enc(key, Increment(i - 1)))
        BY <4>1 DEF SInv, CountersAreConsecutive
      <4>3. Increment(i - 1) = CounterAt(J0, i - 1)
        BY IncrementIs
      <4> QED BY <1>1, <1>7, <4>1, <4>2, <4>3
    <3> QED BY <3>1, <3>2
  <2>2. \A n : Increment(n)' = CounterAt(J0', n)
    BY DEF Increment, CounterAt
  <2> QED BY <1>9, <2>1, <2>2 DEF CountersAreConsecutive
<1> QED BY <1>2, <1>10, <1>11, <1>14, <1>15 DEF SInv, InNew, InHeader, InDone

\* A tag or a verdict is out.  After a verdict the controller moves IV and folds T once
\* more, which the history does not depend on.
LEMMA TagAnswered == ASSUME SInv, IInv, SendLast, HostReads, phase = "done" PROVE SInv'
<1> USE DEF SendLast, FinishReply
<1>1. key' = key /\ mode' = mode /\ state = "WRITING" /\ state' = "IDLE"
      /\ AAD_size' = AAD_size /\ C_size' = C_size /\ copy_to' = copy_to
      /\ in_auth_tag' = in_auth_tag
      /\ data_ofs = FINAL_NIBBLE /\ TX' = Append(TX, frame_data)
  OBVIOUS
<1>2. phase' = phase /\ aads' = aads /\ texts' = texts /\ sent' = sent /\ start' = start
  BY DEF HostReads
<1>3. IV \in AESBlock /\ T \in AESBlock /\ auth_tag \in AESBlock
      /\ TX \in Seq(Chars \union {"P", "F"}) /\ frame_data \in Chars \union {"P", "F"}
  BY OutputTypes DEF IInv, TypeOK, FrontTypeOK
<1>4. J0' = J0
  BY <1>3, NonceKept DEF J0
<1>5. Tag' = Tag /\ CountersAreConsecutive' = CountersAreConsecutive
  BY <1>1, <1>2, <1>4, ReferenceKept
<1>6. HistoryOK'
  BY <1>2 DEF SInv, HistoryOK
<1>7. SizesOK'
  BY <1>1, <1>2 DEF SInv, SizesOK
<1>8. mode = "ENCRYPT" => ReadBack(TX') = Tag'
  <2>1. SUFFICES ASSUME mode = "ENCRYPT" PROVE ReadBack(TX') = Tag
    BY <1>5
  <2>2. T = HashFrom(start) /\ OnTrack(Tag)
    BY <1>1, <2>1 DEF SInv, InDone
  <2>3. Tag \in AESBlock
    BY <1>3, <2>2 DEF auth_tag, Tag, TagFrom
  <2> QED BY <1>1, <1>3, <2>2, <2>3, DigitsRead DEF OnTrack
<1>9. mode # "ENCRYPT" => TX' = << Verdict' >>
  BY <1>1, <1>5 DEF SInv, InDone, Verdict
<1>10. InDone'
  BY <1>1, <1>2, <1>8, <1>9 DEF SInv, InDone
<1> QED BY <1>2, <1>5, <1>6, <1>7, <1>10 DEF SInv, InNew, InHeader, InText

LEMMA HostReadsStep == ASSUME SInv, IInv, HostReads PROVE SInv'
<1>1. CASE SendLast
  <2>1. phase \in {"text", "done"}
    BY <1>1 DEF SInv, HistoryOK, InNew, InHeader, SendLast, FinishReply
  <2> QED BY <1>1, <2>1, TextAnswered, TagAnswered
<1> QED BY <1>1, FinalizeStep, SendNextStep DEF HostReads, Transmit

-----------------------------------------------------------------------------
SessionInv == IInv /\ SInv

LEMMA SessionStep == SessionInv /\ [SessionNext]_svars => SessionInv'
<1> SUFFICES ASSUME SessionInv, [SessionNext]_svars PROVE SessionInv'
  OBVIOUS
<1>1. ASSUME NEW c \in Chars,
             \/ Nonce(c) \/ HostKey(c) \/ OpenAAD(c) \/ OpenBlock(c) \/ Crypt(c)
             \/ HostTag(c) \/ Finish(c) \/ NextMessage(c) \/ Digit(c) \/ DigitAAD(c)
      PROVE  SessionInv'
  <2>1. Receive(c)
    BY <1>1 DEF Nonce, HostKey, OpenAAD, OpenBlock, Crypt, HostTag, Finish, NextMessage,
                Digit, DigitAAD, Receive
  <2>2. IInv'
    BY <2>1, TypesStep DEF SessionInv, Next
  <2>3. SInv'
    BY <1>1, NonceStep, HostKeyStep, OpenAADStep, OpenBlockStep, CryptStep, FinishStep,
       NextMessageStep, DigitStep, DigitAADStep DEF SessionInv
  <2> QED BY <2>2, <2>3 DEF SessionInv
<1>2. CASE HostReads
  <2>1. IInv'
    BY <1>2, TransmitTypes DEF SessionInv, HostReads
  <2> QED BY <1>2, <2>1, HostReadsStep DEF SessionInv
<1>3. CASE UNCHANGED svars
  <2>1. /\ key' = key /\ iblk' = iblk /\ IV' = IV /\ mode' = mode /\ T' = T
        /\ state' = state /\ copy_to' = copy_to /\ copy_from' = copy_from
        /\ data_ofs' = data_ofs /\ frame_data' = frame_data /\ TX' = TX
        /\ in_auth_tag' = in_auth_tag /\ AAD_size' = AAD_size /\ C_size' = C_size
        /\ phase' = phase /\ aads' = aads /\ texts' = texts /\ sent' = sent /\ start' = start
    BY <1>3 DEF svars, vars, front, auth, history
  <2>2. IInv'
    BY <1>3, TypesStep DEF SessionInv, svars
  <2>3. J0' = J0 /\ oblk' = oblk
    BY <2>1 DEF J0, oblk
  <2>4. H' = H /\ Data' = Data /\ HashFrom(start)' = HashFrom(start) /\ Tag' = Tag
        /\ CountersAreConsecutive' = CountersAreConsecutive
    BY <2>1, <2>3, ReferenceKept
  <2>5. HistoryOK' /\ SizesOK' /\ InNew'
    BY <2>1 DEF SessionInv, SInv, HistoryOK, SizesOK, InNew
  <2>6. InHeader' /\ InText'
    BY <2>1, <2>3, <2>4 DEF SessionInv, SInv, InHeader, InText, Hashed, OnTrack
  <2>7. InDone'
    BY <2>1, <2>4 DEF SessionInv, SInv, InDone, OnTrack, Verdict
  <2> QED BY <2>2, <2>4, <2>5, <2>6, <2>7 DEF SessionInv, SInv
<1> QED BY <1>1, <1>2, <1>3 DEF SessionNext

LEMMA SessionCorrect == SessionSpec => []SessionInv
<1>1. SessionInit => SessionInv
  BY InitTypes, SessionStarts DEF SessionInit, SessionInv
<1> QED
  BY <1>1, SessionStep, PTL DEF SessionSpec

\* The blocks of every message are enciphered with consecutive counters from J0 on.
THEOREM CountersCorrect == SessionSpec => []CountersAreConsecutive
<1>1. SessionInv => CountersAreConsecutive
  BY DEF SessionInv, SInv
<1> QED
  BY <1>1, SessionCorrect, PTL

\* After F the host has the tag of the whole message, whatever it is made of: every
\* block was folded into T once and in order, and the sizes are those of the message.
THEOREM TagCorrect == SessionSpec => []TagAsBuilt
<1>1. SessionInv => TagAsBuilt
  BY DEF SessionInv, SInv, InDone, Tag, TagAsBuilt, Answered
<1> QED
  BY <1>1, SessionCorrect, PTL

\* After a decryption F accepts exactly that tag.
THEOREM VerdictCorrect == SessionSpec => []VerdictAsBuilt
<1>1. SessionInv => VerdictAsBuilt
  BY DEF SessionInv, SInv, InDone, Tag, Verdict, VerdictAsBuilt, Answered
<1> QED
  BY <1>1, SessionCorrect, PTL
=============================================================================
