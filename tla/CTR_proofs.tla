----------------------------- MODULE CTR_proofs -----------------------------
(***************************************************************************)
(* For registers of any size, any hex characters, any xor that cancels and *)
(* any cipher: the counter mode controller keeps its types, its reply is   *)
(* on track, and it implements the block device of module BlockDevice.     *)
(***************************************************************************)
EXTENDS CTRSession, UARTController_proofs

IInv == TypeOK /\ ReplyOnTrack

LEMMA OblkType == TypeOK => oblk \in AESBlock
BY EncAssumption, XorBlockType DEF TypeOK, FrontTypeOK, oblk, keystream

LEMMA InitInv == Init => IInv
BY ZeroTypes, HexRoundTrip, FinalNibble, SizesAssumption
DEF Init, FrontInit, IInv, TypeOK, FrontTypeOK, ReplyOnTrack, nibble_to_hex, Nibble

\* Commands other than D and E, and hex digits, leave the controller idle.
LEMMA IdleSteps ==
  ASSUME IInv, NEW c \in Chars,
         \/ CmdIV(c) \/ CmdKey(c) \/ CmdBlock(c) \/ CmdReset(c)
         \/ EnterIV(c) \/ EnterKeyDigit(c) \/ EnterBlockDigit(c)
  PROVE  IInv'
<1> USE DEF IInv, TypeOK, FrontTypeOK
<1> SUFFICES TypeOK' /\ state' = "IDLE"
  BY DEF ReplyOnTrack
<1>1. CASE CmdIV(c) \/ CmdKey(c) \/ CmdBlock(c)
  BY <1>1, FinalNibble, SizesAssumption
  DEF CmdIV, CmdKey, CmdBlock, StartKey, StartBlock, OpenEntry, Commanding
<1>2. CASE CmdReset(c)
  BY <1>2, ZeroTypes, FinalNibble DEF CmdReset, ResetFront, Commanding
<1>3. CASE EnterIV(c)
  <2>1. IV' \in AESBlock
    BY <1>3, HexToNibbleType, SetNibbleBlock DEF EnterIV, Entering
  <2> QED
    BY <1>3, <2>1, FinalNibble DEF EnterIV, Entering, StepEntry
<1>4. CASE EnterKeyDigit(c)
  <2>1. key' \in MasterKey
    BY <1>4, HexToNibbleType, SetNibbleKey DEF EnterKeyDigit, EnterKey, Entering
  <2> QED
    BY <1>4, <2>1, FinalNibble, SizesAssumption
    DEF EnterKeyDigit, EnterKey, Entering, StepEntry
<1>5. CASE EnterBlockDigit(c)
  <2>1. iblk' \in AESBlock
    BY <1>5, HexToNibbleType, SetNibbleBlock DEF EnterBlockDigit, EnterBlock, Entering
  <2> QED
    BY <1>5, <2>1, FinalNibble DEF EnterBlockDigit, EnterBlock, Entering, StepEntry
<1> QED
  BY <1>1, <1>2, <1>3, <1>4, <1>5

LEMMA CryptStep == ASSUME IInv, NEW c \in Chars, CmdCrypt(c) PROVE IInv'
<1>0. oblk \in AESBlock
  BY OblkType DEF IInv
<1> USE DEF IInv, TypeOK, FrontTypeOK, CmdCrypt, StartReply, Commanding, ModeOf
<1>1. oblk[0] \in Nibble /\ 0 \in 0 .. FINAL_NIBBLE
  BY <1>0, FinalNibble DEF AESBlock
<1>2. oblk' = oblk
  BY DEF oblk, keystream
<1>3. frame_data' = nibble_to_hex(oblk'[0]) /\ frame_data' \in Chars
  BY <1>1, <1>2, HexRoundTrip DEF get_nibble
<1>4. TypeOK'
  BY <1>3, FinalNibble
<1>5. ReplyOnTrack'
  BY <1>3 DEF ReplyOnTrack
<1> QED
  BY <1>4, <1>5

LEMMA SendNextStep == ASSUME IInv, SendNext PROVE IInv'
<1>0. oblk \in AESBlock
  BY OblkType DEF IInv
<1> USE DEF IInv, TypeOK, FrontTypeOK, SendNext, SendNibble
<1>1. copy_to = "TO_NOWHERE" /\ data_ofs + 1 \in 1 .. FINAL_NIBBLE
  BY FinalNibble DEF ReplyOnTrack
<1>2. oblk[data_ofs + 1] \in Nibble
  BY <1>0, <1>1 DEF AESBlock
<1>3. oblk' = oblk
  BY DEF oblk, keystream
<1>4. frame_data' = nibble_to_hex(oblk'[data_ofs']) /\ frame_data' \in Chars
  BY <1>2, <1>3, HexRoundTrip DEF get_nibble
<1>5. TypeOK'
  BY <1>1, <1>4, FinalNibble
<1>6. Len(TX') = data_ofs'
  BY <1>1 DEF ReplyOnTrack
<1>7. ASSUME NEW i \in 1 .. data_ofs'
      PROVE  TX'[i] = nibble_to_hex(oblk'[i - 1])
  <2>1. CASE i \in 1 .. data_ofs
    BY <1>1, <1>3, <2>1 DEF ReplyOnTrack
  <2>2. CASE i = data_ofs + 1
    BY <1>1, <1>3, <2>2 DEF ReplyOnTrack
  <2>3. i \in 1 .. data_ofs \/ i = data_ofs + 1
    BY <1>1, <1>7
  <2> QED
    BY <2>1, <2>2, <2>3
<1>8. ReplyOnTrack'
  BY <1>1, <1>4, <1>6, <1>7 DEF ReplyOnTrack
<1> QED
  BY <1>5, <1>8

LEMMA SendLastStep == ASSUME IInv, SendLast PROVE IInv'
BY IncrType, FinalNibble, SizesAssumption
DEF IInv, TypeOK, FrontTypeOK, SendLast, FinishReply, ReplyOnTrack

LEMMA InvStep == IInv /\ [Next]_vars => IInv'
<1> SUFFICES ASSUME IInv, [Next]_vars PROVE IInv'
  OBVIOUS
<1>1. ASSUME NEW c \in Chars, Receive(c) PROVE IInv'
  BY <1>1, IdleSteps, CryptStep DEF Receive
<1>2. CASE Transmit
  BY <1>2, SendNextStep, SendLastStep DEF Transmit
<1>3. CASE UNCHANGED vars
  BY <1>3 DEF vars, front, IInv, TypeOK, FrontTypeOK, ReplyOnTrack, oblk, keystream
<1> QED
  BY <1>1, <1>2, <1>3 DEF Next

LEMMA InvCorrect == Safety => []IInv
<1> QED
  BY InitInv, InvStep, PTL DEF Safety

\* Every register keeps its type and data_ofs stays inside the register it
\* points into.
THEOREM TypeCorrect == Spec => []TypeOK
<1>1. IInv => TypeOK
  BY DEF IInv
<1> QED
  BY <1>1, InvCorrect, PTL DEF Spec

\* At every moment of a reply the digits on the line are those of the output
\* block, although the block is computed anew for each of them.
THEOREM ReplyCorrect == Spec => []ReplyOnTrack
<1>1. IInv => ReplyOnTrack
  BY DEF IInv
<1> QED
  BY <1>1, InvCorrect, PTL DEF Spec

-----------------------------------------------------------------------------
(* The refinement: which step of the block device each action is. *)

\* No reply is complete while one is being sent.
LEMMA ReplyGrows == IInv /\ state = "WRITING" => Len(TX) # BlockNibs
BY FinalNibble DEF IInv, TypeOK, ReplyOnTrack

LEMMA DeviceInit == Init => Device!Init
BY SizesAssumption DEF Init, FrontInit, Device!Init

LEMMA DeviceIdleSteps ==
  ASSUME IInv, NEW c \in Chars,
         \/ CmdIV(c) \/ CmdKey(c) \/ CmdBlock(c) \/ CmdReset(c)
         \/ EnterIV(c) \/ EnterKeyDigit(c) \/ EnterBlockDigit(c)
  PROVE  [Device!Next]_Device!vars
<1>0. IInv'
  BY IdleSteps
<1> USE DEF Device!Next, Device!vars, Device!Free
<1>1. CASE CmdIV(c)
  <2>1. Device!OpenIV
    BY <1>1 DEF CmdIV, OpenEntry, Commanding, Device!OpenIV
  <2> QED
    BY <2>1
<1>2. CASE CmdKey(c)
  <2>1. Device!OpenKey
    BY <1>2 DEF CmdKey, StartKey, OpenEntry, Commanding, Device!OpenKey
  <2> QED
    BY <2>1
<1>3. CASE CmdBlock(c)
  <2>1. Device!OpenBlock
    BY <1>3 DEF CmdBlock, StartBlock, OpenEntry, Commanding, Device!OpenBlock
  <2> QED
    BY <2>1
<1>4. CASE CmdReset(c)
  <2>1. Device!Reset
    BY <1>4 DEF CmdReset, ResetFront, Commanding, Device!Reset
  <2> QED
    BY <2>1
<1>5. CASE EnterIV(c)
  <2>1. CASE data_ofs = FINAL_NIBBLE
    <3>1. Device!CloseIV
      BY <1>0, <1>5, <2>1
      DEF EnterIV, Entering, StepEntry, Device!CloseIV, IInv, TypeOK
    <3> QED
      BY <3>1
  <2>2. CASE data_ofs # FINAL_NIBBLE
    BY <1>5, <2>2 DEF EnterIV, Entering, StepEntry
  <2> QED
    BY <2>1, <2>2
<1>6. CASE EnterKeyDigit(c)
  <2>1. CASE data_ofs = KeyNibs - 1
    <3>1. Device!CloseKey
      BY <1>0, <1>6, <2>1
      DEF EnterKeyDigit, EnterKey, Entering, StepEntry, Device!CloseKey,
          IInv, TypeOK, FrontTypeOK
    <3> QED
      BY <3>1
  <2>2. CASE data_ofs # KeyNibs - 1
    BY <1>6, <2>2 DEF EnterKeyDigit, EnterKey, Entering, StepEntry
  <2> QED
    BY <2>1, <2>2
<1>7. CASE EnterBlockDigit(c)
  <2>1. CASE data_ofs = FINAL_NIBBLE
    <3>1. Device!CloseBlock
      BY <1>0, <1>7, <2>1
      DEF EnterBlockDigit, EnterBlock, Entering, StepEntry, Device!CloseBlock,
          IInv, TypeOK, FrontTypeOK
    <3> QED
      BY <3>1
  <2>2. CASE data_ofs # FINAL_NIBBLE
    BY <1>7, <2>2 DEF EnterBlockDigit, EnterBlock, Entering, StepEntry
  <2> QED
    BY <2>1, <2>2
<1> QED
  BY <1>1, <1>2, <1>3, <1>4, <1>5, <1>6, <1>7

LEMMA DeviceRequest ==
  ASSUME IInv, NEW c \in Chars, CmdCrypt(c) PROVE Device!Request
<1>1. Len(TX') = 0 /\ Len(TX') # BlockNibs
  BY SizesAssumption DEF CmdCrypt, StartReply
<1> QED
  BY <1>1 DEF CmdCrypt, StartReply, Commanding, ModeOf, Device!Request, Device!Free

\* A digit that is not the last one does not show at block level.
LEMMA DeviceSendNext ==
  ASSUME IInv, SendNext PROVE UNCHANGED Device!vars
<1>1. IInv' /\ state' = "WRITING" /\ state = "WRITING"
  BY SendNextStep DEF SendNext, SendNibble
<1>2. Len(TX) # BlockNibs
  BY <1>1, ReplyGrows
<1>3. Len(TX') # BlockNibs
  BY <1>1, FinalNibble DEF IInv, TypeOK, ReplyOnTrack
<1> QED
  BY <1>1, <1>2, <1>3 DEF SendNext, SendNibble, Device!vars

\* With the last digit the line holds the digits of the whole output block.
LEMMA DeviceAnswer == ASSUME IInv, SendLast PROVE Device!Answer
<1>0. oblk \in AESBlock
  BY OblkType DEF IInv
<1>1. Len(TX') = BlockNibs
  BY FinalNibble DEF IInv, TypeOK, FrontTypeOK, ReplyOnTrack, SendLast, FinishReply
<1>2. ASSUME NEW i \in 0 .. FINAL_NIBBLE PROVE hex_to_nibble(TX'[i + 1]) = oblk[i]
  <2>1. TX'[i + 1] = nibble_to_hex(oblk[i])
    <3>1. CASE i = FINAL_NIBBLE
      BY <3>1, FinalNibble
      DEF IInv, TypeOK, FrontTypeOK, ReplyOnTrack, SendLast, FinishReply
    <3>2. CASE i # FINAL_NIBBLE
      <4>1. i + 1 \in 1 .. FINAL_NIBBLE /\ (i + 1) - 1 = i
        BY <3>2, FinalNibble
      <4>2. TX[i + 1] = nibble_to_hex(oblk[i])
        BY <4>1 DEF IInv, ReplyOnTrack, SendLast, FinishReply
      <4> QED
        BY <4>1, <4>2, FinalNibble
        DEF IInv, TypeOK, FrontTypeOK, ReplyOnTrack, SendLast, FinishReply
    <3> QED
      BY <3>1, <3>2
  <2>2. oblk[i] \in Nibble
    BY <1>0 DEF AESBlock
  <2> QED
    BY <2>1, <2>2, HexRoundTrip
<1>3. ReadBack(TX') = oblk
  BY <1>0, <1>2 DEF ReadBack, AESBlock
<1>4. copy_to = "TO_NOWHERE" /\ copy_to' = "TO_NOWHERE"
  BY DEF IInv, ReplyOnTrack, SendLast, FinishReply
<1> QED
  BY <1>1, <1>3, <1>4
  DEF SendLast, FinishReply, Device!Answer, CTROut, CTRChain, oblk, keystream

LEMMA DeviceStep == IInv /\ [Next]_vars => [Device!Next]_Device!vars
<1> SUFFICES ASSUME IInv, [Next]_vars PROVE [Device!Next]_Device!vars
  OBVIOUS
<1>1. ASSUME NEW c \in Chars, Receive(c) PROVE [Device!Next]_Device!vars
  BY <1>1, DeviceIdleSteps, DeviceRequest DEF Receive, Device!Next
<1>2. CASE Transmit
  BY <1>2, DeviceSendNext, DeviceAnswer DEF Transmit, Device!Next
<1>3. CASE UNCHANGED vars
  BY <1>3 DEF vars, front, Device!vars
<1> QED
  BY <1>1, <1>2, <1>3 DEF Next

\* The controller implements the block device: every step is one of its
\* steps, or none.  (That requests are answered is left to TLC.)
THEOREM Implements == Spec => Device!Safety
BY InitInv, InvStep, DeviceInit, DeviceStep, PTL DEF Spec, Safety, Device!Safety
-----------------------------------------------------------------------------
(* The counter goes through all blocks: a set of blocks that incr_iv does  *)
(* not leave is empty or has them all.                                     *)

Closed(S) == S \subseteq AESBlock /\ \A x \in S : incr_iv(x, 0) \in S

Zeros(x, p) == \A j \in p .. FINAL_NIBBLE : x[j] = 0
Alike(x, y, p) == \A j \in 0 .. p - 1 : x[j] = y[j]

\* The block with the digits of x before p, then d, then all of the highest value.
Full(x, p, d) == [j \in 0 .. FINAL_NIBBLE |-> IF j < p THEN x[j] ELSE IF j = p THEN d ELSE Radix - 1]

\* The same with zeros in place of the highest value.
Empty(x, p, d) == [j \in 0 .. FINAL_NIBBLE |-> IF j < p THEN x[j] ELSE IF j = p THEN d ELSE 0]

LEMMA BlocksAt ==
  ASSUME NEW x \in AESBlock, NEW p \in 0 .. FINAL_NIBBLE, NEW d \in Nibble
  PROVE  Full(x, p, d) \in AESBlock /\ Empty(x, p, d) \in AESBlock
BY SizesAssumption DEF Full, Empty, AESBlock, Nibble

LEMMA FullAt ==
  ASSUME NEW x, NEW p \in 0 .. FINAL_NIBBLE, NEW d \in Nibble
  PROVE  Alike(x, Full(x, p, d), p) /\ Full(x, p, d)[p] = d
<1>1. FINAL_NIBBLE \in Nat /\ p \in Nat
  BY FinalNibble
<1>2. \A j \in 0 .. p - 1 : Full(x, p, d)[j] = x[j]
  BY <1>1 DEF Full
<1>3. Full(x, p, d)[p] = d
  BY <1>1 DEF Full
<1> QED BY <1>2, <1>3 DEF Alike

\* The carry: after the last block with a digit comes the first with the next one.
LEMMA CarryAt ==
  ASSUME NEW x \in AESBlock, NEW p \in 0 .. FINAL_NIBBLE, NEW d \in Nibble, d # Radix - 1
  PROVE  incr_iv(Full(x, p, d), 0) = Empty(x, p, d + 1)
<1> DEFINE f == Full(x, p, d)
<1>1. FINAL_NIBBLE \in Nat /\ Radix \in Nat /\ p \in Nat /\ d \in Nat
  BY FinalNibble, SizesAssumption DEF Nibble
<1>2. /\ \A j \in 0 .. FINAL_NIBBLE : j < p => f[j] = x[j]
      /\ f[p] = d
      /\ \A j \in 0 .. FINAL_NIBBLE : j > p => f[j] = Radix - 1
  BY <1>1 DEF Full
<1> HIDE DEF f
<1>3. ASSUME NEW i \in 0 .. FINAL_NIBBLE
      PROVE  (IF i >= 0 /\ \A j \in i + 1 .. FINAL_NIBBLE : f[j] = Radix - 1
                THEN IF f[i] = Radix - 1 THEN 0 ELSE f[i] + 1
                ELSE f[i])
             = IF i < p THEN x[i] ELSE IF i = p THEN d + 1 ELSE 0
  <2>1. CASE i < p
    <3>1. p \in i + 1 .. FINAL_NIBBLE /\ f[p] # Radix - 1
      BY <1>1, <1>2, <2>1
    <3> QED BY <3>1, <2>1, <1>2
  <2>2. CASE ~(i < p)
    <3>1. i >= 0 /\ \A j \in i + 1 .. FINAL_NIBBLE : f[j] = Radix - 1
      BY <1>1, <1>2, <2>2
    <3>2. i # p => i > p
      BY <1>1, <2>2
    <3> QED BY <3>1, <3>2, <2>2, <1>1, <1>2
  <2> QED BY <2>1, <2>2
<1>4. incr_iv(f, 0) = Empty(x, p, d + 1)
  BY <1>3 DEF incr_iv, Empty
<1> QED BY <1>4 DEF f

\* After the last block of all those with the same digits before p comes one with
\* zeros from p on.
LEMMA WrapAt ==
  ASSUME NEW x \in AESBlock, NEW p \in 0 .. FINAL_NIBBLE
  PROVE  Zeros(incr_iv(Full(x, p, Radix - 1), 0), p)
<1> DEFINE f == Full(x, p, Radix - 1)
<1>1. FINAL_NIBBLE \in Nat /\ Radix \in Nat /\ p \in Nat
  BY FinalNibble, SizesAssumption
<1>2. \A j \in 0 .. FINAL_NIBBLE : j >= p => f[j] = Radix - 1
  BY <1>1 DEF Full
<1> HIDE DEF f
<1>3. ASSUME NEW j \in p .. FINAL_NIBBLE PROVE incr_iv(f, 0)[j] = 0
  <2>1. j \in 0 .. FINAL_NIBBLE /\ j >= 0 /\ f[j] = Radix - 1
    BY <1>1, <1>2
  <2>2. \A i \in j + 1 .. FINAL_NIBBLE : f[i] = Radix - 1
    BY <1>1, <1>2
  <2> QED BY <2>1, <2>2 DEF incr_iv
<1> QED BY <1>3 DEF Zeros, f

\* From a block with zeros behind its first p digits, the counter reaches all that
\* have the same p digits.
Covers(S, p) ==
  \A x \in S : Zeros(x, p) => \A y \in AESBlock : Alike(x, y, p) => y \in S

LEMMA CoversMore ==
  ASSUME NEW S, Closed(S), NEW p \in 0 .. FINAL_NIBBLE, Covers(S, p + 1)
  PROVE  Covers(S, p)
<1>1. FINAL_NIBBLE \in Nat /\ Radix \in Nat /\ p \in Nat /\ Nibble = 0 .. Radix - 1 /\ 0 \in Nibble
  BY FinalNibble, SizesAssumption DEF Nibble
<1> SUFFICES ASSUME NEW x \in S, Zeros(x, p), NEW y \in AESBlock, Alike(x, y, p) PROVE y \in S
  BY DEF Covers
<1>2. x \in AESBlock
  BY DEF Closed
<1>3. ASSUME NEW d \in Nibble, NEW z \in AESBlock, Empty(x, p, d) \in S,
             Alike(x, z, p), z[p] = d
      PROVE  z \in S
  <2>1. Zeros(Empty(x, p, d), p + 1)
    BY <1>1 DEF Zeros, Empty
  <2>2. Alike(Empty(x, p, d), z, p + 1)
    BY <1>1, <1>3 DEF Alike, Empty
  <2> QED BY <1>3, <2>1, <2>2 DEF Covers
<1> DEFINE Missed == {d \in Nibble : Empty(x, p, d) \notin S}
<1>4. Missed = {}
  <2> SUFFICES ASSUME Missed # {} PROVE FALSE
    OBVIOUS
  <2>1. Missed \subseteq Nat
    BY <1>1
  <2>2. PICK m \in Missed : \A k \in Missed : ~(k < m)
    BY <2>1, LeastNumber
  <2>3. Empty(x, p, 0) = x
    BY <1>1, <1>2 DEF Empty, Zeros, AESBlock
  <2>4. m # 0 /\ m \in Nibble /\ Empty(x, p, m) \notin S
    BY <2>2, <2>3
  <2>5. m - 1 \in Nibble /\ m - 1 # Radix - 1 /\ (m - 1) + 1 = m /\ m - 1 < m
    BY <2>4, <1>1
  <2>6. Empty(x, p, m - 1) \in S
    BY <2>2, <2>5
  <2>7. Full(x, p, m - 1) \in AESBlock
    BY <1>2, <2>5, BlocksAt
  <2>8. Alike(x, Full(x, p, m - 1), p) /\ Full(x, p, m - 1)[p] = m - 1
    BY <2>5, FullAt
  <2>9. Full(x, p, m - 1) \in S
    BY <1>3, <2>5, <2>6, <2>7, <2>8
  <2>10. incr_iv(Full(x, p, m - 1), 0) = Empty(x, p, m)
    BY <1>2, <2>5, CarryAt
  <2> QED BY <2>4, <2>9, <2>10 DEF Closed
<1>5. y[p] \in Nibble
  BY DEF AESBlock
<1> QED BY <1>3, <1>4, <1>5

LEMMA CoversAll == ASSUME NEW S, Closed(S) PROVE \A p \in 0 .. FINAL_NIBBLE + 1 : Covers(S, p)
<1>1. FINAL_NIBBLE \in Nat
  BY FinalNibble
<1> DEFINE Bad == {k \in 0 .. FINAL_NIBBLE + 1 : ~Covers(S, FINAL_NIBBLE + 1 - k)}
<1>2. Bad = {}
  <2> SUFFICES ASSUME Bad # {} PROVE FALSE
    OBVIOUS
  <2>1. Bad \subseteq Nat
    BY <1>1
  <2>2. PICK m \in Bad : \A k \in Bad : ~(k < m)
    BY <2>1, LeastNumber
  <2>3. m \in 0 .. FINAL_NIBBLE + 1 /\ ~Covers(S, FINAL_NIBBLE + 1 - m)
    BY <2>2
  <2>4. CASE m = 0
    <3>1. \A x, y \in AESBlock : Alike(x, y, FINAL_NIBBLE + 1) => x = y
      BY <1>1 DEF Alike, AESBlock
    <3> QED BY <2>3, <2>4, <3>1, <1>1 DEF Covers, Closed
  <2>5. CASE m # 0
    <3>1. /\ FINAL_NIBBLE + 1 - m \in 0 .. FINAL_NIBBLE
          /\ FINAL_NIBBLE + 1 - (m - 1) = (FINAL_NIBBLE + 1 - m) + 1
          /\ m - 1 \in 0 .. FINAL_NIBBLE + 1 /\ m - 1 < m
      BY <1>1, <2>3, <2>5
    <3>2. Covers(S, (FINAL_NIBBLE + 1 - m) + 1)
      BY <2>2, <3>1
    <3> QED BY <2>3, <3>1, <3>2, CoversMore
  <2> QED BY <2>4, <2>5
<1>3. ASSUME NEW p \in 0 .. FINAL_NIBBLE + 1 PROVE Covers(S, p)
  <2>1. FINAL_NIBBLE + 1 - p \in 0 .. FINAL_NIBBLE + 1 /\ FINAL_NIBBLE + 1 - (FINAL_NIBBLE + 1 - p) = p
    BY <1>1
  <2>2. FINAL_NIBBLE + 1 - p \notin Bad
    BY <1>2
  <2> QED BY <2>1, <2>2
<1> QED BY <1>3

\* From whatever block, the counter comes to a block with zeros from p on.
Wraps(S, p) == \E x \in S : Zeros(x, p)

LEMMA WrapsMore ==
  ASSUME NEW S, Closed(S), NEW p \in 0 .. FINAL_NIBBLE, Wraps(S, p + 1)
  PROVE  Wraps(S, p)
<1>1. FINAL_NIBBLE \in Nat /\ Radix \in Nat /\ p \in Nat /\ Nibble = 0 .. Radix - 1
      /\ Radix - 1 \in Nibble
  BY FinalNibble, SizesAssumption DEF Nibble
<1>2. \A z \in S : z \in AESBlock /\ z[p] \in Nibble
  BY DEF Closed, AESBlock
<1> DEFINE Room == {e \in Nat : \E z \in S : Zeros(z, p + 1) /\ e = Radix - 1 - z[p]}
<1>3. Room # {} /\ Room \subseteq Nat
  <2>1. PICK z \in S : Zeros(z, p + 1)
    BY DEF Wraps
  <2>2. Radix - 1 - z[p] \in Nat
    BY <1>1, <1>2
  <2> QED BY <2>1, <2>2
<1>4. PICK m \in Room : \A k \in Room : ~(k < m)
  BY <1>3, LeastNumber
<1>5. PICK z \in S : Zeros(z, p + 1) /\ m = Radix - 1 - z[p]
  BY <1>4
<1> DEFINE f == Full(z, p, z[p])
<1>6. f \in AESBlock /\ Alike(z, f, p) /\ f[p] = z[p]
  BY <1>2, BlocksAt, FullAt
<1>12. Alike(z, f, p + 1)
  <2> HIDE DEF f
  <2> QED BY <1>1, <1>6 DEF Alike
<1>7. Covers(S, p + 1)
  BY <1>1, CoversAll
<1>8. f \in S
  BY <1>5, <1>6, <1>12, <1>7 DEF Covers
<1>9. incr_iv(f, 0) \in S
  BY <1>8 DEF Closed
<1>10. CASE z[p] = Radix - 1
  <2>1. Zeros(incr_iv(f, 0), p)
    BY <1>2, <1>10, WrapAt
  <2> QED BY <1>9, <2>1 DEF Wraps
<1>11. CASE z[p] # Radix - 1
  <2>1. incr_iv(f, 0) = Empty(z, p, z[p] + 1)
    BY <1>2, <1>11, CarryAt
  <2>2. Zeros(Empty(z, p, z[p] + 1), p + 1) /\ Empty(z, p, z[p] + 1)[p] = z[p] + 1
    BY <1>1 DEF Zeros, Empty
  <2>3. Radix - 1 - (z[p] + 1) \in Nat /\ Radix - 1 - (z[p] + 1) < m
    BY <1>1, <1>2, <1>5, <1>11
  <2>4. Radix - 1 - (z[p] + 1) \in Room
    BY <1>9, <2>1, <2>2, <2>3
  <2> QED BY <1>4, <2>3, <2>4
<1> QED BY <1>10, <1>11

LEMMA CycleHasAll == ASSUME NEW S, Closed(S), S # {} PROVE S = AESBlock
<1>1. FINAL_NIBBLE \in Nat
  BY FinalNibble
<1> DEFINE Bad == {k \in 0 .. FINAL_NIBBLE + 1 : ~Wraps(S, FINAL_NIBBLE + 1 - k)}
<1>2. Bad = {}
  <2> SUFFICES ASSUME Bad # {} PROVE FALSE
    OBVIOUS
  <2>1. Bad \subseteq Nat
    BY <1>1
  <2>2. PICK m \in Bad : \A k \in Bad : ~(k < m)
    BY <2>1, LeastNumber
  <2>3. m \in 0 .. FINAL_NIBBLE + 1 /\ ~Wraps(S, FINAL_NIBBLE + 1 - m)
    BY <2>2
  <2>4. CASE m = 0
    BY <2>3, <2>4, <1>1 DEF Wraps, Zeros
  <2>5. CASE m # 0
    <3>1. /\ FINAL_NIBBLE + 1 - m \in 0 .. FINAL_NIBBLE
          /\ FINAL_NIBBLE + 1 - (m - 1) = (FINAL_NIBBLE + 1 - m) + 1
          /\ m - 1 \in 0 .. FINAL_NIBBLE + 1 /\ m - 1 < m
      BY <1>1, <2>3, <2>5
    <3>2. Wraps(S, (FINAL_NIBBLE + 1 - m) + 1)
      BY <2>2, <3>1
    <3> QED BY <2>3, <3>1, <3>2, WrapsMore
  <2> QED BY <2>4, <2>5
<1>3. Wraps(S, 0)
  <2>1. FINAL_NIBBLE + 1 \in 0 .. FINAL_NIBBLE + 1 /\ FINAL_NIBBLE + 1 - (FINAL_NIBBLE + 1) = 0
    BY <1>1
  <2>2. FINAL_NIBBLE + 1 \notin Bad
    BY <1>2
  <2> QED BY <2>1, <2>2
<1>4. PICK x \in S : Zeros(x, 0)
  BY <1>3 DEF Wraps
<1>5. Covers(S, 0)
  BY <1>1, CoversAll
<1>6. \A y \in AESBlock : Alike(x, y, 0)
  BY DEF Alike
<1> QED BY <1>4, <1>5, <1>6 DEF Covers, Closed

-----------------------------------------------------------------------------
(* The counter blocks of a session. *)

\* What was used is a stretch of the cycle that ends before IV.
Stretch == used \subseteq AESBlock /\ \A x \in used : incr_iv(x, 0) \in used \union {IV}

SessionInv == IInv /\ Stretch

LEMMA SessionStart == SessionInit => SessionInv
BY InitInv DEF SessionInit, SessionInv, Stretch

LEMMA SessionStep == SessionInv /\ [SessionNext]_svars => SessionInv'
<1> SUFFICES ASSUME SessionInv, [SessionNext]_svars PROVE SessionInv'
  OBVIOUS
<1>1. IInv'
  BY InvStep DEF SessionInv, SessionNext, svars
<1>2. IV \in AESBlock /\ IV' \in AESBlock
  BY <1>1 DEF SessionInv, IInv, TypeOK
<1>3. ASSUME used' = used \union {IV}, SendLast PROVE Stretch'
  BY <1>2, <1>3 DEF SendLast, SessionInv, Stretch
<1>4. ASSUME used' = {} PROVE Stretch'
  BY <1>4 DEF Stretch
<1>5. ASSUME used' = used, IV' = IV PROVE Stretch'
  BY <1>5 DEF SessionInv, Stretch
<1>6. CASE SessionNext
  BY <1>6, <1>1, <1>3, <1>4, <1>5 DEF SessionNext, SessionInv
<1>7. CASE UNCHANGED svars
  BY <1>7, <1>1, <1>5 DEF svars, vars, SessionInv
<1> QED
  BY <1>6, <1>7

LEMMA StretchIsFresh == SessionInv => CountersAreFresh
<1> SUFFICES ASSUME SessionInv, IV \in used PROVE used = AESBlock
  BY FiniteBlocks DEF CountersAreFresh
<1>1. Closed(used)
  BY DEF Closed, SessionInv, Stretch
<1> QED
  BY <1>1, CycleHasAll

\* Under one key and nonce no counter block is used a second time before all of them
\* have been, whatever the size of a block and whatever the host sends.
THEOREM CountersStayFresh == SessionSpec => []CountersAreFresh
<1> QED
  BY SessionStart, SessionStep, StretchIsFresh, PTL DEF SessionSpec
=============================================================================
