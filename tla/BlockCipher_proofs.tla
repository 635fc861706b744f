-------------------------- MODULE BlockCipher_proofs --------------------------
(***************************************************************************)
(* A block on its way through the FPGA.  The cipher: for every key and     *)
(* every block, what it encrypts it decrypts.  The pipeline of rounds      *)
(* settles, for any number of rounds and any round functions.  And for     *)
(* registers of any size, any hex characters, any xor and any cipher: what *)
(* exactly ECB answers with the settled cipher, and that the messages of   *)
(* CBC are chained as they should be.  Last, the product that hashes a     *)
(* block in GCM: ghash_iter multiplies in the field, whatever its width    *)
(* and modulus.                                                            *)
(***************************************************************************)
EXTENDS MC_Controllers, BlockPipeline, AES, UARTController_proofs, SequenceTheorems,
        GHashLoop

(* The pipeline. *)

LEMMA NetType == PipelineTypeOK => \A i \in 1 .. Rounds : net(i) \in Blocks
<1> SUFFICES ASSUME PipelineTypeOK, NEW i \in 1 .. Rounds PROVE net(i) \in Blocks
  OBVIOUS
<1>1. CASE i = 1
  BY <1>1, PipelineAssumption DEF PipelineTypeOK, net
<1>2. CASE i # 1
  <2>1. i - 1 \in 1 .. Rounds
    BY <1>2, PipelineAssumption
  <2>2. reg[i - 1] \in Blocks
    BY <2>1 DEF PipelineTypeOK
  <2>3. Mix(in_key, i - 1, reg[i - 1]) \in Blocks
    BY <2>1, <2>2, PipelineAssumption DEF PipelineTypeOK
  <2> QED
    BY <1>2, <2>3 DEF net
<1> QED
  BY <1>1, <1>2

\* The registers, the inputs and the age keep their types.
THEOREM PipelineTypes == PipelineSpec => []PipelineTypeOK
<1>1. PipelineInit => PipelineTypeOK
  BY PipelineAssumption DEF PipelineInit, PipelineTypeOK
<1>2. PipelineTypeOK /\ [Tick]_pipeline => PipelineTypeOK'
  <2> SUFFICES ASSUME PipelineTypeOK, [Tick]_pipeline PROVE PipelineTypeOK'
    OBVIOUS
  <2>1. CASE Tick
    <3>1. \A i \in 1 .. Rounds : Sub(net(i)) \in Blocks
      BY NetType, PipelineAssumption DEF PipelineTypeOK
    <3>2. reg' \in [1 .. Rounds -> Blocks]
      BY <2>1, <3>1 DEF Tick
    <3> QED
      BY <2>1, <3>2, PipelineAssumption DEF Tick, PipelineTypeOK
  <2>2. CASE UNCHANGED pipeline
    BY <2>2 DEF pipeline, PipelineTypeOK
  <2> QED
    BY <2>1, <2>2
<1> QED
  BY <1>1, <1>2, PTL DEF PipelineSpec

\* While the inputs stay the same the wave front moves on by one round.
LEMMA WaveStep == PipelineTypeOK /\ WaveFront /\ [Tick]_pipeline => WaveFront'
<1> SUFFICES ASSUME PipelineTypeOK, WaveFront, [Tick]_pipeline PROVE WaveFront'
  OBVIOUS
<1>1. CASE Tick
  <2> SUFFICES ASSUME NEW v \in RunsOf(in_key', in_block'), NEW i \in 1 .. age'
               PROVE  reg'[i] = Sub(v[i - 1])
    BY DEF WaveFront
  <2>1. in_key' = in_key /\ in_block' = in_block
    BY <1>1 DEF Tick
  <2>2. v \in RunsOf(in_key, in_block) /\ IsRunOf(in_key, in_block, v)
    BY <2>1 DEF RunsOf
  <2>3. i \in 1 .. Rounds /\ i - 1 \in 0 .. age
    BY <1>1, PipelineAssumption DEF Tick, PipelineTypeOK
  <2>4. reg'[i] = Sub(net(i))
    BY <1>1, <2>3 DEF Tick
  <2>5. net(i) = v[i - 1]
    <3>1. CASE i = 1
      BY <2>2, <3>1 DEF net, IsRunOf
    <3>2. CASE i # 1
      <4>1. i - 1 \in 1 .. age /\ i - 1 \in 1 .. Rounds
        BY <2>3, <3>2, PipelineAssumption
      <4>2. reg[i - 1] = Sub(v[(i - 1) - 1])
        BY <2>2, <4>1 DEF WaveFront
      <4>3. v[i - 1] = Mix(in_key, i - 1, Sub(v[(i - 1) - 1]))
        BY <2>2, <4>1 DEF IsRunOf
      <4> QED
        BY <3>2, <4>2, <4>3 DEF net
    <3> QED
      BY <3>1, <3>2
  <2> QED
    BY <2>4, <2>5
<1>2. CASE UNCHANGED pipeline
  BY <1>2 DEF pipeline, WaveFront, RunsOf
<1> QED
  BY <1>1, <1>2

\* Behind the wave front no register is stale.
THEOREM WaveCorrect == PipelineSpec => []WaveFront
<1>1. PipelineInit => WaveFront
  BY DEF PipelineInit, WaveFront
<1> QED
  BY <1>1, WaveStep, PipelineTypes, PTL DEF PipelineSpec

\* After Rounds clock edges without a change of the inputs the output is the
\* cipher of the inputs, for every number of rounds and all round functions.
THEOREM Settles == PipelineSpec => []OutputSettles
<1>1. PipelineTypeOK /\ WaveFront => OutputSettles
  <2> SUFFICES ASSUME PipelineTypeOK, WaveFront, age = Rounds,
                      NEW v \in RunsOf(in_key, in_block)
               PROVE  output = v[Rounds]
    BY DEF OutputSettles
  <2>1. Rounds \in 1 .. age /\ Rounds \in 1 .. Rounds
    BY PipelineAssumption
  <2>2. reg[Rounds] = Sub(v[Rounds - 1])
    BY <2>1 DEF WaveFront
  <2>3. v[Rounds] = Mix(in_key, Rounds, Sub(v[Rounds - 1]))
    BY <2>1 DEF RunsOf, IsRunOf
  <2> QED
    BY <2>2, <2>3 DEF output
<1> QED
  BY <1>1, PipelineTypes, WaveCorrect, PTL

-----------------------------------------------------------------------------
(* The invariant of the controllers. *)

\* The output block of the controller that was built.
oblk == IF built = "ECB" THEN E!oblk ELSE C!oblk

FrontTypes ==
  /\ FrontTypeOK(Chars)
  /\ state \in {"IDLE", "WRITING"}
  /\ copy_to \in {"TO_NOWHERE", "TO_KEY", "TO_IV", "TO_BLOCK"}
  /\ data_ofs \in 0 .. (IF copy_to = "TO_KEY" THEN KeyNibs - 1 ELSE FINAL_NIBBLE)

HostTypes ==
  /\ built \in {"ECB", "CBC"}
  /\ before \in {"ENCRYPT", "DECRYPT"}
  /\ IV \in AESBlock /\ first \in AESBlock
  /\ message \in Seq(AESBlock \X AESBlock)
  /\ steady \in BOOLEAN
  /\ built = "ECB" => message = << >>

\* The line holds the first data_ofs digits of a reply and frame_data the next one,
\* where the reply is o with d in place of its first digit.
Replies(o, d) ==
  /\ copy_to = "TO_NOWHERE"
  /\ Len(TX) = data_ofs
  /\ \A i \in 1 .. data_ofs : TX[i] = nibble_to_hex(IF i = 1 THEN d ELSE o[i - 1])
  /\ frame_data = nibble_to_hex(IF data_ofs = 0 THEN d ELSE o[data_ofs])

\* What the first digit of a reply is: it was latched before the mode changed.
Latched(d) ==
  /\ d \in Nibble
  /\ built = "ECB" => d = E!Output(before, key, iblk)[0]
  /\ built = "CBC" => (steady => d = C!oblk[0])

ReplyOnTrack == state = "WRITING" => \E d \in Nibble : Latched(d) /\ Replies(oblk, d)

MessageInv == C!ChainIsKept /\ SteadyMessageIsCBC

IInv == FrontTypes /\ HostTypes /\ ReplyOnTrack /\ MessageInv
-----------------------------------------------------------------------------
(* What the actions that the controllers share do with a reply. *)

LEMMA RequestReplies ==
  ASSUME FrontTypes, NEW c, NEW o \in AESBlock, NEW p, StartReply(c, o)
  PROVE  Replies(p, o[0])'
BY DEF StartReply, Commanding, Replies, get_nibble

LEMMA DigitReplies ==
  ASSUME FrontTypes, NEW o \in AESBlock, NEW d \in Nibble, Replies(o, d),
         SendNibble(o[data_ofs + 1])
  PROVE  Replies(o, d)'
<1> USE DEF SendNibble
<1>1. copy_to = "TO_NOWHERE" /\ Len(TX) = data_ofs /\ data_ofs \in 0 .. FINAL_NIBBLE
  BY DEF Replies, FrontTypes
<1>2. FINAL_NIBBLE \in Nat /\ TX \in Seq(Chars) /\ frame_data \in Chars
  BY FinalNibble DEF FrontTypes, FrontTypeOK
<1>3. data_ofs + 1 \in 1 .. FINAL_NIBBLE
  BY <1>1, <1>2
<1>4. Len(TX') = data_ofs' /\ data_ofs' = data_ofs + 1
  BY <1>1, <1>2
<1>5. ASSUME NEW i \in 1 .. data_ofs'
      PROVE  TX'[i] = nibble_to_hex(IF i = 1 THEN d ELSE o[i - 1])
  <2>1. CASE i \in 1 .. data_ofs
    <3>1. TX'[i] = TX[i]
      BY <1>1, <1>2, <2>1
    <3> QED
      BY <2>1, <3>1 DEF Replies
  <2>2. CASE i = data_ofs + 1
    <3>1. TX'[i] = frame_data
      BY <1>1, <1>2, <2>2
    <3>2. i - 1 = data_ofs /\ (i = 1 <=> data_ofs = 0)
      BY <1>1, <1>2, <2>2
    <3> QED
      BY <3>1, <3>2 DEF Replies
  <2> QED
    BY <1>1, <1>2, <1>4, <2>1, <2>2
<1>6. frame_data' = nibble_to_hex(IF data_ofs' = 0 THEN d ELSE o[data_ofs'])
  BY <1>3, <1>4
<1> QED
  BY <1>1, <1>4, <1>5, <1>6 DEF Replies

\* The host reads back the block, with its first digit as it was latched.
LEMMA HostReadsBack ==
  ASSUME FrontTypes, NEW o \in AESBlock, NEW d \in Nibble, Replies(o, d), FinishReply
  PROVE  ReadBack(TX') = [o EXCEPT ![0] = d]
<1>1. Len(TX) = FINAL_NIBBLE /\ FINAL_NIBBLE \in Nat /\ TX \in Seq(Chars) /\ frame_data \in Chars
  BY FinalNibble DEF Replies, FinishReply, FrontTypes, FrontTypeOK
<1>2. TX' = Append(TX, frame_data) /\ data_ofs = FINAL_NIBBLE
  BY DEF FinishReply
<1>3. ASSUME NEW i \in 0 .. FINAL_NIBBLE
      PROVE  hex_to_nibble(TX'[i + 1]) = IF i = 0 THEN d ELSE o[i]
  <2>1. TX'[i + 1] = nibble_to_hex(IF i = 0 THEN d ELSE o[i])
    <3>1. CASE i = FINAL_NIBBLE
      <4>1. TX'[i + 1] = frame_data
        BY <1>1, <1>2, <3>1
      <4> QED
        BY <1>2, <3>1, <4>1 DEF Replies
    <3>2. CASE i # FINAL_NIBBLE
      <4>1. i + 1 \in 1 .. FINAL_NIBBLE /\ (i + 1) - 1 = i /\ (i + 1 = 1 <=> i = 0)
        BY <1>1, <3>2
      <4>2. TX'[i + 1] = TX[i + 1]
        BY <1>1, <1>2, <4>1
      <4>3. TX[i + 1] = nibble_to_hex(IF i + 1 = 1 THEN d ELSE o[(i + 1) - 1])
        BY <1>2, <4>1 DEF Replies
      <4> QED
        BY <4>1, <4>2, <4>3
    <3> QED
      BY <3>1, <3>2
  <2>2. (IF i = 0 THEN d ELSE o[i]) \in Nibble
    BY DEF AESBlock
  <2> QED
    BY <2>1, <2>2, HexRoundTrip
<1> QED
  BY <1>3 DEF ReadBack, AESBlock

LEMMA FrontInitTypes == FrontInit => FrontTypes
BY ZeroTypes, HexRoundTrip, FinalNibble, SizesAssumption
DEF FrontInit, FrontTypes, FrontTypeOK, nibble_to_hex, Nibble

\* What a character that requests no output does to the common registers.
LEMMA IdleTypes ==
  ASSUME FrontTypes, NEW c \in Chars,
         \/ StartKey(c) \/ StartBlock(c) \/ ResetFront(c) \/ EnterKey(c) \/ EnterBlock(c)
         \/ OpenEntry("TO_IV")
         \/ /\ Entering("TO_IV", c) /\ StepEntry(FINAL_NIBBLE)
            /\ UNCHANGED <<state, mode, frame_data, key, iblk, TX>>
  PROVE  FrontTypes' /\ state' = "IDLE"
<1> USE DEF FrontTypes, FrontTypeOK
<1>1. CASE StartKey(c) \/ StartBlock(c) \/ OpenEntry("TO_IV")
  BY <1>1, FinalNibble, SizesAssumption DEF StartKey, StartBlock, OpenEntry, Commanding
<1>2. CASE ResetFront(c)
  BY <1>2, ZeroTypes, FinalNibble DEF ResetFront, Commanding
<1>3. CASE EnterKey(c)
  <2>1. key' \in MasterKey
    BY <1>3, HexToNibbleType, SetNibbleKey DEF EnterKey, Entering
  <2> QED
    BY <1>3, <2>1, FinalNibble, SizesAssumption DEF EnterKey, Entering, StepEntry
<1>4. CASE EnterBlock(c)
  <2>1. iblk' \in AESBlock
    BY <1>4, HexToNibbleType, SetNibbleBlock DEF EnterBlock, Entering
  <2> QED
    BY <1>4, <2>1, FinalNibble DEF EnterBlock, Entering, StepEntry
<1>5. CASE /\ Entering("TO_IV", c) /\ StepEntry(FINAL_NIBBLE)
           /\ UNCHANGED <<state, mode, frame_data, key, iblk, TX>>
  BY <1>5, FinalNibble DEF Entering, StepEntry
<1> QED
  BY <1>1, <1>2, <1>3, <1>4, <1>5

LEMMA RequestTypes ==
  ASSUME FrontTypes, NEW c \in Chars, NEW o \in AESBlock, StartReply(c, o)
  PROVE  FrontTypes' /\ state' = "WRITING"
<1>1. o[0] \in Nibble
  BY FinalNibble DEF AESBlock
<1> QED
  BY <1>1, FinalNibble, HexRoundTrip
  DEF FrontTypes, FrontTypeOK, StartReply, Commanding, ModeOf, get_nibble

LEMMA DigitTypes ==
  ASSUME FrontTypes, NEW o \in AESBlock, copy_to = "TO_NOWHERE", SendNibble(o[data_ofs + 1])
  PROVE  FrontTypes' /\ state' = "WRITING"
<1>1. data_ofs + 1 \in 1 .. FINAL_NIBBLE
  BY FinalNibble DEF FrontTypes, SendNibble
<1>2. o[data_ofs + 1] \in Nibble
  BY <1>1, FinalNibble DEF AESBlock
<1> QED
  BY <1>1, <1>2, FinalNibble, HexRoundTrip DEF FrontTypes, FrontTypeOK, SendNibble

LEMMA FinishTypes == ASSUME FrontTypes, FinishReply PROVE FrontTypes' /\ state' = "IDLE"
BY FinalNibble, SizesAssumption DEF FrontTypes, FrontTypeOK, FinishReply

-----------------------------------------------------------------------------
(* The cipher and the output of the controllers. *)

\* Decryption undoes encryption, so on finitely many blocks the converse holds.
LEMMA EncryptionInverts == \A k \in MasterKey, b \in AESBlock : Enc(k, Dec(k, b)) = b
<1> SUFFICES ASSUME NEW k \in MasterKey, NEW b \in AESBlock PROVE Enc(k, Dec(k, b)) = b
  OBVIOUS
<1> DEFINE g == [x \in AESBlock |-> Dec(k, x)]
<1>1. \A x \in AESBlock : g[x] = Dec(k, x) /\ Dec(k, x) \in AESBlock /\ Enc(k, x) \in AESBlock
  BY CipherAssumption
<1>2. g \in [AESBlock -> AESBlock]
  BY <1>1
<1>3. \A x \in AESBlock : g[Enc(k, x)] = x
  BY <1>1, CipherAssumption
<1> HIDE DEF g
<1>4. g \in Surjection(AESBlock, AESBlock)
  BY <1>1, <1>2, <1>3 DEF Surjection
<1>5. IsFiniteSet(AESBlock) /\ Cardinality(AESBlock) = Cardinality(AESBlock)
  BY FiniteBlocks
<1>6. g \in Injection(AESBlock, AESBlock)
  BY <1>4, <1>5, FS_SurjSameCardinalityImpliesInj
<1>7. g[Enc(k, Dec(k, b))] = g[b]
  BY <1>1, <1>3
<1> QED
  BY <1>1, <1>6, <1>7 DEF Injection, IsInjective

(* The instances E and C have copies of what the modules of the controllers *)
(* extend.                                                                  *)
LEMMA SameData ==
  /\ C!FINAL_NIBBLE = FINAL_NIBBLE /\ E!FINAL_NIBBLE = FINAL_NIBBLE
  /\ C!ZERO_BLOCK = ZERO_BLOCK
  /\ \A X, Y : C!XorBlock(X, Y) = XorBlock(X, Y)
  /\ \A text : C!ReadBack(text) = ReadBack(text) /\ E!ReadBack(text) = ReadBack(text)
  /\ \A c : C!hex_to_nibble(c) = hex_to_nibble(c)
<1>1. C!FINAL_NIBBLE = FINAL_NIBBLE /\ E!FINAL_NIBBLE = FINAL_NIBBLE
  BY DEF C!FINAL_NIBBLE, E!FINAL_NIBBLE, FINAL_NIBBLE
<1>2. C!ZERO_BLOCK = ZERO_BLOCK
  BY <1>1 DEF C!ZERO_BLOCK, ZERO_BLOCK
<1>3. \A X, Y : C!XorBlock(X, Y) = XorBlock(X, Y)
  BY <1>1 DEF C!XorBlock, XorBlock
<1>4. \A c : C!hex_to_nibble(c) = hex_to_nibble(c) /\ E!hex_to_nibble(c) = hex_to_nibble(c)
  BY DEF C!hex_to_nibble, E!hex_to_nibble, hex_to_nibble, C!is_valid_hex, E!is_valid_hex,
         is_valid_hex, C!Nibble, E!Nibble, Nibble
<1>5. \A text : C!ReadBack(text) = ReadBack(text) /\ E!ReadBack(text) = ReadBack(text)
  BY <1>1, <1>4 DEF C!ReadBack, E!ReadBack, ReadBack
<1> QED
  BY <1>1, <1>2, <1>3, <1>4, <1>5

LEMMA OutputTypes ==
  ASSUME FrontTypes, HostTypes
  PROVE  /\ \A m : E!Output(m, key, iblk) \in AESBlock
         /\ E!oblk \in AESBlock /\ C!oblk \in AESBlock /\ oblk \in AESBlock
<1>1. key \in MasterKey /\ iblk \in AESBlock /\ IV \in AESBlock
  BY DEF FrontTypes, FrontTypeOK, HostTypes
<1>2. Enc(key, iblk) \in AESBlock /\ Dec(key, iblk) \in AESBlock
  BY <1>1, CipherAssumption
<1>3. \A m : E!Output(m, key, iblk) \in AESBlock
  BY <1>2 DEF E!Output
<1>4. XorBlock(IV, iblk) \in AESBlock /\ XorBlock(IV, Dec(key, iblk)) \in AESBlock
  BY <1>1, <1>2, XorBlockType
<1>5. Enc(key, XorBlock(IV, iblk)) \in AESBlock
  BY <1>1, <1>4, CipherAssumption
<1>6. C!oblk \in AESBlock
  BY <1>4, <1>5, SameData DEF C!Output, C!oblk
<1> QED
  BY <1>3, <1>6 DEF E!oblk, oblk

-----------------------------------------------------------------------------
(* The steps of the controllers in terms of what they share. *)

\* A character that requests no output: what it does to the front, and to IV.
Quiet(c) ==
  \/ StartKey(c) \/ StartBlock(c) \/ ResetFront(c) \/ EnterKey(c) \/ EnterBlock(c)
  \/ OpenEntry("TO_IV")
  \/ /\ Entering("TO_IV", c) /\ StepEntry(FINAL_NIBBLE)
     /\ UNCHANGED <<state, mode, frame_data, key, iblk, TX>>

NextIV(c) ==
  \/ IV' \in {IV, ZERO_BLOCK}
  \/ copy_to = "TO_IV" /\ is_valid_hex(c) /\ IV' = set_nibble(IV, data_ofs, hex_to_nibble(c))

LEMMA ECBRequests == ASSUME NEW c PROVE E!CmdCrypt(c) <=> StartReply(c, E!oblk)
BY DEF E!CmdCrypt, E!StartReply, E!Commanding, E!ModeOf, E!nibble_to_hex, E!get_nibble,
   StartReply, Commanding, ModeOf, nibble_to_hex, get_nibble

LEMMA ECBReceives ==
  ASSUME NEW c, E!Receive(c) PROVE Quiet(c) \/ E!CmdCrypt(c)
<1>1. CASE E!StartKey(c) \/ E!StartBlock(c) \/ E!ResetFront(c)
  BY <1>1 DEF Quiet, E!StartKey, E!StartBlock, E!ResetFront, E!OpenEntry, E!Commanding,
     StartKey, StartBlock, ResetFront, OpenEntry, Commanding,
     E!ZERO_KEY, E!ZERO_BLOCK, E!FINAL_NIBBLE, ZERO_KEY, ZERO_BLOCK, FINAL_NIBBLE
<1>2. CASE E!EnterKey(c) \/ E!EnterBlock(c)
  BY <1>2 DEF Quiet, E!EnterKey, E!EnterBlock, E!Entering, E!is_valid_hex, E!Nibble, E!StepEntry,
     E!set_nibble, E!hex_to_nibble, E!FINAL_NIBBLE, EnterKey, EnterBlock, Entering, is_valid_hex,
     Nibble, StepEntry, set_nibble, hex_to_nibble, FINAL_NIBBLE
<1> QED
  BY <1>1, <1>2 DEF E!Receive

LEMMA ECBSends ==
  /\ E!SendNext <=> SendNibble(E!oblk[data_ofs + 1])
  /\ E!SendLast <=> FinishReply
BY DEF E!SendNext, E!SendLast, E!SendNibble, E!FinishReply, E!nibble_to_hex, E!get_nibble,
   E!FINAL_NIBBLE, SendNibble, FinishReply, nibble_to_hex, FINAL_NIBBLE

LEMMA CBCRequests ==
  ASSUME NEW c PROVE C!CmdCrypt(c) <=> StartReply(c, C!oblk) /\ UNCHANGED IV
BY DEF C!CmdCrypt, C!StartReply, C!Commanding, C!ModeOf, C!nibble_to_hex, C!get_nibble,
   StartReply, Commanding, ModeOf, nibble_to_hex, get_nibble

LEMMA CBCReceives ==
  ASSUME NEW c, C!Receive(c) PROVE (Quiet(c) /\ NextIV(c)) \/ C!CmdCrypt(c)
<1>1. CASE C!CmdIV(c) \/ C!CmdKey(c) \/ C!CmdBlock(c) \/ C!CmdReset(c)
  BY <1>1 DEF Quiet, NextIV, C!CmdIV, C!CmdKey, C!CmdBlock, C!CmdReset,
     C!StartKey, C!StartBlock, C!ResetFront, C!OpenEntry, C!Commanding,
     StartKey, StartBlock, ResetFront, OpenEntry, Commanding,
     C!ZERO_KEY, C!ZERO_BLOCK, C!FINAL_NIBBLE, ZERO_KEY, ZERO_BLOCK, FINAL_NIBBLE
<1>2. CASE C!EnterKeyDigit(c) \/ C!EnterBlockDigit(c)
  BY <1>2 DEF Quiet, NextIV, C!EnterKeyDigit, C!EnterBlockDigit, C!EnterKey, C!EnterBlock,
     C!Entering, C!is_valid_hex, C!Nibble, C!StepEntry, C!set_nibble, C!hex_to_nibble,
     C!FINAL_NIBBLE, EnterKey, EnterBlock, Entering, is_valid_hex,
     Nibble, StepEntry, set_nibble, hex_to_nibble, FINAL_NIBBLE
<1>3. CASE C!EnterIV(c)
  BY <1>3 DEF Quiet, NextIV, C!EnterIV,
     C!Entering, C!is_valid_hex, C!Nibble, C!StepEntry, C!set_nibble, C!hex_to_nibble,
     C!FINAL_NIBBLE, Entering, is_valid_hex,
     Nibble, StepEntry, set_nibble, hex_to_nibble, FINAL_NIBBLE
<1> QED
  BY <1>1, <1>2, <1>3 DEF C!Receive

LEMMA CBCSends ==
  /\ C!SendNext <=> SendNibble(C!oblk[data_ofs + 1]) /\ UNCHANGED IV
  /\ C!SendLast <=> FinishReply /\ IV' = IF mode = "ENCRYPT" THEN C!oblk ELSE iblk
BY DEF C!SendNext, C!SendLast, C!SendNibble, C!FinishReply, C!nibble_to_hex, C!get_nibble,
   C!FINAL_NIBBLE, SendNibble, FinishReply, nibble_to_hex, FINAL_NIBBLE

-----------------------------------------------------------------------------
(* A step of the ECB controller. *)

LEMMA ECBStep == ASSUME IInv, StepECB PROVE FrontTypes' /\ HostTypes' /\ ReplyOnTrack'
<1>1. FrontTypes /\ HostTypes /\ ReplyOnTrack
  BY DEF IInv
<1>2. built = "ECB" /\ built' = "ECB" /\ UNCHANGED cbc /\ E!SessionNext
  BY DEF StepECB
<1>3. oblk = E!oblk /\ E!oblk \in AESBlock
  BY <1>1, <1>2, OutputTypes DEF oblk
<1>4. before' = (IF \E c \in Chars : E!CmdCrypt(c) THEN mode ELSE before)
  BY <1>2 DEF E!SessionNext
<1>5. HostTypes'
  BY <1>1, <1>2, <1>4 DEF HostTypes, cbc, FrontTypes, FrontTypeOK
<1>6. ASSUME NEW c \in Chars, Quiet(c) PROVE FrontTypes' /\ ReplyOnTrack'
  <2>1. FrontTypes' /\ state' = "IDLE"
    BY <1>1, <1>6, IdleTypes DEF Quiet
  <2> QED
    BY <2>1 DEF ReplyOnTrack
<1>7. ASSUME NEW c \in Chars, E!CmdCrypt(c) PROVE FrontTypes' /\ ReplyOnTrack'
  <2>1. StartReply(c, E!oblk)
    BY <1>7, ECBRequests
  <2>2. FrontTypes'
    BY <1>1, <1>3, <2>1, RequestTypes
  <2>3. PICK x \in Nibble : x = E!oblk[0]
    BY <1>3, FinalNibble DEF AESBlock
  <2>4. PICK o : o = oblk'
    OBVIOUS
  <2>5. PICK p \in AESBlock : p = E!oblk
    BY <1>3
  <2>6. Replies(o, x)'
    BY <1>1, <2>1, <2>3, <2>5, RequestReplies
  <2>7. before' = mode /\ key' = key /\ iblk' = iblk
    BY <1>4, <1>7, <2>1 DEF StartReply
  <2>8. Latched(x)'
    BY <1>2, <2>3, <2>7 DEF Latched, E!oblk, E!Output
  <2> QED
    BY <2>2, <2>4, <2>6, <2>8 DEF ReplyOnTrack, Replies
<1>8. CASE E!SendNext
  <2>1. SendNibble(E!oblk[data_ofs + 1])
    BY <1>8, ECBSends
  <2>2. PICK d \in Nibble : Latched(d) /\ Replies(oblk, d)
    BY <1>1, <2>1 DEF ReplyOnTrack, SendNibble
  <2>3. copy_to = "TO_NOWHERE"
    BY <2>2 DEF Replies
  <2>4. PICK o \in AESBlock : o = E!oblk
    BY <1>3
  <2>5. FrontTypes'
    BY <1>1, <2>1, <2>3, <2>4, DigitTypes
  <2>6. mode' = mode /\ key' = key /\ iblk' = iblk /\ state = "WRITING"
    BY <2>1 DEF SendNibble
  <2>7. oblk' = o
    BY <1>2, <2>4, <2>6 DEF oblk, E!oblk, E!Output
  <2>8. Replies(o, d)'
    BY <1>1, <1>3, <2>1, <2>2, <2>4, DigitReplies
  <2>9. before' = before
    BY <1>4, <2>6, ECBRequests DEF StartReply, Commanding
  <2>10. Latched(d)'
    BY <1>2, <2>2, <2>6, <2>9 DEF Latched, E!Output
  <2> QED
    BY <1>5, <2>5, <2>7, <2>8, <2>10 DEF ReplyOnTrack, Replies
<1>9. CASE E!SendLast
  <2>1. FrontTypes' /\ state' = "IDLE"
    BY <1>1, <1>9, ECBSends, FinishTypes
  <2> QED
    BY <1>5, <2>1 DEF ReplyOnTrack
<1> QED
  BY <1>2, <1>5, <1>6, <1>7, <1>8, <1>9, ECBReceives DEF E!SessionNext, E!Next, E!Transmit

-----------------------------------------------------------------------------
(* A step of the CBC controller and its host. *)

\* The message goes on from where it was when nothing it depends on moves.
LEMMA MessageStays ==
  ASSUME MessageInv, IV' = IV, key' = key, first' = first, message' = message,
         steady' => steady
  PROVE  MessageInv'
BY DEF MessageInv, SteadyMessageIsCBC, C!ChainIsKept, C!Last, C!MessageIsCBC, C!Previous

LEMMA MessageStarts ==
  ASSUME first' = IV', message' = << >> PROVE MessageInv'
BY DEF MessageInv, SteadyMessageIsCBC, C!ChainIsKept, C!Last, C!MessageIsCBC, C!Previous

\* The ciphertext of the pair is the one that the plaintext of the pair is
\* encrypted to, in either direction.
LEMMA PairFits ==
  ASSUME FrontTypes, HostTypes, NEW answer, answer = C!oblk
  PROVE  IF mode = "ENCRYPT" THEN answer = Enc(key, XorBlock(IV, iblk))
                             ELSE iblk = Enc(key, XorBlock(IV, answer))
<1>1. key \in MasterKey /\ iblk \in AESBlock /\ IV \in AESBlock /\ Dec(key, iblk) \in AESBlock
  BY CipherAssumption DEF FrontTypes, FrontTypeOK, HostTypes
<1>2. mode \in {"ENCRYPT", "DECRYPT"}
  BY DEF FrontTypes, FrontTypeOK
<1>3. CASE mode = "ENCRYPT"
  BY <1>3, SameData DEF C!oblk, C!Output
<1>4. CASE mode = "DECRYPT"
  <2>1. answer = XorBlock(IV, Dec(key, iblk))
    BY <1>4, SameData DEF C!oblk, C!Output
  <2>2. XorBlock(IV, answer) = Dec(key, iblk)
    BY <1>1, <2>1, XorBlockTwice
  <2>3. Enc(key, Dec(key, iblk)) = iblk
    BY <1>1, EncryptionInverts
  <2> QED
    BY <1>4, <2>2, <2>3
<1> QED
  BY <1>2, <1>3, <1>4

\* A completed reply adds a pair that fits, and IV is the ciphertext of it.
LEMMA MessageGrows ==
  ASSUME FrontTypes, HostTypes, ReplyOnTrack, MessageInv, built = "CBC", C!SendLast,
         message' = Append(message, C!Pair), UNCHANGED <<first, steady>>
  PROVE  MessageInv' /\ message' \in Seq(AESBlock \X AESBlock) /\ IV' \in AESBlock
<1>1. FinishReply /\ IV' = (IF mode = "ENCRYPT" THEN C!oblk ELSE iblk)
  BY CBCSends
<1>2. C!oblk \in AESBlock /\ oblk = C!oblk /\ iblk \in AESBlock /\ key' = key
  BY <1>1, OutputTypes DEF oblk, FrontTypes, FrontTypeOK, FinishReply
<1>3. PICK d \in Nibble : Latched(d) /\ Replies(oblk, d)
  BY <1>1 DEF ReplyOnTrack, FinishReply
<1>4. PICK o \in AESBlock : o = C!oblk
  BY <1>2
<1> DEFINE answer == [o EXCEPT ![0] = d]
<1>5. ReadBack(TX') = answer
  BY <1>1, <1>2, <1>3, <1>4, HostReadsBack
<1>6. answer \in AESBlock /\ \A i \in 1 .. FINAL_NIBBLE : answer[i] = o[i]
  BY FinalNibble DEF AESBlock
<1>7. steady => answer = o
  BY <1>3, <1>4 DEF Latched, AESBlock
<1> HIDE DEF answer
<1>8. C!Pair = IF mode = "ENCRYPT" THEN <<iblk, answer>> ELSE <<answer, iblk>>
  BY <1>5, SameData DEF C!Pair
<1>9. C!Pair \in AESBlock \X AESBlock
  BY <1>2, <1>6, <1>8
<1>10. PICK pair \in AESBlock \X AESBlock : pair = C!Pair
  BY <1>9
<1>11. message \in Seq(AESBlock \X AESBlock)
  BY DEF HostTypes
<1>12. message' \in Seq(AESBlock \X AESBlock) /\ Len(message') = Len(message) + 1
       /\ message'[Len(message) + 1] = pair /\ Len(message) \in Nat
       /\ \A i \in 1 .. Len(message) : message'[i] = message[i]
  BY <1>10, <1>11
<1>13. IV' \in AESBlock
  BY <1>1, <1>2
<1>14. (\A i \in 1 .. FINAL_NIBBLE : IV'[i] = pair[2][i]) /\ (steady => IV' = pair[2])
  BY <1>1, <1>4, <1>6, <1>7, <1>8, <1>10
<1>15. C!ChainIsKept'
  <2>1. message' # << >>
    BY <1>12
  <2>2. C!Last' = pair[2]
    BY <1>12, <2>1 DEF C!Last
  <2> QED
    BY <1>14, <2>2, SameData DEF C!ChainIsKept, C!FINAL_NIBBLE, FINAL_NIBBLE
<1>16. ASSUME steady PROVE C!MessageIsCBC'
  <2>1. answer = o /\ IV = C!Last /\ C!MessageIsCBC
    BY <1>7, <1>16 DEF MessageInv, SteadyMessageIsCBC, C!ChainIsKept
  <2>2. pair[2] = Enc(key, XorBlock(IV, pair[1]))
    <3>1. IF mode = "ENCRYPT" THEN answer = Enc(key, XorBlock(IV, iblk))
                              ELSE iblk = Enc(key, XorBlock(IV, answer))
      BY <1>4, <2>1, PairFits
    <3> QED
      BY <1>8, <1>10, <3>1
  <2>3. ASSUME NEW i \in 1 .. Len(message')
        PROVE  message'[i][2] = Enc(key', C!XorBlock(C!Previous(i)', message'[i][1]))
    <3>1. CASE i \in 1 .. Len(message)
      <4>1. message'[i] = message[i] /\ (i # 1 => message'[i - 1] = message[i - 1])
        BY <1>12, <3>1
      <4>2. C!Previous(i)' = C!Previous(i)
        BY <4>1 DEF C!Previous
      <4>3. message[i][2] = Enc(key, C!XorBlock(C!Previous(i), message[i][1]))
        BY <2>1, <3>1 DEF C!MessageIsCBC
      <4> QED
        BY <1>2, <4>1, <4>2, <4>3
    <3>2. CASE i = Len(message) + 1
      <4>1. C!Previous(i)' = IV
        <5>1. CASE message = << >>
          BY <2>1, <3>2, <5>1 DEF C!Previous, C!Last
        <5>2. CASE message # << >>
          <6>1. Len(message) \in 1 .. Len(message) /\ i # 1 /\ i - 1 = Len(message)
            BY <1>11, <1>12, <3>2, <5>2
          <6>2. message'[i - 1] = message[Len(message)]
            BY <1>12, <6>1
          <6> QED
            BY <2>1, <5>2, <6>1, <6>2 DEF C!Previous, C!Last
        <5> QED
          BY <5>1, <5>2
      <4> QED
        BY <1>2, <1>12, <2>2, <3>2, <4>1, SameData
    <3> QED
      BY <1>12, <3>1, <3>2
  <2> QED
    BY <2>3 DEF C!MessageIsCBC
<1> QED
  BY <1>12, <1>13, <1>15, <1>16 DEF MessageInv, SteadyMessageIsCBC

LEMMA CBCQuiet ==
  ASSUME IInv, built = "CBC", UNCHANGED <<built, before>>, C!SessionNext,
         NEW c \in Chars, Quiet(c), NextIV(c)
  PROVE  IInv'
<1>1. FrontTypes /\ HostTypes /\ MessageInv
  BY DEF IInv
<1>2. FrontTypes' /\ state' = "IDLE"
  BY <1>1, IdleTypes DEF Quiet
<1>3. state = "IDLE"
  BY DEF Quiet, StartKey, StartBlock, ResetFront, EnterKey, EnterBlock, OpenEntry, Commanding,
         Entering
<1>4. IV' \in AESBlock
  BY <1>1, ZeroTypes, HexToNibbleType, SetNibbleBlock DEF NextIV, HostTypes, FrontTypes
<1>5. ~C!SendLast /\ ~C!Asked
  BY <1>2, <1>3, CBCSends, CBCRequests DEF FinishReply, C!Asked, StartReply
<1>6. ReplyOnTrack'
  BY <1>2 DEF ReplyOnTrack
<1>7. CASE C!NewStart
  <2>1. first' = IV' /\ message' = << >> /\ steady' = TRUE
    BY <1>7 DEF C!SessionNext
  <2>2. << >> \in Seq(AESBlock \X AESBlock)
    OBVIOUS
  <2>3. HostTypes'
    BY <1>1, <1>4, <2>1, <2>2 DEF HostTypes
  <2> QED
    BY <1>2, <1>6, <2>1, <2>3, MessageStarts DEF IInv
<1>8. CASE ~C!NewStart
  <2>1. UNCHANGED <<first, message, steady>> /\ IV' = IV /\ key' = key
    BY <1>5, <1>8 DEF C!SessionNext, C!NewStart, C!history
  <2>2. HostTypes'
    BY <1>1, <1>4, <2>1 DEF HostTypes
  <2> QED
    BY <1>1, <1>2, <1>6, <2>1, <2>2, MessageStays DEF IInv
<1> QED
  BY <1>7, <1>8

LEMMA CBCRequest ==
  ASSUME IInv, built = "CBC", UNCHANGED <<built, before>>, C!SessionNext,
         NEW c \in Chars, C!CmdCrypt(c)
  PROVE  IInv'
<1>1. FrontTypes /\ HostTypes /\ MessageInv
  BY DEF IInv
<1>2. StartReply(c, C!oblk) /\ IV' = IV
  BY CBCRequests
<1>3. key' = key /\ iblk' = iblk /\ state = "IDLE"
  BY <1>2 DEF StartReply, Commanding
<1>4. ~C!SendLast /\ ~C!NewStart /\ C!Asked
  BY <1>2, <1>3, CBCSends DEF FinishReply, C!NewStart, C!Asked
<1>5. first' = first /\ message' = message /\ steady' = (steady /\ mode' = mode)
  BY <1>4 DEF C!SessionNext
<1>6. HostTypes'
  BY <1>1, <1>2, <1>5 DEF HostTypes
<1>7. PICK p \in AESBlock : p = C!oblk
  BY <1>1, OutputTypes
<1>8. FrontTypes'
  BY <1>1, <1>2, <1>7, RequestTypes
<1>9. PICK d \in Nibble : d = p[0]
  BY FinalNibble DEF AESBlock
<1>10. PICK o : o = oblk'
  OBVIOUS
<1>11. Replies(o, d)'
  BY <1>1, <1>2, <1>7, <1>9, RequestReplies
<1>12. steady' => C!oblk' = C!oblk
  BY <1>2, <1>3, <1>5 DEF C!oblk, C!Output
<1>13. Latched(d)'
  BY <1>7, <1>9, <1>12 DEF Latched
<1>14. ReplyOnTrack'
  BY <1>10, <1>11, <1>13 DEF ReplyOnTrack, Replies
<1> QED
  BY <1>1, <1>2, <1>3, <1>5, <1>6, <1>8, <1>14, MessageStays DEF IInv

LEMMA CBCDigit ==
  ASSUME IInv, built = "CBC", UNCHANGED <<built, before>>, C!SessionNext, C!SendNext
  PROVE  IInv'
<1>1. FrontTypes /\ HostTypes /\ ReplyOnTrack /\ MessageInv
  BY DEF IInv
<1>2. SendNibble(C!oblk[data_ofs + 1]) /\ IV' = IV
  BY CBCSends
<1>3. mode' = mode /\ key' = key /\ iblk' = iblk /\ state = "WRITING" /\ state' = "WRITING"
  BY <1>2 DEF SendNibble
<1>4. ~C!SendLast /\ ~C!NewStart /\ ~C!Asked
  BY <1>2, <1>3, CBCSends, CBCRequests
  DEF SendNibble, FinishReply, C!NewStart, C!Asked, StartReply, Commanding
<1>5. UNCHANGED <<first, message, steady>>
  BY <1>4 DEF C!SessionNext, C!history
<1>6. PICK d \in Nibble : Latched(d) /\ Replies(oblk, d)
  BY <1>1, <1>3 DEF ReplyOnTrack
<1>7. PICK o \in AESBlock : o = C!oblk
  BY <1>1, OutputTypes
<1>8. copy_to = "TO_NOWHERE" /\ oblk = o
  BY <1>6, <1>7 DEF Replies, oblk
<1>9. FrontTypes'
  BY <1>1, <1>2, <1>7, <1>8, DigitTypes
<1>10. oblk' = o /\ C!oblk' = o
  BY <1>2, <1>3, <1>7 DEF oblk, C!oblk, C!Output
<1>11. Replies(o, d)'
  BY <1>1, <1>2, <1>6, <1>7, <1>8, DigitReplies
<1>12. Latched(d)'
  BY <1>5, <1>6, <1>7, <1>10 DEF Latched
<1>13. ReplyOnTrack'
  BY <1>10, <1>11, <1>12 DEF ReplyOnTrack, Replies
<1>14. HostTypes'
  BY <1>1, <1>2, <1>5 DEF HostTypes
<1> QED
  BY <1>1, <1>2, <1>3, <1>5, <1>9, <1>13, <1>14, MessageStays DEF IInv

LEMMA CBCLast ==
  ASSUME IInv, built = "CBC", UNCHANGED <<built, before>>, C!SessionNext, C!SendLast
  PROVE  IInv'
<1>1. FrontTypes /\ HostTypes /\ ReplyOnTrack /\ MessageInv
  BY DEF IInv
<1>2. FrontTypes' /\ state' = "IDLE"
  BY <1>1, CBCSends, FinishTypes
<1>3. message' = Append(message, C!Pair) /\ UNCHANGED <<first, steady>>
  BY DEF C!SessionNext, C!NewStart
<1>4. MessageInv' /\ message' \in Seq(AESBlock \X AESBlock) /\ IV' \in AESBlock
  BY <1>1, <1>3, MessageGrows
<1>5. HostTypes'
  BY <1>1, <1>3, <1>4 DEF HostTypes
<1> QED
  BY <1>2, <1>4, <1>5 DEF IInv, ReplyOnTrack

LEMMA CBCStep == ASSUME IInv, StepCBC PROVE IInv'
<1>1. built = "CBC" /\ UNCHANGED <<built, before>> /\ C!SessionNext
  BY DEF StepCBC
<1>2. C!Next
  BY <1>1 DEF C!SessionNext
<1>3. ASSUME NEW c \in Chars, C!Receive(c) PROVE IInv'
  BY <1>1, <1>3, CBCReceives, CBCQuiet, CBCRequest
<1>4. CASE C!SendNext
  BY <1>1, <1>4, CBCDigit
<1>5. CASE C!SendLast
  BY <1>1, <1>5, CBCLast
<1> QED
  BY <1>2, <1>3, <1>4, <1>5 DEF C!Next, C!Transmit

-----------------------------------------------------------------------------
LEMMA InitInv == Init => IInv
<1> SUFFICES ASSUME Init PROVE IInv
  OBVIOUS
<1>1. FrontInit /\ built \in {"ECB", "CBC"} /\ before = "ENCRYPT" /\ IV = ZERO_BLOCK
      /\ first = ZERO_BLOCK /\ message = << >> /\ steady = TRUE
  BY SameData DEF Init, E!SessionInit, E!Init, E!FrontInit, C!SessionInit, C!Init, C!FrontInit,
     FrontInit, E!ZERO_KEY, ZERO_KEY, E!ZERO_BLOCK, ZERO_BLOCK, E!FINAL_NIBBLE, FINAL_NIBBLE
<1>2. << >> \in Seq(AESBlock \X AESBlock)
  OBVIOUS
<1>3. FrontTypes /\ HostTypes
  BY <1>1, <1>2, FrontInitTypes, ZeroTypes DEF HostTypes
<1>4. ReplyOnTrack
  BY <1>1 DEF FrontInit, ReplyOnTrack
<1>5. MessageInv
  BY <1>1 DEF MessageInv, SteadyMessageIsCBC, C!ChainIsKept, C!Last, C!MessageIsCBC
<1> QED
  BY <1>3, <1>4, <1>5 DEF IInv

LEMMA InvStep == IInv /\ [Next]_vars => IInv'
<1> SUFFICES ASSUME IInv, [Next]_vars PROVE IInv'
  OBVIOUS
<1>1. CASE StepECB
  <2>1. FrontTypes' /\ HostTypes' /\ ReplyOnTrack'
    BY <1>1, ECBStep
  <2>2. message = << >> /\ message' = << >> /\ UNCHANGED <<IV, first, steady>>
    BY <1>1 DEF IInv, HostTypes, StepECB, cbc
  <2>3. MessageInv'
    BY <2>2 DEF IInv, MessageInv, SteadyMessageIsCBC, C!ChainIsKept, C!Last, C!MessageIsCBC
  <2> QED
    BY <2>1, <2>3 DEF IInv
<1>2. CASE StepCBC
  BY <1>2, CBCStep
<1>3. CASE UNCHANGED vars
  BY <1>3 DEF vars, front, cbc, IInv, FrontTypes, FrontTypeOK, HostTypes, ReplyOnTrack, Replies,
     Latched, oblk, E!oblk, E!Output, C!oblk, C!Output, MessageInv, SteadyMessageIsCBC,
     C!ChainIsKept, C!Last, C!MessageIsCBC, C!Previous
<1> QED
  BY <1>1, <1>2, <1>3 DEF Next

LEMMA InvCorrect == Spec => []IInv
<1> QED
  BY InitInv, InvStep, PTL DEF Spec

\* The registers keep their types and data_ofs stays inside the register it points
\* into, in both controllers.
THEOREM TypeCorrect == Spec => []FrontTypes
<1>1. IInv => FrontTypes
  BY DEF IInv
<1> QED
  BY <1>1, InvCorrect, PTL

\* A message whose requests kept the mode is CBC: each ciphertext is the encryption
\* of its plaintext xor the ciphertext before, in either direction, for any cipher
\* whose decryption undoes its encryption and messages of any length.
THEOREM MessagesAreCBC == Spec => []SteadyMessageIsCBC
<1>1. IInv => SteadyMessageIsCBC
  BY DEF IInv, MessageInv
<1> QED
  BY <1>1, InvCorrect, PTL

\* The chain goes on from the last ciphertext, whatever the modes of the requests.
THEOREM ChainSurvives == Spec => []ChainSurvivesModeChange
<1>1. IInv => ChainSurvivesModeChange
  BY DEF IInv, MessageInv, ChainSurvivesModeChange
<1> QED
  BY <1>1, InvCorrect, PTL

\* What exactly ECB answers, with the digit that was latched too early.
THEOREM RepliesAreAsBuilt == Spec => ReplyAsBuilt
<1>1. IInv /\ [Next]_vars => [built = "ECB" => E!AnswersAsBuilt]_vars
  <2> SUFFICES ASSUME IInv, built = "ECB", E!SendLast PROVE E!AnswersAsBuilt
    BY DEF E!AnswersAsBuilt
  <2>1. FrontTypes /\ HostTypes /\ FinishReply
    BY ECBSends DEF IInv
  <2>2. PICK d \in Nibble : Latched(d) /\ Replies(oblk, d)
    BY <2>1 DEF IInv, ReplyOnTrack, FinishReply
  <2>3. PICK o \in AESBlock : o = E!oblk
    BY <2>1, OutputTypes
  <2>4. oblk = o /\ d = E!Output(before, key, iblk)[0] /\ o = E!Output(mode, key, iblk)
    BY <2>2, <2>3 DEF oblk, Latched, E!oblk
  <2>5. ReadBack(TX') = [o EXCEPT ![0] = d]
    BY <2>1, <2>2, <2>4, HostReadsBack
  <2> QED
    BY <2>4, <2>5, SameData DEF E!AnswersAsBuilt
<1> QED
  BY <1>1, InvCorrect, PTL DEF Spec, ReplyAsBuilt

(* The cipher: bytes are sets of bits, on which xor and doubling are linear. *)

LEMMA DigitsOfByte ==
  ASSUME NEW a \in Byte
  PROVE  /\ a = 2 * (a \div 2) + (a % 2)
         /\ a \div 2 = 2 * (a \div 4) + ((a \div 2) % 2)
         /\ a \div 4 = 2 * (a \div 8) + ((a \div 4) % 2)
         /\ a \div 8 = 2 * (a \div 16) + ((a \div 8) % 2)
         /\ a \div 16 = 2 * (a \div 32) + ((a \div 16) % 2)
         /\ a \div 32 = 2 * (a \div 64) + ((a \div 32) % 2)
         /\ a \div 64 = 2 * (a \div 128) + ((a \div 64) % 2)
         /\ a \div 128 = (a \div 128) % 2
<1>1. a \div 2 = 2 * (a \div 4) + ((a \div 2) % 2)
  BY DEF Byte
<1>2. a \div 4 = 2 * (a \div 8) + ((a \div 4) % 2)
  BY DEF Byte
<1>3. a \div 8 = 2 * (a \div 16) + ((a \div 8) % 2)
  BY DEF Byte
<1>4. a \div 16 = 2 * (a \div 32) + ((a \div 16) % 2)
  BY DEF Byte
<1>5. a \div 32 = 2 * (a \div 64) + ((a \div 32) % 2)
  BY DEF Byte
<1>6. a \div 64 = 2 * (a \div 128) + ((a \div 64) % 2)
  BY DEF Byte
<1>7. a = 2 * (a \div 2) + (a % 2) /\ a \div 128 = (a \div 128) % 2
  BY DEF Byte
<1> QED BY <1>1, <1>2, <1>3, <1>4, <1>5, <1>6, <1>7

LEMMA BitsAre ==
  ASSUME NEW a \in Nat
  PROVE  /\ 0 \in Bits(a) <=> a % 2 = 1
         /\ 1 \in Bits(a) <=> (a \div 2) % 2 = 1
         /\ 2 \in Bits(a) <=> (a \div 4) % 2 = 1
         /\ 3 \in Bits(a) <=> (a \div 8) % 2 = 1
         /\ 4 \in Bits(a) <=> (a \div 16) % 2 = 1
         /\ 5 \in Bits(a) <=> (a \div 32) % 2 = 1
         /\ 6 \in Bits(a) <=> (a \div 64) % 2 = 1
         /\ 7 \in Bits(a) <=> (a \div 128) % 2 = 1
<1>1. a \div 1 = a
  OBVIOUS
<1>2. 0 \in Bits(a) <=> (a \div 1) % 2 = 1
  BY DEF Bits, Weight
<1>3. 1 \in Bits(a) <=> (a \div 2) % 2 = 1
  BY DEF Bits, Weight
<1>4. 2 \in Bits(a) <=> (a \div 4) % 2 = 1
  BY DEF Bits, Weight
<1>5. 3 \in Bits(a) <=> (a \div 8) % 2 = 1
  BY DEF Bits, Weight
<1>6. 4 \in Bits(a) <=> (a \div 16) % 2 = 1
  BY DEF Bits, Weight
<1>7. 5 \in Bits(a) <=> (a \div 32) % 2 = 1
  BY DEF Bits, Weight
<1>8. 6 \in Bits(a) <=> (a \div 64) % 2 = 1
  BY DEF Bits, Weight
<1>9. 7 \in Bits(a) <=> (a \div 128) % 2 = 1
  BY DEF Bits, Weight
<1> QED BY <1>1, <1>2, <1>3, <1>4, <1>5, <1>6, <1>7, <1>8, <1>9

\* What bit i adds to the byte with the bits S.
Worth(S, i, w) == IF i \in S THEN w ELSE 0

LEMMA ByteOfIs ==
  ASSUME NEW S
  PROVE ByteOf(S) = Worth(S, 0, 1) + Worth(S, 1, 2) + Worth(S, 2, 4) + Worth(S, 3, 8)
                      + Worth(S, 4, 16) + Worth(S, 5, 32)
                      + Worth(S, 6, 64) + Worth(S, 7, 128)
BY DEF ByteOf, Worth, Weight

\* A byte is its bits.
LEMMA ByteOfBits == ASSUME NEW a \in Byte PROVE ByteOf(Bits(a)) = a
<1>1. a \div 1 = a /\ a \in Nat /\ \A k \in {2,4,8,16,32,64,128} : (a \div k) % 2 \in {0, 1}
  BY DEF Byte
<1>1a. a % 2 \in {0, 1}
  BY DEF Byte
<1>2. /\ Worth(Bits(a), 0, 1) = a % 2
      /\ Worth(Bits(a), 1, 2) = 2 * ((a \div 2) % 2)
      /\ Worth(Bits(a), 2, 4) = 4 * ((a \div 4) % 2)
      /\ Worth(Bits(a), 3, 8) = 8 * ((a \div 8) % 2)
      /\ Worth(Bits(a), 4, 16) = 16 * ((a \div 16) % 2)
      /\ Worth(Bits(a), 5, 32) = 32 * ((a \div 32) % 2)
      /\ Worth(Bits(a), 6, 64) = 64 * ((a \div 64) % 2)
      /\ Worth(Bits(a), 7, 128) = 128 * ((a \div 128) % 2)
  BY <1>1, <1>1a, BitsAre DEF Worth
<1>3. ByteOf(Bits(a)) = (a % 2) + 2 * ((a \div 2) % 2) + 4 * ((a \div 4) % 2)
          + 8 * ((a \div 8) % 2) + 16 * ((a \div 16) % 2) + 32 * ((a \div 32) % 2)
          + 64 * ((a \div 64) % 2) + 128 * ((a \div 128) % 2)
  BY <1>2, ByteOfIs
<1>4. /\ a \div 64 = 2 * ((a \div 128) % 2) + ((a \div 64) % 2)
      /\ a \div 32 = 4 * ((a \div 128) % 2) + 2 * ((a \div 64) % 2) + ((a \div 32) % 2)
  BY <1>1, DigitsOfByte DEF Byte
<1>5. a \div 8 = 16 * ((a \div 128) % 2) + 8 * ((a \div 64) % 2) + 4 * ((a \div 32) % 2)
                 + 2 * ((a \div 16) % 2) + ((a \div 8) % 2)
  <2>1. \A d \in Nat : d % 2 \in Nat
    OBVIOUS
  <2>2. \A x \in {8, 16, 32, 64, 128} : a \div x \in Nat
    BY <1>1
  <2> QED BY <1>4, <2>1, <2>2, DigitsOfByte
<1>6. a = 8 * (a \div 8) + 4 * ((a \div 4) % 2) + 2 * ((a \div 2) % 2) + (a % 2)
  <2>1. \A d \in Nat : d % 2 \in Nat
    OBVIOUS
  <2>2. \A x \in {2, 4, 8} : a \div x \in Nat
    BY <1>1
  <2> QED BY <1>1, <2>1, <2>2, DigitsOfByte
<1>7. \A d \in Nat : d % 2 \in Nat
  OBVIOUS
<1>8. \A x \in {2, 4, 8, 16, 32, 64, 128} : a \div x \in Nat
  BY <1>1
<1>9. \A d0, d1, d2, d3, d4, d5, d6, d7, q \in Nat :
         a = 8 * q + 4 * d2 + 2 * d1 + d0 /\ q = 16 * d7 + 8 * d6 + 4 * d5 + 2 * d4 + d3
         => d0 + 2 * d1 + 4 * d2 + 8 * d3 + 16 * d4 + 32 * d5 + 64 * d6 + 128 * d7 = a
  BY <1>1
<1> QED BY <1>1, <1>3, <1>5, <1>6, <1>7, <1>8, <1>9

LEMMA BitsOfByteOf == 
  ASSUME NEW S \in SUBSET (0 .. 7)
  PROVE  ByteOf(S) \in Byte /\ Bits(ByteOf(S)) = S
<1> DEFINE v == ByteOf(S)
<1>1. PICK b0 \in {0, 1} : Worth(S, 0, 1) = b0 /\ (0 \in S <=> b0 = 1)
  BY DEF Worth
<1>2. PICK b1 \in {0, 1} : Worth(S, 1, 2) = 2 * b1 /\ (1 \in S <=> b1 = 1)
  BY DEF Worth
<1>3. PICK b2 \in {0, 1} : Worth(S, 2, 4) = 4 * b2 /\ (2 \in S <=> b2 = 1)
  BY DEF Worth
<1>4. PICK b3 \in {0, 1} : Worth(S, 3, 8) = 8 * b3 /\ (3 \in S <=> b3 = 1)
  BY DEF Worth
<1>5. PICK b4 \in {0, 1} : Worth(S, 4, 16) = 16 * b4 /\ (4 \in S <=> b4 = 1)
  BY DEF Worth
<1>6. PICK b5 \in {0, 1} : Worth(S, 5, 32) = 32 * b5 /\ (5 \in S <=> b5 = 1)
  BY DEF Worth
<1>7. PICK b6 \in {0, 1} : Worth(S, 6, 64) = 64 * b6 /\ (6 \in S <=> b6 = 1)
  BY DEF Worth
<1>8. PICK b7 \in {0, 1} : Worth(S, 7, 128) = 128 * b7 /\ (7 \in S <=> b7 = 1)
  BY DEF Worth
<1>9. v = b0 + 2 * b1 + 4 * b2 + 8 * b3 + 16 * b4 + 32 * b5 + 64 * b6 + 128 * b7
  BY <1>1, <1>2, <1>3, <1>4, <1>5, <1>6, <1>7, <1>8, ByteOfIs
<1> HIDE DEF v
<1>10. /\ v \in Byte /\ v \div 1 = v
       /\ v % 2 = b0 /\ v \div 2 = b1 + 2 * b2 + 4 * b3 + 8 * b4 + 16 * b5 + 32 * b6 + 64 * b7
       /\ v \div 4 = b2 + 2 * b3 + 4 * b4 + 8 * b5 + 16 * b6 + 32 * b7
       /\ v \div 8 = b3 + 2 * b4 + 4 * b5 + 8 * b6 + 16 * b7
       /\ v \div 16 = b4 + 2 * b5 + 4 * b6 + 8 * b7
       /\ v \div 32 = b5 + 2 * b6 + 4 * b7
       /\ v \div 64 = b6 + 2 * b7
       /\ v \div 128 = b7
  BY <1>9 DEF Byte
<1>11. /\ (v \div 2) % 2 = b1 /\ (v \div 4) % 2 = b2 /\ (v \div 8) % 2 = b3 /\ (v \div 16) % 2 = b4
       /\ (v \div 32) % 2 = b5 /\ (v \div 64) % 2 = b6 /\ (v \div 128) % 2 = b7
  BY <1>10
<1>12. \A i \in 0 .. 7 : i \in Bits(v) <=> i \in S
  <2>1. v \in Nat
    BY <1>10 DEF Byte
  <2>2. /\ 0 \in Bits(v) <=> b0 = 1
        /\ 1 \in Bits(v) <=> b1 = 1
        /\ 2 \in Bits(v) <=> b2 = 1
        /\ 3 \in Bits(v) <=> b3 = 1
        /\ 4 \in Bits(v) <=> b4 = 1
        /\ 5 \in Bits(v) <=> b5 = 1
        /\ 6 \in Bits(v) <=> b6 = 1
        /\ 7 \in Bits(v) <=> b7 = 1
    BY <1>10, <1>11, <2>1, BitsAre
  <2>3. \A i \in 0 .. 7 : i = 0 \/ i = 1 \/ i = 2 \/ i = 3 \/ i = 4 \/ i = 5 \/ i = 6 \/ i = 7
    OBVIOUS
  <2> QED BY <1>1, <1>2, <1>3, <1>4, <1>5, <1>6, <1>7, <1>8, <2>2, <2>3
<1>13. Bits(v) \subseteq 0 .. 7
  BY DEF Bits
<1> QED BY <1>10, <1>12, <1>13 DEF v

\* xor on the bits of bytes.
LEMMA XorIs ==
  ASSUME NEW a \in Byte, NEW b \in Byte
  PROVE  /\ a (+) b \in Byte
         /\ \A i \in 0 .. 7 : i \in Bits(a (+) b) <=> ~(i \in Bits(a) <=> i \in Bits(b))
<1> DEFINE S == Field!Plus(Bits(a), Bits(b))
<1>1. S \in SUBSET (0 .. 7) /\ \A i \in 0 .. 7 : i \in S <=> ~(i \in Bits(a) <=> i \in Bits(b))
  BY DEF Field!Plus, Bits
<1>2. a (+) b = ByteOf(S)
  BY DEF (+), XorTable
<1> HIDE DEF S
<1>3. ByteOf(S) \in Byte /\ Bits(ByteOf(S)) = S
  BY <1>1, BitsOfByteOf
<1> QED BY <1>1, <1>2, <1>3

LEMMA SameBits ==
  ASSUME NEW a \in Byte, NEW b \in Byte, \A i \in 0 .. 7 : i \in Bits(a) <=> i \in Bits(b)
  PROVE  a = b
<1>1. Bits(a) = Bits(b)
  BY DEF Bits
<1> QED BY <1>1, ByteOfBits

LEMMA XorUndoes ==
  ASSUME NEW k \in Byte, NEW a \in Byte
  PROVE  k (+) (k (+) a) = a
<1>1. k (+) a \in Byte /\ k (+) (k (+) a) \in Byte
  BY XorIs
<1>2. \A i \in 0 .. 7 : i \in Bits(k (+) (k (+) a)) <=> i \in Bits(a)
  BY <1>1, XorIs
<1> QED BY <1>1, <1>2, SameBits

\* Doubling shifts the bits, and adds 27 when the bit 7 falls out.
LEMMA DoubleBits ==
  ASSUME NEW x \in Byte
  PROVE  /\ times2(x) \in Byte
         /\ 0 \in Bits(times2(x)) <=> 7 \in Bits(x)
         /\ 1 \in Bits(times2(x)) <=> ~(0 \in Bits(x) <=> 7 \in Bits(x))
         /\ 2 \in Bits(times2(x)) <=> 1 \in Bits(x)
         /\ 3 \in Bits(times2(x)) <=> ~(2 \in Bits(x) <=> 7 \in Bits(x))
         /\ 4 \in Bits(times2(x)) <=> ~(3 \in Bits(x) <=> 7 \in Bits(x))
         /\ 5 \in Bits(times2(x)) <=> 4 \in Bits(x)
         /\ 6 \in Bits(times2(x)) <=> 5 \in Bits(x)
         /\ 7 \in Bits(times2(x)) <=> 6 \in Bits(x)
<1> DEFINE y == (2 * x) % 256
           z == IF x >= 128 THEN 27 ELSE 0
<1>1. x \in Nat /\ y \in Byte /\ y \in Nat /\ z \in Byte /\ z \in Nat
  BY DEF Byte
<1>2. x >= 128 <=> 7 \in Bits(x)
  <2>1. x >= 128 <=> (x \div 128) % 2 = 1
    BY DEF Byte
  <2> QED BY <1>1, <2>1, BitsAre
<1>3. y = IF x >= 128 THEN 2 * x - 256 ELSE 2 * x
  BY DEF Byte
<1>4. y % 2 = 0
  BY <1>3 DEF Byte
<1>5. /\ (y \div 2) % 2 = x % 2 /\ (y \div 4) % 2 = (x \div 2) % 2
      /\ (y \div 8) % 2 = (x \div 4) % 2 /\ (y \div 16) % 2 = (x \div 8) % 2
      /\ (y \div 32) % 2 = (x \div 16) % 2 /\ (y \div 64) % 2 = (x \div 32) % 2
      /\ (y \div 128) % 2 = (x \div 64) % 2
  BY <1>3 DEF Byte
<1>6. /\ 0 \in Bits(z) <=> 7 \in Bits(x)
      /\ 1 \in Bits(z) <=> 7 \in Bits(x)
      /\ 2 \notin Bits(z)
      /\ 3 \in Bits(z) <=> 7 \in Bits(x)
      /\ 4 \in Bits(z) <=> 7 \in Bits(x)
      /\ 5 \notin Bits(z) /\ 6 \notin Bits(z) /\ 7 \notin Bits(z)
  <2>1. CASE x >= 128
    <3>1. z = 27
      BY <2>1
    <3> QED BY <1>2, <2>1, <3>1, BitsAre
  <2>2. CASE ~(x >= 128)
    <3>1. z = 0
      BY <2>2
    <3> QED BY <1>2, <2>2, <3>1, BitsAre
  <2> QED BY <2>1, <2>2
<1>7. /\ 0 \notin Bits(y)
      /\ 1 \in Bits(y) <=> 0 \in Bits(x)
      /\ 2 \in Bits(y) <=> 1 \in Bits(x)
      /\ 3 \in Bits(y) <=> 2 \in Bits(x)
      /\ 4 \in Bits(y) <=> 3 \in Bits(x)
      /\ 5 \in Bits(y) <=> 4 \in Bits(x)
      /\ 6 \in Bits(y) <=> 5 \in Bits(x)
      /\ 7 \in Bits(y) <=> 6 \in Bits(x)
  BY <1>1, <1>4, <1>5, BitsAre
<1>8. times2(x) = y (+) z
  BY DEF times2
<1> HIDE DEF y, z
<1>9. /\ y (+) z \in Byte
      /\ \A i \in 0 .. 7 : i \in Bits(y (+) z) <=> ~(i \in Bits(y) <=> i \in Bits(z))
  BY <1>1, XorIs
<1> QED BY <1>6, <1>7, <1>8, <1>9

\* Doubling is linear.
LEMMA DoubleAdds ==
  ASSUME NEW x \in Byte, NEW y \in Byte
  PROVE  times2(x (+) y) = times2(x) (+) times2(y)
<1>1. x (+) y \in Byte /\ times2(x) \in Byte /\ times2(y) \in Byte /\ times2(x (+) y) \in Byte
      /\ times2(x) (+) times2(y) \in Byte
  BY XorIs, DoubleBits
<1>2. \A i \in 0 .. 7 : i \in Bits(x (+) y) <=> ~(i \in Bits(x) <=> i \in Bits(y))
  BY XorIs
<1>3. \A i \in 0 .. 7 :
         i \in Bits(times2(x) (+) times2(y)) <=> ~(i \in Bits(times2(x)) <=> i \in Bits(times2(y)))
  BY <1>1, XorIs
<1>4. \A i \in 0 .. 7 : i = 0 \/ i = 1 \/ i = 2 \/ i = 3 \/ i = 4 \/ i = 5 \/ i = 6 \/ i = 7
  OBVIOUS
<1>5. \A i \in 0 .. 7 : i \in Bits(times2(x (+) y)) <=> i \in Bits(times2(x) (+) times2(y))
  <2>1. PICK s : s = x (+) y
    OBVIOUS
  <2> QED BY <1>1, <1>2, <1>3, <1>4, <2>1, DoubleBits
<1> QED BY <1>1, <1>5, SameBits

\* A row of MixColumns, in the order in which it adds.
Sum5(a, b, c, d, e) == ((a (+) (b (+) c)) (+) d) (+) e

\* xor of two bits.
Odd(p, q) == ~(p <=> q)

LEMMA SumDoubles ==
  \A a, b, c, d, e \in Byte :
     /\ Sum5(a, b, c, d, e) \in Byte
     /\ times2(Sum5(a, b, c, d, e)) = Sum5(times2(a), times2(b), times2(c), times2(d), times2(e))
<1> SUFFICES ASSUME NEW a \in Byte, NEW b \in Byte, NEW c \in Byte, NEW d \in Byte, NEW e \in Byte
             PROVE  /\ Sum5(a, b, c, d, e) \in Byte
                    /\ times2(Sum5(a, b, c, d, e))
                         = Sum5(times2(a), times2(b), times2(c), times2(d), times2(e))
  OBVIOUS
<1>1. PICK x \in Byte : x = b (+) c /\ times2(x) = times2(b) (+) times2(c)
  BY XorIs, DoubleAdds
<1>2. PICK y \in Byte : y = a (+) x /\ times2(y) = times2(a) (+) times2(x)
  BY XorIs, DoubleAdds
<1>3. PICK z \in Byte : z = y (+) d /\ times2(z) = times2(y) (+) times2(d)
  BY XorIs, DoubleAdds
<1>4. z (+) e \in Byte /\ times2(z (+) e) = times2(z) (+) times2(e)
  BY XorIs, DoubleAdds
<1> QED BY <1>1, <1>2, <1>3, <1>4 DEF Sum5

LEMMA SumBits ==
  \A a, b, c, d, e \in Byte : \A i \in 0 .. 7 :
     i \in Bits(Sum5(a, b, c, d, e))
       <=> Odd(Odd(Odd(i \in Bits(a), Odd(i \in Bits(b), i \in Bits(c))),
                   i \in Bits(d)), i \in Bits(e))
<1> SUFFICES ASSUME NEW a \in Byte, NEW b \in Byte, NEW c \in Byte, NEW d \in Byte, NEW e \in Byte,
                    NEW i \in 0 .. 7
             PROVE  i \in Bits(Sum5(a, b, c, d, e))
                      <=> Odd(Odd(Odd(i \in Bits(a), Odd(i \in Bits(b), i \in Bits(c))),
                                  i \in Bits(d)), i \in Bits(e))
  OBVIOUS
<1>1. PICK x \in Byte : x = b (+) c
  BY XorIs
<1>2. PICK y \in Byte : y = a (+) x
  BY XorIs
<1>3. PICK z \in Byte : z = y (+) d
  BY XorIs
<1>4. Sum5(a, b, c, d, e) = z (+) e
  BY <1>1, <1>2, <1>3 DEF Sum5
<1>5. i \in Bits(z (+) e) <=> Odd(i \in Bits(z), i \in Bits(e))
  BY XorIs DEF Odd
<1>6. i \in Bits(z) <=> Odd(i \in Bits(y), i \in Bits(d))
  BY <1>3, XorIs DEF Odd
<1>7. i \in Bits(y) <=> Odd(i \in Bits(a), i \in Bits(x))
  BY <1>2, XorIs DEF Odd
<1>8. i \in Bits(x) <=> Odd(i \in Bits(b), i \in Bits(c))
  BY <1>1, XorIs DEF Odd
<1> QED BY <1>4, <1>5, <1>6, <1>7, <1>8 DEF Odd

\* A byte of a mixed column.
Mixed(a, b, c, d) == times2(a) (+) times3(b) (+) c (+) d

LEMMA MixedIs ==
  \A a, b, c, d \in Byte : Mixed(a, b, c, d) = Sum5(times2(a), times2(b), b, c, d)
BY DEF Mixed, Sum5, times3

LEMMA PowersAre ==
  ASSUME NEW x \in Byte
  PROVE  /\ times2(x) \in Byte /\ times4(x) \in Byte /\ times8(x) \in Byte /\ times2(times8(x)) \in Byte
         /\ times4(x) = times2(times2(x)) /\ times8(x) = times2(times4(x))
<1>1. PICK x1 \in Byte : x1 = times2(x)
  BY DoubleBits
<1>2. PICK x2 \in Byte : x2 = times2(x1)
  BY DoubleBits
<1>3. PICK x3 \in Byte : x3 = times2(x2)
  BY DoubleBits
<1>4. times2(x3) \in Byte
  BY DoubleBits
<1> QED BY <1>1, <1>2, <1>3, <1>4 DEF times4, times8

\* One doubling of a row.
LEMMA RowDouble ==
  ASSUME NEW a \in Byte, NEW b \in Byte, NEW c \in Byte, NEW d \in Byte, NEW e \in Byte,
         NEW m, m = Sum5(a, b, c, d, e)
  PROVE  m \in Byte /\ times2(m) \in Byte
         /\ times2(m) = Sum5(times2(a), times2(b), times2(c), times2(d), times2(e))
BY SumDoubles, DoubleBits

\* The multiples of a row of the mixed column.
LEMMA RowMultiples ==
  ASSUME NEW w \in Byte, NEW x \in Byte, NEW y \in Byte, NEW z \in Byte,
         NEW m, m = Mixed(w, x, y, z)
  PROVE  /\ m \in Byte /\ m = Sum5(times2(w), times2(x), x, y, z)
         /\ times2(m) \in Byte
         /\ times2(m) = Sum5(times4(w), times4(x), times2(x), times2(y), times2(z))
         /\ times4(m) \in Byte
         /\ times4(m) = Sum5(times8(w), times8(x), times4(x), times4(y), times4(z))
         /\ times8(m) \in Byte
         /\ times8(m) = Sum5(times2(times8(w)), times2(times8(x)), times8(x), times8(y), times8(z))
<1>1. times2(w) \in Byte /\ times2(x) \in Byte /\ times2(y) \in Byte /\ times2(z) \in Byte
  BY DoubleBits
<1>2. m = Sum5(times2(w), times2(x), x, y, z)
  BY MixedIs
<1>3. times2(m) \in Byte /\ m \in Byte
      /\ times2(m) = Sum5(times2(times2(w)), times2(times2(x)), times2(x), times2(y), times2(z))
  <2>1. PICK a1 \in Byte : a1 = times2(w)
    BY PowersAre
  <2>2. PICK a2 \in Byte : a2 = times2(x)
    BY PowersAre
  <2>3. PICK a3 \in Byte : a3 = x
    BY PowersAre
  <2>4. PICK a4 \in Byte : a4 = y
    BY PowersAre
  <2>5. PICK a5 \in Byte : a5 = z
    BY PowersAre
  <2>6. PICK r : r = m
    OBVIOUS
  <2>7. r = Sum5(a1, a2, a3, a4, a5)
    BY <1>2, <2>1, <2>2, <2>3, <2>4, <2>5, <2>6
  <2>8. r \in Byte /\ times2(r) \in Byte
        /\ times2(r) = Sum5(times2(a1), times2(a2), times2(a3), times2(a4), times2(a5))
    BY <2>7, RowDouble
  <2> QED BY <2>1, <2>2, <2>3, <2>4, <2>5, <2>6, <2>8
<1>4. times2(m) = Sum5(times4(w), times4(x), times2(x), times2(y), times2(z))
  BY <1>3 DEF times4, times8
<1>5. times2(times2(m)) \in Byte /\ times2(m) \in Byte
      /\ times2(times2(m))
           = Sum5(times2(times4(w)), times2(times4(x)), times2(times2(x)),
                  times2(times2(y)), times2(times2(z)))
  <2>1. PICK a1 \in Byte : a1 = times4(w)
    BY PowersAre
  <2>2. PICK a2 \in Byte : a2 = times4(x)
    BY PowersAre
  <2>3. PICK a3 \in Byte : a3 = times2(x)
    BY PowersAre
  <2>4. PICK a4 \in Byte : a4 = times2(y)
    BY PowersAre
  <2>5. PICK a5 \in Byte : a5 = times2(z)
    BY PowersAre
  <2>6. PICK r : r = times2(m)
    OBVIOUS
  <2>7. r = Sum5(a1, a2, a3, a4, a5)
    BY <1>4, <2>1, <2>2, <2>3, <2>4, <2>5, <2>6
  <2>8. r \in Byte /\ times2(r) \in Byte
        /\ times2(r) = Sum5(times2(a1), times2(a2), times2(a3), times2(a4), times2(a5))
    BY <2>7, RowDouble
  <2> QED BY <2>1, <2>2, <2>3, <2>4, <2>5, <2>6, <2>8
<1>6. times4(m) = Sum5(times8(w), times8(x), times4(x), times4(y), times4(z))
  BY <1>5 DEF times4, times8
<1>7. times2(times4(m)) \in Byte /\ times4(m) \in Byte
      /\ times2(times4(m))
           = Sum5(times2(times8(w)), times2(times8(x)), times2(times4(x)),
                  times2(times4(y)), times2(times4(z)))
  <2>1. PICK a1 \in Byte : a1 = times8(w)
    BY PowersAre
  <2>2. PICK a2 \in Byte : a2 = times8(x)
    BY PowersAre
  <2>3. PICK a3 \in Byte : a3 = times4(x)
    BY PowersAre
  <2>4. PICK a4 \in Byte : a4 = times4(y)
    BY PowersAre
  <2>5. PICK a5 \in Byte : a5 = times4(z)
    BY PowersAre
  <2>6. PICK r : r = times4(m)
    OBVIOUS
  <2>7. r = Sum5(a1, a2, a3, a4, a5)
    BY <1>6, <2>1, <2>2, <2>3, <2>4, <2>5, <2>6
  <2>8. r \in Byte /\ times2(r) \in Byte
        /\ times2(r) = Sum5(times2(a1), times2(a2), times2(a3), times2(a4), times2(a5))
    BY <2>7, RowDouble
  <2> QED BY <2>1, <2>2, <2>3, <2>4, <2>5, <2>6, <2>8
<1>8. times8(m) = Sum5(times2(times8(w)), times2(times8(x)), times8(x), times8(y), times8(z))
  BY <1>7 DEF times4, times8
<1> QED BY <1>2, <1>3, <1>4, <1>5, <1>6, <1>7, <1>8 DEF times4, times8

\* A bit of the multiples of m is the sum of the bits that a row sums up.
RowSums(m, w, x, y, z, i) ==
  /\ i \in Bits(m)
       <=> Odd(Odd(Odd(i \in Bits(times2(w)), Odd(i \in Bits(times2(x)), i \in Bits(x))),
                   i \in Bits(y)), i \in Bits(z))
  /\ i \in Bits(times2(m))
       <=> Odd(Odd(Odd(i \in Bits(times4(w)), Odd(i \in Bits(times4(x)), i \in Bits(times2(x)))),
                   i \in Bits(times2(y))), i \in Bits(times2(z)))
  /\ i \in Bits(times4(m))
       <=> Odd(Odd(Odd(i \in Bits(times8(w)), Odd(i \in Bits(times8(x)), i \in Bits(times4(x)))),
                   i \in Bits(times4(y))), i \in Bits(times4(z)))
  /\ i \in Bits(times8(m))
       <=> Odd(Odd(Odd(i \in Bits(times2(times8(w))),
                      Odd(i \in Bits(times2(times8(x))), i \in Bits(times8(x)))),
                   i \in Bits(times8(y))), i \in Bits(times8(z)))

LEMMA RowBits ==
  ASSUME NEW w \in Byte, NEW x \in Byte, NEW y \in Byte, NEW z \in Byte,
         NEW m, m = Mixed(w, x, y, z), NEW i \in 0 .. 7
  PROVE  RowSums(m, w, x, y, z, i)
<1>1. i \in Bits(m)
        <=> Odd(Odd(Odd(i \in Bits(times2(w)), Odd(i \in Bits(times2(x)), i \in Bits(x))),
                    i \in Bits(y)), i \in Bits(z))
  <2>1. PICK a1 \in Byte : a1 = times2(w)
    BY PowersAre
  <2>2. PICK a2 \in Byte : a2 = times2(x)
    BY PowersAre
  <2>3. PICK a3 \in Byte : a3 = x
    BY PowersAre
  <2>4. PICK a4 \in Byte : a4 = y
    BY PowersAre
  <2>5. PICK a5 \in Byte : a5 = z
    BY PowersAre
  <2>6. m = Sum5(a1, a2, a3, a4, a5)
    BY <2>1, <2>2, <2>3, <2>4, <2>5, RowMultiples
  <2>7. i \in Bits(Sum5(a1, a2, a3, a4, a5))
          <=> Odd(Odd(Odd(i \in Bits(a1), Odd(i \in Bits(a2), i \in Bits(a3))),
                      i \in Bits(a4)), i \in Bits(a5))
    BY SumBits
  <2> QED BY <2>1, <2>2, <2>3, <2>4, <2>5, <2>6, <2>7
<1>2. i \in Bits(times2(m))
        <=> Odd(Odd(Odd(i \in Bits(times4(w)), Odd(i \in Bits(times4(x)), i \in Bits(times2(x)))),
                    i \in Bits(times2(y))), i \in Bits(times2(z)))
  <2>1. PICK a1 \in Byte : a1 = times4(w)
    BY PowersAre
  <2>2. PICK a2 \in Byte : a2 = times4(x)
    BY PowersAre
  <2>3. PICK a3 \in Byte : a3 = times2(x)
    BY PowersAre
  <2>4. PICK a4 \in Byte : a4 = times2(y)
    BY PowersAre
  <2>5. PICK a5 \in Byte : a5 = times2(z)
    BY PowersAre
  <2>6. times2(m) = Sum5(a1, a2, a3, a4, a5)
    BY <2>1, <2>2, <2>3, <2>4, <2>5, RowMultiples
  <2>7. i \in Bits(Sum5(a1, a2, a3, a4, a5))
          <=> Odd(Odd(Odd(i \in Bits(a1), Odd(i \in Bits(a2), i \in Bits(a3))),
                      i \in Bits(a4)), i \in Bits(a5))
    BY SumBits
  <2> QED BY <2>1, <2>2, <2>3, <2>4, <2>5, <2>6, <2>7
<1>3. i \in Bits(times4(m))
        <=> Odd(Odd(Odd(i \in Bits(times8(w)), Odd(i \in Bits(times8(x)), i \in Bits(times4(x)))),
                    i \in Bits(times4(y))), i \in Bits(times4(z)))
  <2>1. PICK a1 \in Byte : a1 = times8(w)
    BY PowersAre
  <2>2. PICK a2 \in Byte : a2 = times8(x)
    BY PowersAre
  <2>3. PICK a3 \in Byte : a3 = times4(x)
    BY PowersAre
  <2>4. PICK a4 \in Byte : a4 = times4(y)
    BY PowersAre
  <2>5. PICK a5 \in Byte : a5 = times4(z)
    BY PowersAre
  <2>6. times4(m) = Sum5(a1, a2, a3, a4, a5)
    BY <2>1, <2>2, <2>3, <2>4, <2>5, RowMultiples
  <2>7. i \in Bits(Sum5(a1, a2, a3, a4, a5))
          <=> Odd(Odd(Odd(i \in Bits(a1), Odd(i \in Bits(a2), i \in Bits(a3))),
                      i \in Bits(a4)), i \in Bits(a5))
    BY SumBits
  <2> QED BY <2>1, <2>2, <2>3, <2>4, <2>5, <2>6, <2>7
<1>4. i \in Bits(times8(m))
        <=> Odd(Odd(Odd(i \in Bits(times2(times8(w))),
                      Odd(i \in Bits(times2(times8(x))), i \in Bits(times8(x)))),
                    i \in Bits(times8(y))), i \in Bits(times8(z)))
  <2>1. PICK a1 \in Byte : a1 = times2(times8(w))
    BY PowersAre
  <2>2. PICK a2 \in Byte : a2 = times2(times8(x))
    BY PowersAre
  <2>3. PICK a3 \in Byte : a3 = times8(x)
    BY PowersAre
  <2>4. PICK a4 \in Byte : a4 = times8(y)
    BY PowersAre
  <2>5. PICK a5 \in Byte : a5 = times8(z)
    BY PowersAre
  <2>6. times8(m) = Sum5(a1, a2, a3, a4, a5)
    BY <2>1, <2>2, <2>3, <2>4, <2>5, RowMultiples
  <2>7. i \in Bits(Sum5(a1, a2, a3, a4, a5))
          <=> Odd(Odd(Odd(i \in Bits(a1), Odd(i \in Bits(a2), i \in Bits(a3))),
                      i \in Bits(a4)), i \in Bits(a5))
    BY SumBits
  <2> QED BY <2>1, <2>2, <2>3, <2>4, <2>5, <2>6, <2>7
<1> QED BY <1>1, <1>2, <1>3, <1>4 DEF RowSums

\* The factors of the inverse, from the powers of two.
LEMMA FactorBits ==
  ASSUME NEW m \in Byte, NEW i \in 0 .. 7
  PROVE  /\ times9(m) \in Byte /\ times11(m) \in Byte /\ times13(m) \in Byte /\ times14(m) \in Byte
         /\ i \in Bits(times9(m)) <=> Odd(i \in Bits(times8(m)), i \in Bits(m))
         /\ i \in Bits(times11(m))
              <=> Odd(Odd(i \in Bits(times8(m)), i \in Bits(times2(m))), i \in Bits(m))
         /\ i \in Bits(times13(m))
              <=> Odd(Odd(i \in Bits(times8(m)), i \in Bits(times4(m))), i \in Bits(m))
         /\ i \in Bits(times14(m))
              <=> Odd(Odd(i \in Bits(times8(m)), i \in Bits(times4(m))), i \in Bits(times2(m)))
<1>1. PICK m1 \in Byte : m1 = times2(m)
  BY PowersAre
<1>2. PICK m2 \in Byte : m2 = times4(m)
  BY PowersAre
<1>3. PICK m3 \in Byte : m3 = times8(m)
  BY PowersAre
<1>4. ASSUME NEW a \in Byte, NEW b \in Byte, NEW c \in Byte
      PROVE  /\ (a (+) b) (+) c \in Byte
             /\ i \in Bits((a (+) b) (+) c) <=> Odd(Odd(i \in Bits(a), i \in Bits(b)), i \in Bits(c))
  <2>1. PICK s \in Byte : s = a (+) b
    BY XorIs
  <2>2. i \in Bits(s) <=> Odd(i \in Bits(a), i \in Bits(b))
    BY <2>1, XorIs DEF Odd
  <2>3. s (+) c \in Byte /\ (i \in Bits(s (+) c) <=> Odd(i \in Bits(s), i \in Bits(c)))
    BY XorIs DEF Odd
  <2> QED BY <2>1, <2>2, <2>3 DEF Odd
<1>5. m3 (+) m \in Byte /\ (i \in Bits(m3 (+) m) <=> Odd(i \in Bits(m3), i \in Bits(m)))
  BY XorIs DEF Odd
<1>6. times9(m) = m3 (+) m /\ times11(m) = (m3 (+) m1) (+) m
      /\ times13(m) = (m3 (+) m2) (+) m /\ times14(m) = (m3 (+) m2) (+) m1
  BY <1>1, <1>2, <1>3 DEF times9, times11, times13, times14
<1>7. /\ (m3 (+) m1) (+) m \in Byte
      /\ i \in Bits((m3 (+) m1) (+) m) <=> Odd(Odd(i \in Bits(m3), i \in Bits(m1)), i \in Bits(m))
  BY <1>4
<1>8. /\ (m3 (+) m2) (+) m \in Byte
      /\ i \in Bits((m3 (+) m2) (+) m) <=> Odd(Odd(i \in Bits(m3), i \in Bits(m2)), i \in Bits(m))
  BY <1>4
<1>9. /\ (m3 (+) m2) (+) m1 \in Byte
      /\ i \in Bits((m3 (+) m2) (+) m1) <=> Odd(Odd(i \in Bits(m3), i \in Bits(m2)), i \in Bits(m1))
  BY <1>4
<1> QED BY <1>1, <1>2, <1>3, <1>5, <1>6, <1>7, <1>8, <1>9

\* The factors of InvMixColumns undo those of MixColumns: as 9, 11, 13 and 14 are
\* sums of powers of two, all but one term occur an even number of times.
LEMMA FactorsInvert ==
  ASSUME NEW a \in Byte, NEW b \in Byte, NEW c \in Byte, NEW d \in Byte
  PROVE  /\ Mixed(a, b, c, d) \in Byte
         /\ times14(Mixed(a, b, c, d)) (+) times11(Mixed(b, c, d, a))
              (+) times13(Mixed(c, d, a, b)) (+) times9(Mixed(d, a, b, c)) = a
<1>1. PICK m \in Byte : m = Mixed(a, b, c, d)
  BY RowMultiples
<1>2. PICK n \in Byte : n = Mixed(b, c, d, a)
  BY RowMultiples
<1>3. PICK o \in Byte : o = Mixed(c, d, a, b)
  BY RowMultiples
<1>4. PICK p \in Byte : p = Mixed(d, a, b, c)
  BY RowMultiples
<1>5. PICK e1 \in Byte : e1 = times14(m)
  BY FactorBits
<1>6. PICK e2 \in Byte : e2 = times11(n)
  BY FactorBits
<1>7. PICK e3 \in Byte : e3 = times13(o)
  BY FactorBits
<1>8. PICK e4 \in Byte : e4 = times9(p)
  BY FactorBits
<1>9. PICK f1 \in Byte : f1 = e1 (+) e2
  BY XorIs
<1>10. PICK f2 \in Byte : f2 = f1 (+) e3
  BY XorIs
<1>11. PICK f3 \in Byte : f3 = f2 (+) e4
  BY XorIs
<1>12. ASSUME NEW i \in 0 .. 7 PROVE i \in Bits(f3) <=> i \in Bits(a)
  <2>1. RowSums(m, a, b, c, d, i)
    BY <1>1, RowBits
  <2>2. RowSums(n, b, c, d, a, i)
    BY <1>2, RowBits
  <2>3. RowSums(o, c, d, a, b, i)
    BY <1>3, RowBits
  <2>4. RowSums(p, d, a, b, c, i)
    BY <1>4, RowBits
  <2>5. i \in Bits(e1) <=> Odd(Odd(i \in Bits(times8(m)), i \in Bits(times4(m))), i \in Bits(times2(m)))
    BY <1>5, FactorBits
  <2>6. i \in Bits(e2) <=> Odd(Odd(i \in Bits(times8(n)), i \in Bits(times2(n))), i \in Bits(n))
    BY <1>6, FactorBits
  <2>7. i \in Bits(e3) <=> Odd(Odd(i \in Bits(times8(o)), i \in Bits(times4(o))), i \in Bits(o))
    BY <1>7, FactorBits
  <2>8. i \in Bits(e4) <=> Odd(i \in Bits(times8(p)), i \in Bits(p))
    BY <1>8, FactorBits
  <2>9. i \in Bits(f1) <=> Odd(i \in Bits(e1), i \in Bits(e2))
    BY <1>9, XorIs DEF Odd
  <2>10. i \in Bits(f2) <=> Odd(i \in Bits(f1), i \in Bits(e3))
    BY <1>10, XorIs DEF Odd
  <2>11. i \in Bits(f3) <=> Odd(i \in Bits(f2), i \in Bits(e4))
    BY <1>11, XorIs DEF Odd
  <2> QED BY <2>1, <2>2, <2>3, <2>4, <2>5, <2>6, <2>7, <2>8, <2>9, <2>10, <2>11 DEF RowSums, Odd
<1>13. f3 = a
  BY <1>12, SameBits
<1> QED BY <1>1, <1>2, <1>3, <1>4, <1>5, <1>6, <1>7, <1>8, <1>9, <1>10, <1>11, <1>13

\* The two tables that are typed in, entry by entry.
LEMMA SBoxInverts ==
  /\ \A x \in Byte : SBoxf(x) \in Byte
  /\ \A x \in Byte : InvSBoxf(SBoxf(x)) = x
<1>1. \A x \in Byte : SBoxf(x) \in Byte
  BY SMTT(60) DEF Byte, SBoxf, SBox_a
<1>2. \A x \in Byte : InvSBoxf(SBoxf(x)) = x
  BY SMTT(120) DEF Byte, SBoxf, SBox_a, InvSBoxf, InvSBox_a
<1> QED BY <1>1, <1>2

(* The parts of a round. *)

LEMMA WordIs ==
  ASSUME NEW a \in Byte, NEW b \in Byte, NEW c \in Byte, NEW d \in Byte
  PROVE  /\ <<a, b, c, d>> \in Word
         /\ <<a, b, c, d>>[1] = a /\ <<a, b, c, d>>[2] = b
         /\ <<a, b, c, d>>[3] = c /\ <<a, b, c, d>>[4] = d
BY DEF Word, Index

LEMMA StateIs ==
  ASSUME NEW a \in Word, NEW b \in Word, NEW c \in Word, NEW d \in Word
  PROVE  /\ <<a, b, c, d>> \in State
         /\ <<a, b, c, d>>[1] = a /\ <<a, b, c, d>>[2] = b
         /\ <<a, b, c, d>>[3] = c /\ <<a, b, c, d>>[4] = d
BY DEF State, Index

LEMMA SameWord ==
  ASSUME NEW v \in Word, NEW w \in Word, v[1] = w[1], v[2] = w[2], v[3] = w[3], v[4] = w[4]
  PROVE  v = w
<1>1. \A i \in Index : v[i] = w[i]
  BY DEF Index
<1> QED BY <1>1 DEF Word

LEMMA SameState ==
  ASSUME NEW v \in State, NEW w \in State, v[1] = w[1], v[2] = w[2], v[3] = w[3], v[4] = w[4]
  PROVE  v = w
<1>1. \A i \in Index : v[i] = w[i]
  BY DEF Index
<1> QED BY <1>1 DEF State

LEMMA Parts ==
  /\ \A w \in Word : w[1] \in Byte /\ w[2] \in Byte /\ w[3] \in Byte /\ w[4] \in Byte
  /\ \A b \in State : b[1] \in Word /\ b[2] \in Word /\ b[3] \in Word /\ b[4] \in Word
BY DEF Word, State, Index

LEMMA XorTwice == \A k, a \in Byte : \E x \in Byte : x = k (+) a /\ k (+) x = a
BY XorIs, XorUndoes

LEMMA XorWordUndoes ==
  ASSUME NEW v \in Word, NEW w \in Word
  PROVE  XorWord(v, w) \in Word /\ XorWord(v, XorWord(v, w)) = w
<1>1. PICK x1 \in Byte : x1 = v[1] (+) w[1] /\ v[1] (+) x1 = w[1]
  BY Parts, XorTwice
<1>2. PICK x2 \in Byte : x2 = v[2] (+) w[2] /\ v[2] (+) x2 = w[2]
  BY Parts, XorTwice
<1>3. PICK x3 \in Byte : x3 = v[3] (+) w[3] /\ v[3] (+) x3 = w[3]
  BY Parts, XorTwice
<1>4. PICK x4 \in Byte : x4 = v[4] (+) w[4] /\ v[4] (+) x4 = w[4]
  BY Parts, XorTwice
<1>5. XorWord(v, w) = <<x1, x2, x3, x4>>
  BY <1>1, <1>2, <1>3, <1>4 DEF XorWord
<1>6. PICK y : y = <<x1, x2, x3, x4>>
  OBVIOUS
<1>7. y \in Word /\ y[1] = x1 /\ y[2] = x2 /\ y[3] = x3 /\ y[4] = x4
  BY <1>6, WordIs
<1>8. XorWord(v, y) = <<w[1], w[2], w[3], w[4]>>
  BY <1>1, <1>2, <1>3, <1>4, <1>7 DEF XorWord
<1>9. PICK z : z = <<w[1], w[2], w[3], w[4]>>
  OBVIOUS
<1>10. z \in Word /\ z[1] = w[1] /\ z[2] = w[2] /\ z[3] = w[3] /\ z[4] = w[4]
  BY <1>9, WordIs, Parts
<1>11. z = w
  BY <1>10, SameWord
<1> QED BY <1>5, <1>6, <1>7, <1>8, <1>9, <1>11

LEMMA AddRoundKeyUndoes ==
  ASSUME NEW b \in State, NEW k \in State
  PROVE  AddRoundKey(b, k) \in State /\ AddRoundKey(AddRoundKey(b, k), k) = b
<1>1. PICK x1 \in Word : x1 = XorWord(k[1], b[1]) /\ XorWord(k[1], x1) = b[1]
  BY Parts, XorWordUndoes
<1>2. PICK x2 \in Word : x2 = XorWord(k[2], b[2]) /\ XorWord(k[2], x2) = b[2]
  BY Parts, XorWordUndoes
<1>3. PICK x3 \in Word : x3 = XorWord(k[3], b[3]) /\ XorWord(k[3], x3) = b[3]
  BY Parts, XorWordUndoes
<1>4. PICK x4 \in Word : x4 = XorWord(k[4], b[4]) /\ XorWord(k[4], x4) = b[4]
  BY Parts, XorWordUndoes
<1>5. AddRoundKey(b, k) = <<x1, x2, x3, x4>>
  BY <1>1, <1>2, <1>3, <1>4 DEF AddRoundKey
<1>6. PICK y : y = <<x1, x2, x3, x4>>
  OBVIOUS
<1>7. y \in State /\ y[1] = x1 /\ y[2] = x2 /\ y[3] = x3 /\ y[4] = x4
  BY <1>6, StateIs
<1>8. AddRoundKey(y, k) = <<b[1], b[2], b[3], b[4]>>
  BY <1>1, <1>2, <1>3, <1>4, <1>7 DEF AddRoundKey
<1>9. PICK z : z = <<b[1], b[2], b[3], b[4]>>
  OBVIOUS
<1>10. z \in State /\ z[1] = b[1] /\ z[2] = b[2] /\ z[3] = b[3] /\ z[4] = b[4]
  BY <1>9, StateIs, Parts
<1>11. z = b
  BY <1>10, SameState
<1> QED BY <1>5, <1>6, <1>7, <1>8, <1>9, <1>11

LEMMA AfterIs ==
  /\ After(1, 1) = 2 /\ After(1, 2) = 3 /\ After(1, 3) = 4
  /\ After(2, 1) = 3 /\ After(2, 2) = 4 /\ After(2, 3) = 1
  /\ After(3, 1) = 4 /\ After(3, 2) = 1 /\ After(3, 3) = 2
  /\ After(4, 1) = 1 /\ After(4, 2) = 2 /\ After(4, 3) = 3
BY DEF After

LEMMA MixColumnUndoes ==
  ASSUME NEW w \in Word
  PROVE  MixColumn(w) \in Word /\ InvMixColumn(MixColumn(w)) = w
<1>1. PICK a \in Byte, b \in Byte, c \in Byte, d \in Byte : w[1] = a /\ w[2] = b /\ w[3] = c /\ w[4] = d
  BY Parts
<1>2. PICK m \in Byte : m = Mixed(a, b, c, d)
  BY FactorsInvert
<1>3. PICK n \in Byte : n = Mixed(b, c, d, a)
  BY FactorsInvert
<1>4. PICK o \in Byte : o = Mixed(c, d, a, b)
  BY FactorsInvert
<1>5. PICK p \in Byte : p = Mixed(d, a, b, c)
  BY FactorsInvert
<1>6. MixColumn(w) = <<m, n, o, p>>
  BY <1>1, <1>2, <1>3, <1>4, <1>5, AfterIs DEF MixColumn, Mixed
<1>7. PICK y : y = <<m, n, o, p>>
  OBVIOUS
<1>8. y \in Word /\ y[1] = m /\ y[2] = n /\ y[3] = o /\ y[4] = p
  BY <1>7, WordIs
<1>9. times14(m) (+) times11(n) (+) times13(o) (+) times9(p) = a
  BY <1>2, <1>3, <1>4, <1>5, FactorsInvert
<1>10. times14(n) (+) times11(o) (+) times13(p) (+) times9(m) = b
  BY <1>2, <1>3, <1>4, <1>5, FactorsInvert
<1>11. times14(o) (+) times11(p) (+) times13(m) (+) times9(n) = c
  BY <1>2, <1>3, <1>4, <1>5, FactorsInvert
<1>12. times14(p) (+) times11(m) (+) times13(n) (+) times9(o) = d
  BY <1>2, <1>3, <1>4, <1>5, FactorsInvert
<1>13. InvMixColumn(y) = <<a, b, c, d>>
  BY <1>8, <1>9, <1>10, <1>11, <1>12, AfterIs DEF InvMixColumn
<1>14. PICK z : z = <<a, b, c, d>>
  OBVIOUS
<1>15. z \in Word /\ z[1] = a /\ z[2] = b /\ z[3] = c /\ z[4] = d
  BY <1>14, WordIs
<1>16. z = w
  BY <1>1, <1>15, SameWord
<1> QED BY <1>6, <1>7, <1>8, <1>13, <1>14, <1>16

LEMMA MixColumnsUndo ==
  ASSUME NEW b \in State
  PROVE  MixColumns(b) \in State /\ InvMixColumns(MixColumns(b)) = b
<1>1. PICK x1 \in Word : x1 = MixColumn(b[1]) /\ InvMixColumn(x1) = b[1]
  BY Parts, MixColumnUndoes
<1>2. PICK x2 \in Word : x2 = MixColumn(b[2]) /\ InvMixColumn(x2) = b[2]
  BY Parts, MixColumnUndoes
<1>3. PICK x3 \in Word : x3 = MixColumn(b[3]) /\ InvMixColumn(x3) = b[3]
  BY Parts, MixColumnUndoes
<1>4. PICK x4 \in Word : x4 = MixColumn(b[4]) /\ InvMixColumn(x4) = b[4]
  BY Parts, MixColumnUndoes
<1>5. PICK y : y = <<x1, x2, x3, x4>>
  OBVIOUS
<1>6. MixColumns(b) = y
  BY <1>1, <1>2, <1>3, <1>4, <1>5 DEF MixColumns
<1>7. y \in State /\ y[1] = x1 /\ y[2] = x2 /\ y[3] = x3 /\ y[4] = x4
  BY <1>5, StateIs
<1>8. InvMixColumns(y) = <<b[1], b[2], b[3], b[4]>>
  BY <1>1, <1>2, <1>3, <1>4, <1>7 DEF InvMixColumns
<1>9. PICK z : z = <<b[1], b[2], b[3], b[4]>>
  OBVIOUS
<1>10. z \in State /\ z[1] = b[1] /\ z[2] = b[2] /\ z[3] = b[3] /\ z[4] = b[4]
  BY <1>9, StateIs, Parts
<1>11. z = b
  BY <1>10, SameState
<1> QED BY <1>6, <1>7, <1>8, <1>9, <1>11

\* What a round substitutes and shifts, the other direction shifts back and
\* substitutes back.
LEMMA ShiftSubUndo ==
  ASSUME NEW b \in State
  PROVE  /\ ShiftRows(SubBytes(b)) \in State
         /\ InvSubBytes(InvShiftRows(ShiftRows(SubBytes(b)))) = b
<1>1. \A c \in Index, r \in Index :
         After(c, r - 1) \in Index /\ After(c, 1 - r) \in Index /\ After(After(c, 1 - r), r - 1) = c
  BY DEF After, Index
<1>2. \A c \in Index, r \in Index : b[c][r] \in Byte
  BY DEF State, Word
<1> DEFINE s == SubBytes(b)
           t == ShiftRows(s)
           u == InvShiftRows(t)
           v == InvSubBytes(u)
<1>3. \A c \in Index, r \in Index : s[c][r] \in Byte /\ InvSBoxf(s[c][r]) = b[c][r]
  BY <1>2, SBoxInverts DEF SubBytes
<1> HIDE DEF s
<1>4. t \in State /\ \A c \in Index, r \in Index : t[c][r] = s[After(c, r - 1)][r]
  <2>1. \A c \in Index, r \in Index : s[After(c, r - 1)][r] \in Byte
    BY <1>1, <1>3
  <2> QED BY <2>1 DEF ShiftRows, State, Word
<1> HIDE DEF t
<1>5. \A c \in Index, r \in Index : u[c][r] = t[After(c, 1 - r)][r]
  BY DEF InvShiftRows
<1> HIDE DEF u
<1>6. ASSUME NEW c \in Index, NEW r \in Index PROVE u[c][r] = s[c][r]
  <2>1. PICK e \in Index : e = After(c, 1 - r) /\ After(e, r - 1) = c
    BY <1>1
  <2>2. u[c][r] = t[e][r]
    BY <1>5, <2>1
  <2>3. t[e][r] = s[After(e, r - 1)][r]
    BY <1>4
  <2> QED BY <2>1, <2>2, <2>3
<1>7. v = [c \in Index |-> [r \in Index |-> b[c][r]]]
  BY <1>3, <1>6 DEF InvSubBytes
<1>8. b = [c \in Index |-> [r \in Index |-> b[c][r]]]
  BY DEF State, Word
<1> HIDE DEF v
<1> QED BY <1>4, <1>7, <1>8 DEF v, u, t, s

(* The chains of words and of blocks. *)

\* An induction from lo to hi.
LEMMA Upwards ==
  ASSUME NEW lo \in Nat, NEW hi \in Nat, NEW P, lo \in P,
         \A m \in lo + 1 .. hi : m - 1 \in P => m \in P
  PROVE  \A m \in lo .. hi : m \in P
<1> DEFINE Off == {m \in lo .. hi : m \notin P}
<1>1. SUFFICES ASSUME Off # {} PROVE FALSE
  OBVIOUS
<1>2. PICK m \in Off : \A k \in Off : ~(k < m)
  <2>1. Off \subseteq Nat
    OBVIOUS
  <2> HIDE DEF Off
  <2> QED BY <1>1, <2>1, LeastNumber
<1>3. m \in lo .. hi /\ m # lo
  OBVIOUS
<1>4. m \in lo + 1 .. hi /\ m - 1 \in lo .. hi /\ m - 1 < m
  BY <1>3
<1>5. m - 1 \in P
  BY <1>2, <1>4
<1> QED BY <1>4, <1>5

\* The values f[lo], f[lo + 1] up to f[t], each made from the one before it.
ChainTo(f, start, G, X, lo, t) ==
  /\ f = [m \in lo .. t |-> IF m = lo THEN start ELSE G[m][f[m - 1]]]
  /\ \A m \in lo .. t : f[m] \in X[m]

StepsIn(G, X, lo, hi) == \A m \in lo + 1 .. hi : \A x \in X[m - 1] : G[m][x] \in X[m]

LEMMA ChainExists ==
  ASSUME NEW lo \in Nat, NEW hi \in Nat, lo <= hi, NEW X, NEW start, start \in X[lo], NEW G,
         StepsIn(G, X, lo, hi)
  PROVE  \E f : ChainTo(f, start, G, X, lo, hi)
<1> USE DEF StepsIn, ChainTo
<1> DEFINE IsChain(f, t) == ChainTo(f, start, G, X, lo, t)
           P == {t \in lo .. hi : \E f : IsChain(f, t)}
<1>1. lo \in P
  <2> DEFINE f == [m \in lo .. lo |-> start]
  <2>1. f = [m \in lo .. lo |-> IF m = lo THEN start ELSE G[m][f[m - 1]]]
    OBVIOUS
  <2>2. \A m \in lo .. lo : f[m] \in X[m]
    OBVIOUS
  <2> HIDE DEF f
  <2> QED BY <2>1, <2>2
<1>2. ASSUME NEW t \in lo + 1 .. hi, t - 1 \in P PROVE t \in P
  <2>1. PICK old : IsChain(old, t - 1)
    BY <1>2
  <2> DEFINE f == [m \in lo .. t |-> IF m = t THEN G[t][old[t - 1]] ELSE old[m]]
  <2>2. old[t - 1] \in X[t - 1] /\ G[t][old[t - 1]] \in X[t]
    BY <2>1
  <2>3. ASSUME NEW m \in lo .. t
        PROVE  f[m] = (IF m = lo THEN start ELSE G[m][f[m - 1]]) /\ f[m] \in X[m]
    <3>1. CASE m = t
      <4>1. m # lo /\ m - 1 \in lo .. t /\ m - 1 # t
        BY <3>1
      <4>2. f[m - 1] = old[m - 1] /\ f[m] = G[t][old[t - 1]]
        BY <3>1, <4>1
      <4> QED BY <2>2, <3>1, <4>1, <4>2
    <3>2. CASE m # t
      <4>1. m \in lo .. t - 1 /\ f[m] = old[m]
        BY <3>2
      <4>2. old[m] = (IF m = lo THEN start ELSE G[m][old[m - 1]]) /\ old[m] \in X[m]
        BY <4>1, <2>1
      <4>3. m # lo => m - 1 \in lo .. t /\ m - 1 # t
        BY <4>1
      <4>4. m # lo => f[m - 1] = old[m - 1]
        BY <4>3
      <4> QED BY <4>1, <4>2, <4>4
    <3> QED BY <3>1, <3>2
  <2>4. f = [m \in lo .. t |-> f[m]]
    OBVIOUS
  <2> HIDE DEF f
  <2>5. f = [m \in lo .. t |-> IF m = lo THEN start ELSE G[m][f[m - 1]]]
    BY <2>3, <2>4
  <2>6. IsChain(f, t)
    BY <2>3, <2>5
  <2> HIDE DEF IsChain
  <2> QED BY <2>6
<1>3. hi \in P
  <2> HIDE DEF P
  <2>1. \A m \in lo .. hi : m \in P
    BY <1>1, <1>2, Upwards
  <2> QED BY <2>1
<1> QED BY <1>3

\* The sequences of so many elements.
Sized(T, m) == {s \in Seq(T) : Len(s) = m}

LEMMA SizedMore ==
  ASSUME NEW T, NEW m \in Nat, m # 0, NEW s \in Sized(T, m - 1), NEW x \in T
  PROVE  Append(s, x) \in Sized(T, m) /\ Append(s, x)[m] = x
BY DEF Sized

LEMMA SizedElement ==
  ASSUME NEW T, NEW m \in Nat, NEW s \in Sized(T, m), NEW i \in 1 .. m
  PROVE  s[i] \in T
BY DEF Sized

LEMMA ScrambledType ==
  ASSUME NEW w \in Word, NEW i \in 8 .. 59
  PROVE  Scrambled(i, w) \in Word
<1>1. \A r \in Index : After(r, 1) \in Index
  BY DEF After, Index
<1>2. [r \in Index |-> SBoxf(w[After(r, 1)])] \in Word
  BY <1>1, SBoxInverts DEF Word
<1>3. [r \in Index |-> SBoxf(w[r])] \in Word
  BY SBoxInverts DEF Word
<1>4. i % 8 = 0 => <<Rcon[i \div 8], 0, 0, 0>> \in Word
  <2>1. \A q \in 1 .. 7 : Rcon[q] \in Byte
    BY DEF Rcon, Byte
  <2>2. i \div 8 \in 1 .. 7 /\ 0 \in Byte
    BY DEF Byte
  <2>3. PICK q \in Byte : q = Rcon[i \div 8]
    BY <2>1, <2>2
  <2> QED BY <2>2, <2>3, WordIs
<1> QED BY <1>2, <1>3, <1>4, XorWordUndoes DEF Scrambled

LEMMA ScheduleType ==
  ASSUME NEW words \in Sized(Word, 8)
  PROVE  KeyExpansion(words) \in Sized(Word, 60)
<1> DEFINE More(n, s) == Append(s, XorWord(s[n - 8], Scrambled(n - 1, s[n - 1])))
           X == [n \in 0 .. 60 |-> Sized(Word, n)]
           G == [n \in 9 .. 60 |-> [s \in X[n - 1] |-> More(n, s)]]
           IsKs(f) == f = [n \in 8 .. 60 |-> IF n = 8 THEN words ELSE More(n, f[n - 1])]
<1>1. ASSUME NEW n \in 9 .. 60, NEW s \in Sized(Word, n - 1) PROVE More(n, s) \in Sized(Word, n)
  <2>1. n \in Nat /\ n # 0 /\ n - 1 \in Nat /\ n - 8 \in 1 .. n - 1 /\ n - 1 \in 1 .. n - 1 /\ n - 1 \in 8 .. 59
    OBVIOUS
  <2>2. PICK v \in Word : v = s[n - 8]
    BY <2>1, SizedElement
  <2>3. PICK w \in Word : w = s[n - 1]
    BY <2>1, SizedElement
  <2>4. PICK y \in Word : y = Scrambled(n - 1, w)
    BY <2>1, ScrambledType
  <2>5. XorWord(v, y) \in Word
    BY XorWordUndoes
  <2>6. More(n, s) = Append(s, XorWord(v, y))
    BY <2>2, <2>3, <2>4
  <2> HIDE DEF More
  <2> QED BY <2>1, <2>5, <2>6, SizedMore
<1>2. \A n \in 9 .. 60 : \A s \in X[n - 1] : G[n][s] \in X[n] /\ G[n][s] = More(n, s)
  <2>1. \A n \in 9 .. 60 : n - 1 \in 0 .. 60 /\ n \in 0 .. 60
    OBVIOUS
  <2> HIDE DEF More
  <2> QED BY <1>1, <2>1
<1>3. words \in X[8] /\ X[60] = Sized(Word, 60)
  OBVIOUS
<1>4. \E f : IsKs(f)
  <2> HIDE DEF G, X
  <2>1. PICK f : /\ f = [n \in 8 .. 60 |-> IF n = 8 THEN words ELSE G[n][f[n - 1]]]
                 /\ \A n \in 8 .. 60 : f[n] \in X[n]
    <3> HIDE DEF More
    <3>1. \A n \in 8 + 1 .. 60 : n \in 9 .. 60
      OBVIOUS
    <3>2. StepsIn(G, X, 8, 60)
      BY <1>2, <3>1 DEF StepsIn
    <3>3. \E f : ChainTo(f, words, G, X, 8, 60)
      BY <1>3, <3>2, ChainExists
    <3> QED BY <3>3 DEF ChainTo
  <2>2. ASSUME NEW n \in 8 .. 60 PROVE f[n] = IF n = 8 THEN words ELSE More(n, f[n - 1])
    <3>1. n # 8 => n \in 9 .. 60 /\ f[n - 1] \in X[n - 1]
      BY <2>1
    <3>2. f[n] = IF n = 8 THEN words ELSE G[n][f[n - 1]]
      BY <2>1
    <3> HIDE DEF More
    <3> QED BY <1>2, <3>1, <3>2
  <2>3. f = [n \in 8 .. 60 |-> f[n]]
    BY <2>1
  <2> HIDE DEF More
  <2> QED BY <2>2, <2>3
<1>5. IsKs(Schedules(words))
  <2>1. Schedules(words) = CHOOSE f : IsKs(f)
    BY DEF Schedules
  <2> HIDE DEF IsKs
  <2> QED BY <1>4, <2>1, Zenon
<1>6. PICK ks : ks = Schedules(words) /\ IsKs(ks)
  BY <1>5
<1> DEFINE P == {n \in 8 .. 60 : ks[n] \in Sized(Word, n)}
<1>7. 8 \in P
  BY <1>6
<1>8. ASSUME NEW n \in 8 + 1 .. 60, n - 1 \in P PROVE n \in P
  <2>1. n \in 9 .. 60 /\ n \in 8 .. 60 /\ n # 8
    OBVIOUS
  <2> HIDE DEF More
  <2>2. ks[n] = More(n, ks[n - 1])
    BY <1>6, <2>1
  <2> QED BY <1>1, <1>8, <2>1, <2>2
<1> HIDE DEF P
<1>9. \A n \in 8 .. 60 : n \in P
  BY <1>7, <1>8, Upwards
<1>10. ks[60] \in Sized(Word, 60)
  BY <1>9 DEF P
<1> HIDE DEF IsKs, More, X, G
<1> QED BY <1>6, <1>10 DEF KeyExpansion

LEMMA RoundKeyType ==
  ASSUME NEW ks \in Sized(Word, 60), NEW n \in 0 .. 14
  PROVE  RoundKey(ks, n) \in State
<1>1. \A c \in Index : 4 * n + c \in 1 .. 60
  BY DEF Index
<1>2. \A c \in Index : ks[4 * n + c] \in Word
  BY <1>1, SizedElement
<1> QED BY <1>2 DEF RoundKey, State

\* The start n of the blocks d.
Prefix(d, n) == [j \in 1 .. n |-> d[j]]

LEMMA PrefixIs ==
  ASSUME NEW T, NEW d \in [1 .. 14 -> T]
  PROVE  /\ Prefix(d, 1) = <<d[1]>>
         /\ \A n \in 1 .. 14 : Prefix(d, n)[n] = d[n]
         /\ \A n \in 2 .. 14 : Append(Prefix(d, n - 1), d[n]) = Prefix(d, n)
<1>1. Prefix(d, 1) = <<d[1]>>
  BY DEF Prefix
<1>2. ASSUME NEW n \in 2 .. 14 PROVE Append(Prefix(d, n - 1), d[n]) = Prefix(d, n)
  <2>1. Prefix(d, n - 1) \in Seq(T) /\ Len(Prefix(d, n - 1)) = n - 1
    BY DEF Prefix
  <2>2. \A j \in 1 .. n - 1 : Prefix(d, n - 1)[j] = d[j]
    BY DEF Prefix
  <2>3. d[n] \in T
    OBVIOUS
  <2>4. PICK p \in Seq(T) : p = Prefix(d, n - 1)
    BY <2>1
  <2>5. Append(p, d[n]) = [j \in 1 .. n |-> d[j]]
    BY <2>1, <2>2, <2>3, <2>4
  <2> QED BY <2>4, <2>5 DEF Prefix
<1>3. \A n \in 1 .. 14 : Prefix(d, n)[n] = d[n]
  BY DEF Prefix
<1> QED BY <1>1, <1>2, <1>3

\* The blocks between the rounds of encryption.
IsEncryption(e, ks, text) ==
  /\ e \in [1 .. 14 -> State]
  /\ e[1] = AddRoundKey(text, RoundKey(ks, 0))
  /\ \A n \in 2 .. 14 : e[n] = EncryptionRound(e[n - 1], RoundKey(ks, n - 1), FALSE)

LEMMA EncryptionNetIs ==
  ASSUME NEW ks, NEW text, NEW e, IsEncryption(e, ks, text)
  PROVE  EncryptionNet(ks, text)[14][14] = e[14]
<1> USE DEF IsEncryption
<1> DEFINE start == <<AddRoundKey(text, RoundKey(ks, 0))>>
           More(n, s) == Append(s, EncryptionRound(s[n - 1], RoundKey(ks, n - 1), FALSE))
           IsNet(f) == f = [n \in 1 .. 14 |-> IF n = 1 THEN start ELSE More(n, f[n - 1])]
<1>1. start = Prefix(e, 1)
  BY PrefixIs
<1>2. ASSUME NEW n \in 2 .. 14 PROVE More(n, Prefix(e, n - 1)) = Prefix(e, n)
  <2>1. n - 1 \in 1 .. 14
    OBVIOUS
  <2>2. Prefix(e, n - 1)[n - 1] = e[n - 1]
    BY <2>1, PrefixIs
  <2>3. More(n, Prefix(e, n - 1)) = Append(Prefix(e, n - 1), e[n])
    BY <2>2
  <2> HIDE DEF More
  <2> QED BY <2>3, PrefixIs
<1>3. \E f : IsNet(f)
  <2> DEFINE f == [n \in 1 .. 14 |-> Prefix(e, n)]
  <2>1. ASSUME NEW n \in 1 .. 14 PROVE f[n] = IF n = 1 THEN start ELSE More(n, f[n - 1])
    <3>1. n # 1 => n \in 2 .. 14 /\ n - 1 \in 1 .. 14
      OBVIOUS
    <3>2. n # 1 => f[n - 1] = Prefix(e, n - 1)
      BY <3>1
    <3>3. f[n] = Prefix(e, n)
      OBVIOUS
    <3> HIDE DEF f, start, More
    <3> QED BY <1>1, <1>2, <3>1, <3>2, <3>3
  <2>2. f = [n \in 1 .. 14 |-> f[n]]
    OBVIOUS
  <2> HIDE DEF f, start, More
  <2>3. IsNet(f)
    BY <2>1, <2>2
  <2> QED BY <2>3
<1>4. PICK blocks : blocks = EncryptionNet(ks, text) /\ IsNet(blocks)
  <2>1. EncryptionNet(ks, text) = CHOOSE f : IsNet(f)
    BY DEF EncryptionNet
  <2> HIDE DEF IsNet
  <2> QED BY <1>3, <2>1, Zenon
<1> DEFINE P == {n \in 1 .. 14 : blocks[n] = Prefix(e, n)}
<1>5. 1 \in P
  BY <1>1, <1>4
<1>6. ASSUME NEW n \in 1 + 1 .. 14, n - 1 \in P PROVE n \in P
  <2>1. n \in 2 .. 14 /\ n \in 1 .. 14 /\ n # 1
    OBVIOUS
  <2> HIDE DEF More
  <2>2. blocks[n] = More(n, blocks[n - 1])
    BY <1>4, <2>1
  <2> QED BY <1>2, <1>6, <2>1, <2>2
<1> HIDE DEF P
<1>7. \A n \in 1 .. 14 : n \in P
  BY <1>5, <1>6, Upwards
<1>8. blocks[14] = Prefix(e, 14)
  BY <1>7 DEF P
<1>9. Prefix(e, 14)[14] = e[14]
  BY DEF Prefix
<1> HIDE DEF IsNet
<1> QED BY <1>4, <1>8, <1>9

\* The blocks between the rounds of decryption.
IsDecryption(d, ks, text) ==
  /\ d \in [1 .. 14 -> State]
  /\ d[1] = AddRoundKey(text, RoundKey(ks, 14))
  /\ \A n \in 2 .. 14 : d[n] = DecryptionRound(d[n - 1], RoundKey(ks, 15 - n), FALSE)

LEMMA DecryptionNetIs ==
  ASSUME NEW ks, NEW text, NEW d, IsDecryption(d, ks, text)
  PROVE  DecryptionNet(ks, text)[14][14] = d[14]
<1> USE DEF IsDecryption
<1> DEFINE start == <<AddRoundKey(text, RoundKey(ks, 14))>>
           More(n, s) == Append(s, DecryptionRound(s[n - 1], RoundKey(ks, 15 - n), FALSE))
           IsNet(f) == f = [n \in 1 .. 14 |-> IF n = 1 THEN start ELSE More(n, f[n - 1])]
<1>1. start = Prefix(d, 1)
  BY PrefixIs
<1>2. ASSUME NEW n \in 2 .. 14 PROVE More(n, Prefix(d, n - 1)) = Prefix(d, n)
  <2>1. n - 1 \in 1 .. 14
    OBVIOUS
  <2>2. Prefix(d, n - 1)[n - 1] = d[n - 1]
    BY <2>1, PrefixIs
  <2>3. More(n, Prefix(d, n - 1)) = Append(Prefix(d, n - 1), d[n])
    BY <2>2
  <2> HIDE DEF More
  <2> QED BY <2>3, PrefixIs
<1>3. \E f : IsNet(f)
  <2> DEFINE f == [n \in 1 .. 14 |-> Prefix(d, n)]
  <2>1. ASSUME NEW n \in 1 .. 14 PROVE f[n] = IF n = 1 THEN start ELSE More(n, f[n - 1])
    <3>1. n # 1 => n \in 2 .. 14 /\ n - 1 \in 1 .. 14
      OBVIOUS
    <3>2. n # 1 => f[n - 1] = Prefix(d, n - 1)
      BY <3>1
    <3>3. f[n] = Prefix(d, n)
      OBVIOUS
    <3> HIDE DEF f, start, More
    <3> QED BY <1>1, <1>2, <3>1, <3>2, <3>3
  <2>2. f = [n \in 1 .. 14 |-> f[n]]
    OBVIOUS
  <2> HIDE DEF f, start, More
  <2>3. IsNet(f)
    BY <2>1, <2>2
  <2> QED BY <2>3
<1>4. PICK blocks : blocks = DecryptionNet(ks, text) /\ IsNet(blocks)
  <2>1. DecryptionNet(ks, text) = CHOOSE f : IsNet(f)
    BY DEF DecryptionNet
  <2> HIDE DEF IsNet
  <2> QED BY <1>3, <2>1, Zenon
<1> DEFINE P == {n \in 1 .. 14 : blocks[n] = Prefix(d, n)}
<1>5. 1 \in P
  BY <1>1, <1>4
<1>6. ASSUME NEW n \in 1 + 1 .. 14, n - 1 \in P PROVE n \in P
  <2>1. n \in 2 .. 14 /\ n \in 1 .. 14 /\ n # 1
    OBVIOUS
  <2> HIDE DEF More
  <2>2. blocks[n] = More(n, blocks[n - 1])
    BY <1>4, <2>1
  <2> QED BY <1>2, <1>6, <2>1, <2>2
<1> HIDE DEF P
<1>7. \A n \in 1 .. 14 : n \in P
  BY <1>5, <1>6, Upwards
<1>8. blocks[14] = Prefix(d, 14)
  BY <1>7 DEF P
<1>9. Prefix(d, 14)[14] = d[14]
  BY DEF Prefix
<1> HIDE DEF IsNet
<1> QED BY <1>4, <1>8, <1>9

\* A round of encryption, and the round of decryption that faces it.
LEMMA RoundsUndo ==
  ASSUME NEW b \in State, NEW k \in State
  PROVE  /\ ShiftRows(SubBytes(b)) \in State
         /\ EncryptionRound(b, k, FALSE) \in State
         /\ EncryptionRound(b, k, FALSE) = AddRoundKey(MixColumns(ShiftRows(SubBytes(b))), k)
         /\ EncryptionRound(b, k, TRUE) \in State
         /\ EncryptionRound(b, k, TRUE) = AddRoundKey(ShiftRows(SubBytes(b)), k)
         /\ DecryptionRound(ShiftRows(SubBytes(b)), k, TRUE) = AddRoundKey(b, k)
         /\ DecryptionRound(ShiftRows(SubBytes(b)), k, FALSE) = InvMixColumns(AddRoundKey(b, k))
<1>1. PICK s \in State : s = ShiftRows(SubBytes(b)) /\ InvSubBytes(InvShiftRows(s)) = b
  BY ShiftSubUndo
<1>2. PICK m \in State : m = MixColumns(s)
  BY MixColumnsUndo
<1>3. AddRoundKey(m, k) \in State /\ AddRoundKey(s, k) \in State
  BY AddRoundKeyUndoes
<1>4. EncryptionRound(b, k, FALSE) = AddRoundKey(m, k) /\ EncryptionRound(b, k, TRUE) = AddRoundKey(s, k)
  BY <1>1, <1>2 DEF EncryptionRound
<1>5. /\ DecryptionRound(s, k, TRUE) = AddRoundKey(b, k)
      /\ DecryptionRound(s, k, FALSE) = InvMixColumns(AddRoundKey(b, k))
  BY <1>1 DEF DecryptionRound
<1> QED BY <1>1, <1>2, <1>3, <1>4, <1>5

\* Decryption undoes encryption, for every key and every block: in front of each
\* of its rounds stands what the facing round of encryption had substituted and
\* shifted.
THEOREM DecryptionInvertsEncryption ==
  ASSUME NEW words \in [1 .. 8 -> Word], NEW b \in State
  PROVE  DecryptBlock(words, EncryptBlock(words, b)) = b
<1>1. words \in Sized(Word, 8)
  <2>1. words \in Seq(Word)
    BY SeqDef
  <2>2. Len(words) = 8
    BY <2>1, LenProperties
  <2> QED BY <2>1, <2>2 DEF Sized
<1>2. PICK ks \in Sized(Word, 60) : ks = KeyExpansion(words)
  BY <1>1, ScheduleType
<1>3. PICK k \in [0 .. 14 -> State] : \A n \in 0 .. 14 : k[n] = RoundKey(ks, n)
  <2> DEFINE k == [n \in 0 .. 14 |-> RoundKey(ks, n)]
  <2>1. k \in [0 .. 14 -> State]
    BY RoundKeyType
  <2> QED BY <2>1
<1> DEFINE start == AddRoundKey(b, k[0])
           X == [n \in 0 .. 14 |-> State]
           G == [n \in 2 .. 14 |-> [x \in State |-> EncryptionRound(x, k[n - 1], FALSE)]]
<1>4. start \in State /\ AddRoundKey(start, k[0]) = b
  BY AddRoundKeyUndoes
<1>5. ASSUME NEW n \in 2 .. 14, NEW x \in State
      PROVE  G[n][x] \in State /\ G[n][x] = EncryptionRound(x, k[n - 1], FALSE)
  <2>1. n - 1 \in 0 .. 14
    OBVIOUS
  <2>2. PICK kn \in State : kn = k[n - 1]
    BY <2>1
  <2>3. EncryptionRound(x, kn, FALSE) \in State
    BY RoundsUndo
  <2> QED BY <2>2, <2>3
<1> HIDE DEF start, G
<1>6. PICK e : ChainTo(e, start, G, X, 1, 14)
  <2>1. StepsIn(G, X, 1, 14)
    <3>1. \A n \in 1 + 1 .. 14 : n \in 2 .. 14 /\ X[n - 1] = State /\ X[n] = State
      OBVIOUS
    <3> HIDE DEF X
    <3> QED BY <1>5, <3>1 DEF StepsIn
  <2>2. start \in X[1]
    BY <1>4
  <2> HIDE DEF X
  <2> QED BY <2>1, <2>2, ChainExists
<1>7. e \in [1 .. 14 -> State] /\ e[1] = start
      /\ \A n \in 2 .. 14 : e[n] = EncryptionRound(e[n - 1], k[n - 1], FALSE)
  <2>1. e \in [1 .. 14 -> State] /\ e[1] = start
    BY <1>6 DEF ChainTo
  <2>2. ASSUME NEW n \in 2 .. 14 PROVE e[n] = EncryptionRound(e[n - 1], k[n - 1], FALSE)
    <3>1. n \in 1 .. 14 /\ n # 1 /\ n - 1 \in 1 .. 14
      OBVIOUS
    <3>2. e[n] = G[n][e[n - 1]]
      BY <1>6, <3>1 DEF ChainTo
    <3> QED BY <1>5, <2>1, <3>1, <3>2
  <2> QED BY <2>1, <2>2
<1>8. EncryptionNet(ks, b)[14][14] = e[14]
  <2>1. \A n \in 2 .. 14 : k[n - 1] = RoundKey(ks, n - 1)
    BY <1>3
  <2>2. e[1] = AddRoundKey(b, RoundKey(ks, 0))
    BY <1>3, <1>7 DEF start
  <2>3. \A n \in 2 .. 14 : e[n] = EncryptionRound(e[n - 1], RoundKey(ks, n - 1), FALSE)
    BY <1>7, <2>1
  <2>4. IsEncryption(e, ks, b)
    BY <1>7, <2>2, <2>3 DEF IsEncryption
  <2> QED BY <2>4, EncryptionNetIs
<1>9. PICK c \in State : c = EncryptBlock(words, b)
             /\ c = AddRoundKey(ShiftRows(SubBytes(e[14])), k[14])
  <2>1. PICK k14 \in State : k14 = k[14] /\ k14 = RoundKey(ks, 14)
    BY <1>3
  <2>2. PICK x \in State : x = e[14]
    BY <1>7
  <2>3. EncryptBlock(words, b) = EncryptionRound(x, k14, TRUE)
    BY <1>2, <1>8, <2>1, <2>2 DEF EncryptBlock
  <2>4. /\ EncryptionRound(x, k14, TRUE) \in State
        /\ EncryptionRound(x, k14, TRUE) = AddRoundKey(ShiftRows(SubBytes(x)), k14)
    BY RoundsUndo
  <2> QED BY <2>1, <2>2, <2>3, <2>4
<1>10. PICK d \in [1 .. 14 -> State] : \A n \in 1 .. 14 : d[n] = ShiftRows(SubBytes(e[15 - n]))
  <2> DEFINE d == [n \in 1 .. 14 |-> ShiftRows(SubBytes(e[15 - n]))]
  <2>1. ASSUME NEW n \in 1 .. 14 PROVE ShiftRows(SubBytes(e[15 - n])) \in State
    <3>1. 15 - n \in 1 .. 14
      OBVIOUS
    <3>2. e[15 - n] \in State
      BY <1>7, <3>1
    <3> QED BY <3>2, ShiftSubUndo
  <2>2. d \in [1 .. 14 -> State]
    BY <2>1
  <2> QED BY <2>2
<1>11. d[1] = AddRoundKey(c, RoundKey(ks, 14))
  <2>1. d[1] \in State /\ d[1] = ShiftRows(SubBytes(e[14]))
        /\ k[14] \in State /\ k[14] = RoundKey(ks, 14)
    BY <1>3, <1>10
  <2> QED BY <1>9, <2>1, AddRoundKeyUndoes
<1>12. ASSUME NEW n \in 2 .. 14
       PROVE  d[n] = DecryptionRound(d[n - 1], RoundKey(ks, 15 - n), FALSE)
  <2>1. 15 - n \in 1 .. 13 /\ 16 - n \in 2 .. 14 /\ (16 - n) - 1 = 15 - n /\ n - 1 \in 1 .. 14
        /\ 15 - (n - 1) = 16 - n
    OBVIOUS
  <2>2. PICK x \in State : x = e[15 - n]
    BY <1>7, <2>1
  <2>3. PICK y \in State : y = e[16 - n]
    BY <1>7, <2>1
  <2>4. PICK kn \in State : kn = k[15 - n] /\ kn = RoundKey(ks, 15 - n)
    BY <1>3, <2>1
  <2>5. y = EncryptionRound(x, kn, FALSE)
    BY <1>7, <2>1, <2>2, <2>3, <2>4
  <2>6. d[n] = ShiftRows(SubBytes(x)) /\ d[n - 1] = ShiftRows(SubBytes(y))
    BY <1>10, <2>1, <2>2, <2>3
  <2>7. PICK s \in State : s = ShiftRows(SubBytes(x))
    BY ShiftSubUndo
  <2>8. PICK m \in State : m = MixColumns(s) /\ InvMixColumns(m) = s
    BY MixColumnsUndo
  <2>9. y = AddRoundKey(m, kn)
    BY <2>5, <2>7, <2>8, RoundsUndo
  <2>10. AddRoundKey(y, kn) = m
    BY <2>9, AddRoundKeyUndoes
  <2>11. DecryptionRound(ShiftRows(SubBytes(y)), kn, FALSE) = InvMixColumns(AddRoundKey(y, kn))
    BY RoundsUndo
  <2> QED BY <2>4, <2>6, <2>7, <2>8, <2>10, <2>11
<1>13. DecryptionNet(ks, c)[14][14] = d[14]
  <2>1. IsDecryption(d, ks, c)
    BY <1>11, <1>12 DEF IsDecryption
  <2> QED BY <2>1, DecryptionNetIs
<1>14. PICK k0 \in State : k0 = k[0] /\ k0 = RoundKey(ks, 0)
  BY <1>3
<1>15. DecryptBlock(words, c) = DecryptionRound(d[14], k0, TRUE)
  BY <1>2, <1>13, <1>14 DEF DecryptBlock
<1>16. PICK x \in State : x = e[1] /\ d[14] = ShiftRows(SubBytes(x))
  BY <1>7, <1>10
<1>17. DecryptionRound(ShiftRows(SubBytes(x)), k0, TRUE) = AddRoundKey(x, k0)
  BY RoundsUndo
<1> QED BY <1>4, <1>7, <1>9, <1>14, <1>15, <1>16, <1>17

\* The invariant of the comparison, which takes one key and block for each byte.
THEOREM DecryptionInvertsHolds == TablesSpec => []DecryptionInverts
<1>1. DecryptionInverts
  <2> SUFFICES ASSUME arg \in Byte PROVE DecryptionInverts
    BY DEF DecryptionInverts
  <2> DEFINE words == [w \in 1 .. 8 |-> [r \in Index |-> (arg * (4 * w + r) + 29 * r) % 256]]
             b     == [c \in Index |-> [r \in Index |-> (arg * arg + 13 * r + 57 * c) % 256]]
  <2>1. \A x \in Nat : x % 256 \in Byte
    BY DEF Byte
  <2>2. \A w \in 1 .. 8, r \in Index : arg * (4 * w + r) + 29 * r \in Nat
    BY DEF Byte, Index
  <2>3. \A c \in Index, r \in Index : arg * arg + 13 * r + 57 * c \in Nat
    BY DEF Byte, Index
  <2>4. words \in [1 .. 8 -> Word] /\ b \in State
    BY <2>1, <2>2, <2>3 DEF Word, State
  <2>5. DecryptBlock(words, EncryptBlock(words, b)) = b
    <3> HIDE DEF words, b
    <3> QED BY <2>4, DecryptionInvertsEncryption
  <2> QED BY <2>5 DEF DecryptionInverts
<1> QED BY <1>1, PTL

(* The hash. *)

\* The elements of the field, and the powers that a product of two may have.
Elements == SUBSET (0 .. Width - 1)
Powers   == 0 .. 2 * Width - 2

\* An induction from hi down to lo.
LEMMA Downwards ==
  ASSUME NEW lo \in Nat, NEW hi \in Nat, NEW P, hi \in P,
         \A m \in lo .. hi - 1 : m + 1 \in P => m \in P
  PROVE  \A m \in lo .. hi : m \in P
<1> DEFINE Q == {j \in 0 .. hi - lo : hi - j \in P}
<1>1. SUFFICES ASSUME NEW m \in lo .. hi PROVE m \in P
  OBVIOUS
<1>2. hi - lo \in Nat /\ hi - m \in 0 .. hi - lo /\ hi - (hi - m) = m
  OBVIOUS
<1>3. 0 \in Q
  BY <1>2
<1>4. ASSUME NEW j \in 0 + 1 .. hi - lo, j - 1 \in Q PROVE j \in Q
  <2>1. hi - j \in lo .. hi - 1 /\ (hi - j) + 1 = hi - (j - 1) /\ j \in 0 .. hi - lo
    BY <1>2
  <2> QED BY <1>4, <2>1
<1> HIDE DEF Q
<1>5. \A j \in 0 .. hi - lo : j \in Q
  BY <1>2, <1>3, <1>4, Upwards
<1>6. hi - m \in Q
  BY <1>2, <1>5
<1> QED BY <1>2, <1>6 DEF Q

LEMMA PlusIs == \A p, q, x : x \in Plus(p, q) <=> ~(x \in p <=> x \in q)
BY DEF Plus

(* The remainder, step by step. *)

Modulus(k)   == {j + (k - Width) : j \in Taps \union {Width}}
Reduce(k, q) == IF k \in q THEN Plus(q, Modulus(k)) ELSE q

\* r are the steps of the division of p.
Divides(p, r) ==
  /\ r[2 * Width - 1] = p
  /\ \A k \in Width .. 2 * Width - 2 : r[k] = Reduce(k, r[k + 1])

LEMMA ModulusIs ==
  ASSUME NEW k \in Width .. 2 * Width - 2
  PROVE  k \in Modulus(k) /\ Modulus(k) \subseteq 0 .. k
BY FieldAssumption DEF Modulus

LEMMA ReduceIs ==
  ASSUME NEW k \in Width .. 2 * Width - 2, NEW q, q \subseteq 0 .. k
  PROVE  Reduce(k, q) \subseteq 0 .. k - 1
<1>1. k \in Nat
  BY FieldAssumption
<1>2. k \notin Reduce(k, q) /\ Reduce(k, q) \subseteq 0 .. k
  BY ModulusIs, PlusIs DEF Reduce
<1>3. \A x \in 0 .. k : x # k => x \in 0 .. k - 1
  BY <1>1
<1> QED BY <1>2, <1>3

LEMMA DividesType ==
  ASSUME NEW p, p \subseteq Powers, NEW r, Divides(p, r)
  PROVE  \A k \in Width .. 2 * Width - 1 : r[k] \subseteq 0 .. k - 1
<1> DEFINE P == {k \in Width .. 2 * Width - 1 : r[k] \subseteq 0 .. k - 1}
<1>1. Width \in Nat /\ 2 * Width - 1 \in Nat /\ 2 * Width - 1 \in Width .. 2 * Width - 1
      /\ (2 * Width - 1) - 1 = 2 * Width - 2
  BY FieldAssumption
<1>2. 2 * Width - 1 \in P
  BY <1>1 DEF Divides, Powers
<1>3. ASSUME NEW k \in Width .. (2 * Width - 1) - 1, k + 1 \in P PROVE k \in P
  <2>1. k \in Width .. 2 * Width - 2 /\ k \in Width .. 2 * Width - 1 /\ (k + 1) - 1 = k
    BY <1>1
  <2>2. r[k + 1] \subseteq 0 .. k
    BY <1>3, <2>1
  <2>3. Reduce(k, r[k + 1]) \subseteq 0 .. k - 1
    BY <2>1, <2>2, ReduceIs
  <2> QED BY <2>1, <2>3 DEF Divides
<1> HIDE DEF P
<1>4. \A k \in Width .. 2 * Width - 1 : k \in P
  BY <1>1, <1>2, <1>3, Downwards
<1> QED BY <1>4 DEF P

\* What Remainder returns is a value of that recursion.
LEMMA RemainderExists ==
  ASSUME NEW p, p \subseteq Powers
  PROVE  \E r : /\ r = [k \in Width .. 2 * Width - 1 |->
                          IF k = 2 * Width - 1 THEN p ELSE Reduce(k, r[k + 1])]
<1> DEFINE top == 2 * Width - 1
           X == [m \in 0 .. Width - 1 |-> SUBSET (0 .. top - m - 1)]
           G == [m \in 0 .. Width - 1 |-> [q \in SUBSET (0 .. top - m) |-> Reduce(top - m, q)]]
<1>1. Width \in Nat /\ Width - 1 \in Nat /\ 0 <= Width - 1 /\ top \in Nat /\ top - 0 - 1 = 2 * Width - 2
      /\ 0 \in 0 .. Width - 1
  BY FieldAssumption
<1>2. p \in X[0]
  BY <1>1 DEF Powers
<1>3. ASSUME NEW m \in 0 + 1 .. Width - 1
      PROVE  /\ X[m - 1] = SUBSET (0 .. top - m)
             /\ \A q \in X[m - 1] : G[m][q] = Reduce(top - m, q) /\ G[m][q] \in X[m]
  <2>1. /\ m \in 0 .. Width - 1 /\ m - 1 \in 0 .. Width - 1 /\ top - (m - 1) - 1 = top - m
        /\ top - m \in Width .. 2 * Width - 2
    BY <1>1
  <2>2. X[m - 1] = SUBSET (0 .. top - m)
    BY <2>1
  <2>3. ASSUME NEW q \in SUBSET (0 .. top - m) PROVE Reduce(top - m, q) \in SUBSET (0 .. top - m - 1)
    BY <2>1, ReduceIs
  <2> QED BY <2>1, <2>2, <2>3
<1> HIDE DEF X, G
<1>4. PICK f : ChainTo(f, p, G, X, 0, Width - 1)
  <2>1. StepsIn(G, X, 0, Width - 1)
    BY <1>3 DEF StepsIn
  <2> QED BY <1>1, <1>2, <2>1, ChainExists
<1> DEFINE r == [k \in Width .. top |-> f[top - k]]
<1>5. ASSUME NEW k \in Width .. top PROVE r[k] = IF k = top THEN p ELSE Reduce(k, r[k + 1])
  <2>1. CASE k = top
    <3>1. top - k = 0
      BY <1>1, <2>1
    <3> QED BY <1>1, <1>4, <2>1, <3>1 DEF ChainTo
  <2>2. CASE k # top
    <3>1. PICK m \in 0 + 1 .. Width - 1 : m = top - k /\ top - m = k /\ top - (k + 1) = m - 1
      BY <1>1, <2>2
    <3>2. k + 1 \in Width .. top /\ m \in 0 .. Width - 1 /\ m - 1 \in 0 .. Width - 1 /\ m # 0
      BY <1>1, <2>2
    <3>3. f[m] = G[m][f[m - 1]] /\ f[m - 1] \in X[m - 1]
      BY <1>4, <3>2 DEF ChainTo
    <3>4. f[m] = Reduce(k, f[m - 1])
      BY <1>3, <3>1, <3>3
    <3>5. r[k] = f[m] /\ r[k + 1] = f[m - 1]
      BY <3>1, <3>2
    <3> HIDE DEF r
    <3> QED BY <2>2, <3>4, <3>5
  <2> QED BY <2>1, <2>2
<1>6. r = [k \in Width .. top |-> r[k]]
  OBVIOUS
<1> HIDE DEF r
<1>7. r = [k \in Width .. top |-> IF k = top THEN p ELSE Reduce(k, r[k + 1])]
  BY <1>5, <1>6
<1> QED BY <1>7

LEMMA RemainderDivides ==
  ASSUME NEW p, p \subseteq Powers
  PROVE  \E r : Divides(p, r) /\ (p # {} => Remainder(p) = r[Width])
<1> DEFINE D(r) == r = [k \in Width .. 2 * Width - 1 |->
                          IF k = 2 * Width - 1 THEN p
                          ELSE LET q == r[k + 1]
                               IN  IF k \in q THEN Plus(q, {j + (k - Width) : j \in Taps \union {Width}})
                                   ELSE q]
           c == CHOOSE r : D(r)
<1>1. PICK r : r = [k \in Width .. 2 * Width - 1 |->
                      IF k = 2 * Width - 1 THEN p ELSE Reduce(k, r[k + 1])]
  BY RemainderExists
<1>2. D(r)
  BY <1>1 DEF Reduce, Modulus
<1>3. p # {} => Remainder(p) = c[Width]
  BY DEF Remainder
<1>4. D(c)
  <2> HIDE DEF D
  <2> QED BY <1>2
<1> HIDE DEF c
<1>5. c[2 * Width - 1] = p
  BY <1>4, FieldAssumption
<1>6. ASSUME NEW k \in Width .. 2 * Width - 2 PROVE c[k] = Reduce(k, c[k + 1])
  <2>1. k \in Width .. 2 * Width - 1 /\ k # 2 * Width - 1
    BY FieldAssumption
  <2> QED BY <1>4, <2>1 DEF Reduce, Modulus
<1> HIDE DEF D
<1> QED BY <1>3, <1>5, <1>6 DEF Divides

\* The division has one result.
LEMMA DividesOnce ==
  ASSUME NEW p, NEW r, NEW s, Divides(p, r), Divides(p, s)
  PROVE  r[Width] = s[Width]
<1> DEFINE P == {k \in Width .. 2 * Width - 1 : r[k] = s[k]}
<1>1. Width \in Nat /\ 2 * Width - 1 \in Nat /\ 2 * Width - 1 \in Width .. 2 * Width - 1
      /\ Width \in Width .. 2 * Width - 1
  BY FieldAssumption
<1>2. 2 * Width - 1 \in P
  BY <1>1 DEF Divides
<1>3. ASSUME NEW k \in Width .. (2 * Width - 1) - 1, k + 1 \in P PROVE k \in P
  <2>1. k \in Width .. 2 * Width - 2 /\ k \in Width .. 2 * Width - 1
    BY <1>1
  <2> QED BY <1>3, <2>1 DEF Divides
<1> HIDE DEF P
<1>4. \A k \in Width .. 2 * Width - 1 : k \in P
  BY <1>1, <1>2, <1>3, Downwards
<1> QED BY <1>1, <1>4 DEF P

LEMMA RemainderIs ==
  ASSUME NEW p, p \subseteq Powers, NEW r, Divides(p, r)
  PROVE  Remainder(p) = r[Width]
<1>1. PICK c : Divides(p, c) /\ (p # {} => Remainder(p) = c[Width])
  BY RemainderDivides
<1>2. r[Width] = c[Width]
  BY <1>1, DividesOnce
<1>3. CASE p = {}
  <2> DEFINE z == [k \in Width .. 2 * Width - 1 |-> {}]
  <2>1. Width \in Width .. 2 * Width - 1 /\ 2 * Width - 1 \in Width .. 2 * Width - 1
        /\ \A k \in Width .. 2 * Width - 2 : k \in Width .. 2 * Width - 1 /\ k + 1 \in Width .. 2 * Width - 1
    BY FieldAssumption
  <2>2. Divides(p, z)
    BY <1>3, <2>1 DEF Divides, Reduce
  <2>3. r[Width] = z[Width]
    BY <2>2, DividesOnce
  <2> QED BY <1>3, <2>1, <2>3 DEF Remainder
<1> QED BY <1>1, <1>2, <1>3

LEMMA RemainderType ==
  ASSUME NEW p, p \subseteq Powers
  PROVE  Remainder(p) \in Elements
<1>1. PICK r : Divides(p, r)
  BY RemainderDivides
<1>2. Remainder(p) = r[Width] /\ Width \in Width .. 2 * Width - 1
  BY <1>1, RemainderIs, FieldAssumption
<1> QED BY <1>1, <1>2, DividesType DEF Elements

\* An element is its own remainder.
LEMMA RemainderOfElement ==
  ASSUME NEW h \in Elements
  PROVE  Remainder(h) = h /\ h \subseteq Powers
<1> DEFINE s == [k \in Width .. 2 * Width - 1 |-> h]
<1>1. /\ Width \in Width .. 2 * Width - 1 /\ 2 * Width - 1 \in Width .. 2 * Width - 1
      /\ \A k \in Width .. 2 * Width - 2 : /\ k \in Width .. 2 * Width - 1
                                           /\ k + 1 \in Width .. 2 * Width - 1
                                           /\ k \notin 0 .. Width - 1
      /\ 0 .. Width - 1 \subseteq Powers
  BY FieldAssumption DEF Powers
<1>2. Divides(h, s)
  BY <1>1 DEF Divides, Reduce, Elements
<1>3. h \subseteq Powers
  BY <1>1 DEF Elements
<1> QED BY <1>1, <1>2, <1>3, RemainderIs

(* The remainder is linear. *)

LEMMA ReducePlus ==
  ASSUME NEW k, NEW q, NEW s
  PROVE  Reduce(k, Plus(q, s)) = Plus(Reduce(k, q), Reduce(k, s))
BY DEF Reduce, Plus

LEMMA RemainderPlus ==
  ASSUME NEW p, p \subseteq Powers, NEW q, q \subseteq Powers
  PROVE  Remainder(Plus(p, q)) = Plus(Remainder(p), Remainder(q))
<1>1. PICK r : Divides(p, r)
  BY RemainderDivides
<1>2. PICK s : Divides(q, s)
  BY RemainderDivides
<1> DEFINE t == [k \in Width .. 2 * Width - 1 |-> Plus(r[k], s[k])]
<1>3. /\ Width \in Width .. 2 * Width - 1 /\ 2 * Width - 1 \in Width .. 2 * Width - 1
      /\ \A k \in Width .. 2 * Width - 2 : k \in Width .. 2 * Width - 1 /\ k + 1 \in Width .. 2 * Width - 1
  BY FieldAssumption
<1>4. t[2 * Width - 1] = Plus(p, q)
  BY <1>1, <1>2, <1>3 DEF Divides
<1>5. ASSUME NEW k \in Width .. 2 * Width - 2 PROVE t[k] = Reduce(k, t[k + 1])
  <2>1. r[k] = Reduce(k, r[k + 1]) /\ s[k] = Reduce(k, s[k + 1])
    BY <1>1, <1>2 DEF Divides
  <2> QED BY <1>3, <2>1, ReducePlus
<1>6. t[Width] = Plus(r[Width], s[Width])
  BY <1>3
<1> HIDE DEF t
<1>7. Divides(Plus(p, q), t) /\ Plus(p, q) \subseteq Powers
  BY <1>4, <1>5 DEF Divides, Plus
<1> QED BY <1>1, <1>2, <1>6, <1>7, RemainderIs

(* The shift. *)

ShiftUp(p) == {j + 1 : j \in p}

LEMMA ShiftUpIs ==
  ASSUME NEW p, p \subseteq Nat, NEW x
  PROVE  x \in ShiftUp(p) <=> x \in Nat /\ x - 1 \in p
BY DEF ShiftUp

LEMMA ModulusShift ==
  ASSUME NEW k \in Width + 1 .. 2 * Width - 2
  PROVE  Modulus(k) = ShiftUp(Modulus(k - 1))
<1>1. \A j \in Taps \union {Width} : j \in Int /\ j + (k - Width) = (j + ((k - 1) - Width)) + 1
  BY FieldAssumption
<1> QED BY <1>1 DEF Modulus, ShiftUp

LEMMA ReduceShift ==
  ASSUME NEW k \in Width + 1 .. 2 * Width - 2, NEW q, q \subseteq Nat
  PROVE  ShiftUp(Reduce(k - 1, q)) = Reduce(k, ShiftUp(q))
<1>1. k \in Nat /\ k - 1 \in Width .. 2 * Width - 2
  BY FieldAssumption
<1>2. Modulus(k - 1) \subseteq Nat
  BY <1>1, ModulusIs
<1>3. k \in ShiftUp(q) <=> k - 1 \in q
  BY <1>1, ShiftUpIs
<1>4. ShiftUp(Plus(q, Modulus(k - 1))) = Plus(ShiftUp(q), ShiftUp(Modulus(k - 1)))
  <2> DEFINE m == Modulus(k - 1)
  <2>1. m \subseteq Nat
    BY <1>2
  <2> HIDE DEF m
  <2>2. SUFFICES ShiftUp(Plus(q, m)) = Plus(ShiftUp(q), ShiftUp(m))
    BY DEF m
  <2>3. \A x, y \in Nat : x + 1 = y + 1 => x = y
    OBVIOUS
  <2> QED BY <2>1, <2>3 DEF ShiftUp, Plus
<1> QED BY <1>3, <1>4, ModulusShift DEF Reduce

\* The shift with its reduction is the product with x.
LEMMA ShiftVIs ==
  ASSUME NEW V \in Elements
  PROVE  ShiftV(V) = Reduce(Width, ShiftUp(V))
<1>1. Width \in Nat /\ Width - 1 \in Nat /\ Width - 1 # Width
  BY FieldAssumption
<1>2. V \subseteq Nat /\ \A j \in V : j <= Width - 1
  BY <1>1 DEF Elements
<1>3. Modulus(Width) = Taps \union {Width}
  <2>1. \A j \in Taps \union {Width} : j + (Width - Width) = j
    BY FieldAssumption
  <2> QED BY <2>1 DEF Modulus
<1>4. Width \in ShiftUp(V) <=> Width - 1 \in V
  BY <1>1, <1>2, ShiftUpIs
<1>5. Width \notin Taps
  BY FieldAssumption
<1>6. ShiftUp(V \ {Width - 1}) = ShiftUp(V) \ {Width}
  BY <1>1, <1>2 DEF ShiftUp
<1> QED BY <1>3, <1>4, <1>5, <1>6 DEF Reduce, ShiftV, Plus, ShiftUp

LEMMA RemainderShift ==
  ASSUME Width >= 2, NEW p, p \subseteq 0 .. 2 * Width - 3
  PROVE  Remainder(ShiftUp(p)) = ShiftV(Remainder(p))
<1>1. /\ Width \in Nat
      /\ Width \in Width .. 2 * Width - 1 /\ 2 * Width - 1 \in Width .. 2 * Width - 1
      /\ Width + 1 \in Width .. 2 * Width - 1 /\ 2 * Width - 1 # Width
      /\ (Width + 1) - 1 = Width /\ Width + 1 # Width /\ 2 * Width - 2 \in Width .. 2 * Width - 2
      /\ (2 * Width - 2) + 1 = 2 * Width - 1 /\ (2 * Width - 1) - 1 = 2 * Width - 2
  BY FieldAssumption
<1>2. p \subseteq Powers /\ p \subseteq Nat /\ 2 * Width - 2 \notin p
  BY <1>1 DEF Powers
<1>3. ShiftUp(p) \subseteq Powers
  BY <1>1, <1>2 DEF Powers, ShiftUp
<1>4. PICK r : Divides(p, r)
  BY <1>2, RemainderDivides
<1>5. \A k \in Width .. 2 * Width - 1 : r[k] \subseteq Nat
  <2>1. \A k \in Width .. 2 * Width - 1 : r[k] \subseteq 0 .. k - 1
    BY <1>2, <1>4, DividesType
  <2>2. \A k \in Width .. 2 * Width - 1 : 0 .. k - 1 \subseteq Nat
    BY <1>1
  <2> QED BY <2>1, <2>2
<1>6. r[Width] = Remainder(p) /\ r[Width] \in Elements
  <2>1. Remainder(p) = r[Width]
    BY <1>2, <1>4, RemainderIs
  <2>2. Remainder(p) \in Elements
    BY <1>2, RemainderType
  <2> QED BY <2>1, <2>2
<1> DEFINE s == [k \in Width .. 2 * Width - 1 |->
                   IF k = Width THEN Reduce(Width, ShiftUp(r[Width])) ELSE ShiftUp(r[k - 1])]
<1>7. s[2 * Width - 1] = ShiftUp(p)
  <2>1. r[2 * Width - 2] = p
    BY <1>1, <1>2, <1>4 DEF Divides, Reduce
  <2> QED BY <1>1, <2>1
<1>8. s[Width] = Reduce(Width, s[Width + 1])
  BY <1>1
<1>9. ASSUME NEW k \in Width + 1 .. 2 * Width - 2 PROVE s[k] = Reduce(k, s[k + 1])
  <2>1. /\ k \in Width .. 2 * Width - 1 /\ k + 1 \in Width .. 2 * Width - 1 /\ k # Width /\ k + 1 # Width
        /\ k - 1 \in Width .. 2 * Width - 2 /\ (k - 1) + 1 = k /\ (k + 1) - 1 = k
    BY <1>1
  <2>2. r[k - 1] = Reduce(k - 1, r[k])
    BY <1>4, <2>1 DEF Divides
  <2>3. ShiftUp(r[k - 1]) = Reduce(k, ShiftUp(r[k]))
    BY <1>5, <2>1, <2>2, ReduceShift
  <2>4. s[k] = ShiftUp(r[k - 1]) /\ s[k + 1] = ShiftUp(r[k])
    BY <2>1
  <2> QED BY <2>3, <2>4
<1>10. s[Width] = Reduce(Width, ShiftUp(r[Width]))
  BY <1>1
<1> HIDE DEF s
<1>11. \A k \in Width .. 2 * Width - 2 : k = Width \/ k \in Width + 1 .. 2 * Width - 2
  BY <1>1
<1>12. Divides(ShiftUp(p), s)
  BY <1>7, <1>8, <1>9, <1>11 DEF Divides
<1> QED BY <1>3, <1>6, <1>10, <1>12, RemainderIs, ShiftVIs

(* The product, one bit of the first factor at a time. *)

LowBits(X, n) == {i \in X : i < n}

LEMMA LowBitsAre ==
  ASSUME NEW X \in Elements
  PROVE  /\ LowBits(X, 0) = {}
         /\ \A n \in 0 .. Width - 1 :
              /\ n \notin LowBits(X, n)
              /\ n \in X => LowBits(X, n + 1) = LowBits(X, n) \union {n}
              /\ n \notin X => LowBits(X, n + 1) = LowBits(X, n)
<1>1. \A i \in X : i \in Int /\ ~(i < 0)
  BY FieldAssumption DEF Elements
<1>2. \A n \in 0 .. Width - 1 : ~(n < n) /\ \A i \in Int : i < n + 1 <=> i < n \/ i = n
  BY FieldAssumption
<1>3. LowBits(X, 0) = {}
  BY <1>1 DEF LowBits
<1>4. ASSUME NEW n \in 0 .. Width - 1
      PROVE  /\ n \notin LowBits(X, n)
             /\ n \in X => LowBits(X, n + 1) = LowBits(X, n) \union {n}
             /\ n \notin X => LowBits(X, n + 1) = LowBits(X, n)
  <2>1. n \notin LowBits(X, n)
    BY <1>2 DEF LowBits
  <2>2. \A i \in X : i < n + 1 <=> i < n \/ i = n
    BY <1>1, <1>2
  <2>3. n \in X => LowBits(X, n + 1) = LowBits(X, n) \union {n}
    BY <2>2 DEF LowBits
  <2>4. n \notin X => LowBits(X, n + 1) = LowBits(X, n)
    BY <2>2 DEF LowBits
  <2> QED BY <2>1, <2>3, <2>4
<1> QED BY <1>3, <1>4

LEMMA ProductType == \A X, H : Product(X, H) \subseteq Powers
BY DEF Product, Powers

LEMMA ProductOfNothing == \A H : Product({}, H) = {}
<1> SUFFICES ASSUME NEW H PROVE Product({}, H) = {}
  OBVIOUS
<1>1. \A k : {i \in {} : k - i \in H} = {}
  OBVIOUS
<1>2. Cardinality({}) = 0
  BY FS_EmptySet
<1> QED BY <1>1, <1>2 DEF Product

LEMMA ProductOfBit ==
  ASSUME NEW n \in 0 .. Width - 1, NEW H \in Elements
  PROVE  Product({n}, H) = {n + h : h \in H}
<1>1. ASSUME NEW k \in 0 .. 2 * Width - 2
      PROVE  Cardinality({i \in {n} : k - i \in H}) % 2 = 1 <=> k - n \in H
  <2>1. CASE k - n \in H
    <3>1. {i \in {n} : k - i \in H} = {n}
      BY <2>1
    <3>2. Cardinality({n}) = 1
      BY FS_Singleton
    <3> QED BY <2>1, <3>1, <3>2
  <2>2. CASE k - n \notin H
    <3>1. {i \in {n} : k - i \in H} = {}
      BY <2>2
    <3>2. Cardinality({}) = 0
      BY FS_EmptySet
    <3>3. Cardinality({i \in {n} : k - i \in H}) = 0
      BY <3>1, <3>2
    <3>4. ~(0 % 2 = 1)
      OBVIOUS
    <3> QED BY <2>2, <3>3, <3>4
  <2> QED BY <2>1, <2>2
<1>2. Product({n}, H) = {k \in 0 .. 2 * Width - 2 : k - n \in H}
  BY <1>1 DEF Product
<1>3. \A h \in H : n + h \in 0 .. 2 * Width - 2 /\ (n + h) - n = h
  BY FieldAssumption DEF Elements
<1>4. \A k \in 0 .. 2 * Width - 2 : k = n + (k - n)
  BY FieldAssumption
<1>5. {n + h : h \in H} \subseteq Product({n}, H)
  BY <1>2, <1>3
<1>6. Product({n}, H) \subseteq {n + h : h \in H}
  BY <1>2, <1>4
<1> QED BY <1>5, <1>6

LEMMA ProductAddsBit ==
  ASSUME NEW X \in Elements, NEW n \in 0 .. Width - 1, n \in X, NEW H
  PROVE  Product(LowBits(X, n + 1), H) = Plus(Product(LowBits(X, n), H), Product({n}, H))
<1>1. ASSUME NEW k \in 0 .. 2 * Width - 2
      PROVE  k \in Product(LowBits(X, n + 1), H)
               <=> ~(k \in Product(LowBits(X, n), H) <=> k \in Product({n}, H))
  <2> DEFINE S == {i \in LowBits(X, n) : k - i \in H}
             T == {i \in LowBits(X, n + 1) : k - i \in H}
             U == {i \in {n} : k - i \in H}
  <2>1. k \in Product(LowBits(X, n + 1), H) <=> Cardinality(T) % 2 = 1
    BY DEF Product
  <2>2. k \in Product(LowBits(X, n), H) <=> Cardinality(S) % 2 = 1
    BY DEF Product
  <2>3. k \in Product({n}, H) <=> Cardinality(U) % 2 = 1
    BY DEF Product
  <2>4. LowBits(X, n + 1) = LowBits(X, n) \union {n} /\ n \notin LowBits(X, n)
    BY LowBitsAre
  <2>5. IsFiniteSet(S) /\ Cardinality(S) \in Nat
    <3>1. IsFiniteSet(0 .. Width - 1)
      BY FieldAssumption, FS_Interval
    <3>2. S \subseteq 0 .. Width - 1
      BY DEF Elements, LowBits
    <3> QED BY <3>1, <3>2, FS_Subset, FS_CardinalityType
  <2>6. CASE k - n \in H
    <3>1. U = {n} /\ T = S \union {n} /\ n \notin S
      BY <2>4, <2>6
    <3>2. Cardinality({n}) = 1
      BY FS_Singleton
    <3> HIDE DEF S, T, U
    <3>3. Cardinality(T) = Cardinality(S) + 1
      BY <2>5, <3>1, FS_AddElement
    <3>4. \A c \in Nat : (c + 1) % 2 = 1 <=> ~(c % 2 = 1)
      OBVIOUS
    <3>5. Cardinality(T) % 2 = 1 <=> ~(Cardinality(S) % 2 = 1)
      BY <2>5, <3>3, <3>4
    <3>6. Cardinality(U) % 2 = 1
      BY <3>1, <3>2
    <3> QED BY <2>1, <2>2, <2>3, <3>5, <3>6
  <2>7. CASE k - n \notin H
    <3>1. U = {} /\ T = S
      BY <2>4, <2>7
    <3>2. Cardinality({}) = 0
      BY FS_EmptySet
    <3> HIDE DEF S, T, U
    <3>3. ~(Cardinality(U) % 2 = 1)
      BY <3>1, <3>2
    <3> QED BY <2>1, <2>2, <2>3, <3>1, <3>3
  <2> QED BY <2>6, <2>7
<1>2. \A Y : Product(Y, H) \subseteq 0 .. 2 * Width - 2
  BY DEF Product
<1> DEFINE P == Product(LowBits(X, n + 1), H)
           Q == Product(LowBits(X, n), H)
           R == Product({n}, H)
<1>3. P \subseteq 0 .. 2 * Width - 2 /\ Q \subseteq 0 .. 2 * Width - 2 /\ R \subseteq 0 .. 2 * Width - 2
  BY <1>2
<1>4. \A k \in 0 .. 2 * Width - 2 : k \in P <=> ~(k \in Q <=> k \in R)
  BY <1>1
<1> HIDE DEF P, Q, R
<1>5. P = Plus(Q, R)
  BY <1>3, <1>4 DEF Plus
<1> QED BY <1>5 DEF P, Q, R

(* Partial products in the field: the variables of the loop. *)

\* The values of the loop after n rounds.
LoopIs(r, X, H, n) ==
  /\ r.Z = RefMul(LowBits(X, n), H)
  /\ n < Width => r.V = RefMul({n}, H)

Loops == [Z : Elements, V : Elements]

LEMMA PlusType == \A p, q \in Elements : Plus(p, q) \in Elements
BY DEF Plus, Elements

LEMMA RoundType ==
  ASSUME NEW X, NEW n, NEW r \in Loops
  PROVE  Round(X, n, r) \in Loops
<1>1. \A j \in 0 .. Width - 1 : j # Width - 1 => j + 1 \in 0 .. Width - 1
  BY FieldAssumption
<1>2. ShiftV(r.V) \in Elements
  BY <1>1, FieldAssumption DEF Loops, Elements, ShiftV, Plus
<1>3. Plus(r.Z, r.V) \in Elements
  BY PlusType DEF Loops
<1> QED BY <1>2, <1>3 DEF Round, Loops

LEMMA LoopStarts ==
  ASSUME NEW X \in Elements, NEW H \in Elements
  PROVE  LoopIs([Z |-> {}, V |-> H], X, H, 0)
<1>1. LowBits(X, 0) = {} /\ {} \in Elements
  BY LowBitsAre DEF Elements
<1>2. RefMul({}, H) = {}
  BY <1>1, ProductOfNothing, RemainderOfElement DEF RefMul
<1>3. 0 \in 0 .. Width - 1 /\ H \subseteq Int
  BY FieldAssumption DEF Elements
<1>4. Product({0}, H) = {0 + h : h \in H}
  BY <1>3, ProductOfBit
<1>5. \A h \in H : 0 + h = h
  BY <1>3
<1>6. Product({0}, H) = H
  BY <1>4, <1>5
<1> QED BY <1>1, <1>2, <1>6, RemainderOfElement DEF LoopIs, RefMul

LEMMA RoundIs ==
  ASSUME NEW X \in Elements, NEW H \in Elements, NEW n \in 0 .. Width - 1, NEW r,
         LoopIs(r, X, H, n)
  PROVE  LoopIs(Round(X, n, r), X, H, n + 1)
<1>1. n < Width /\ n \in Int
  BY FieldAssumption
<1>2. r.Z = RefMul(LowBits(X, n), H) /\ r.V = RefMul({n}, H)
  BY <1>1 DEF LoopIs
<1>3. Round(X, n, r).Z = RefMul(LowBits(X, n + 1), H)
  <2>1. CASE n \in X
    <3>1. Product(LowBits(X, n + 1), H) = Plus(Product(LowBits(X, n), H), Product({n}, H))
      BY <2>1, ProductAddsBit
    <3>2. RefMul(LowBits(X, n + 1), H) = Plus(r.Z, r.V)
      BY <1>2, <3>1, ProductType, RemainderPlus DEF RefMul
    <3> QED BY <2>1, <3>2 DEF Round
  <2>2. CASE n \notin X
    <3>1. LowBits(X, n + 1) = LowBits(X, n)
      BY <2>2, LowBitsAre
    <3> QED BY <1>2, <2>2, <3>1 DEF Round
  <2> QED BY <2>1, <2>2
<1>4. ASSUME n + 1 < Width PROVE Round(X, n, r).V = RefMul({n + 1}, H)
  <2>1. n + 1 \in 0 .. Width - 1 /\ Width >= 2
    BY <1>4, FieldAssumption
  <2>2. Product({n}, H) = {n + h : h \in H} /\ Product({n + 1}, H) = {(n + 1) + h : h \in H}
    BY <2>1, ProductOfBit
  <2>3. \A h \in H : n + h \in 0 .. 2 * Width - 3 /\ (n + 1) + h = (n + h) + 1
    BY <2>1, FieldAssumption DEF Elements
  <2>4. Product({n + 1}, H) = ShiftUp(Product({n}, H)) /\ Product({n}, H) \subseteq 0 .. 2 * Width - 3
    <3>1. Product({n}, H) \subseteq 0 .. 2 * Width - 3
      BY <2>2, <2>3
    <3>2. ShiftUp({n + h : h \in H}) = {(n + 1) + h : h \in H}
      BY <2>3 DEF ShiftUp
    <3> QED BY <2>2, <3>1, <3>2
  <2>5. RefMul({n + 1}, H) = ShiftV(RefMul({n}, H))
    BY <2>1, <2>4, RemainderShift DEF RefMul
  <2> QED BY <1>2, <2>5 DEF Round
<1> QED BY <1>3, <1>4 DEF LoopIs

(* The loop of ghash_iter. *)

\* The inductive invariant.
LoopInv ==
  /\ in_X \in Elements /\ in_H \in Elements
  /\ rounds \in 0 .. Width
  /\ loop \in Loops
  /\ LoopIs(loop, in_X, in_H, rounds)

LEMMA StartType ==
  ASSUME NEW H \in Elements
  PROVE  [Z |-> {}, V |-> H] \in Loops
BY DEF Loops, Elements

LEMMA LoopInvInit == LoopInit => LoopInv
<1> SUFFICES ASSUME LoopInit PROVE LoopInv
  OBVIOUS
<1>1. in_X \in Elements /\ in_H \in Elements
  BY FactorsAssumption DEF LoopInit, Elements
<1>2. rounds = 0 /\ loop = [Z |-> {}, V |-> in_H] /\ 0 \in 0 .. Width
  BY FieldAssumption DEF LoopInit
<1>3. loop \in Loops
  BY <1>1, <1>2, StartType
<1>4. LoopIs(loop, in_X, in_H, rounds)
  BY <1>1, <1>2, LoopStarts
<1> QED BY <1>1, <1>2, <1>3, <1>4 DEF LoopInv

LEMMA LoopInvStep == LoopInv /\ [LoopNext]_ghash => LoopInv'
<1> SUFFICES ASSUME LoopInv, [LoopNext]_ghash PROVE LoopInv'
  OBVIOUS
<1>1. /\ in_X \in Elements /\ in_H \in Elements /\ rounds \in 0 .. Width
      /\ loop \in Loops /\ LoopIs(loop, in_X, in_H, rounds)
  BY DEF LoopInv
<1>2. CASE DoRound
  <2>1. /\ in_X' = in_X /\ in_H' = in_H /\ loop' = Round(in_X, rounds, loop)
        /\ rounds' = rounds + 1 /\ rounds \in 0 .. Width - 1 /\ rounds' \in 0 .. Width
    BY <1>1, <1>2, FieldAssumption DEF DoRound
  <2>2. loop' \in Loops
    BY <1>1, <2>1, RoundType
  <2>3. LoopIs(Round(in_X, rounds, loop), in_X, in_H, rounds + 1)
    BY <1>1, <2>1, RoundIs
  <2>4. LoopIs(loop', in_X', in_H', rounds')
    BY <2>1, <2>3
  <2> QED BY <1>1, <2>1, <2>2, <2>4 DEF LoopInv, LoopIs
<1>3. CASE FoldBlock
  <2>1. PICK d \in Factors : StartLoop(loop.Z, d)
    BY <1>3 DEF FoldBlock
  <2>2. in_H' = in_H
    BY <1>3 DEF FoldBlock
  <2>3. /\ in_X' = Plus(loop.Z, d) /\ rounds' = 0 /\ 0 \in 0 .. Width
        /\ loop' = [Z |-> {}, V |-> in_H]
    BY <2>1, FieldAssumption DEF StartLoop
  <2>4. loop.Z \in Elements /\ d \in Elements
    BY <1>1, FactorsAssumption DEF Loops, Elements
  <2>5. in_X' \in Elements
    BY <2>3, <2>4, PlusType
  <2>6. loop' \in Loops
    BY <1>1, <2>3, StartType
  <2>7. LoopIs([Z |-> {}, V |-> in_H], in_X', in_H, 0)
    BY <1>1, <2>5, LoopStarts
  <2>8. LoopIs(loop', in_X', in_H', rounds')
    BY <2>2, <2>3, <2>7
  <2> QED BY <1>1, <2>2, <2>3, <2>5, <2>6, <2>8 DEF LoopInv, LoopIs
<1>4. CASE UNCHANGED ghash
  BY <1>1, <1>4 DEF ghash, LoopInv, LoopIs
<1> QED BY <1>2, <1>3, <1>4 DEF LoopNext

\* ghash_iter multiplies in the field with that modulus, for every width and
\* every modulus: after each round of its loop Z and V are the products of
\* LoopIsProduct, however many blocks have been folded in before.
THEOREM LoopIsProductHolds == LoopSpec => []LoopIsProduct
<1>1. LoopInv => LoopIsProduct
  BY DEF LoopInv, LoopIs, LoopIsProduct, LowBits
<1> QED BY <1>1, LoopInvInit, LoopInvStep, PTL DEF LoopSpec

\* What ghash_iter returns is the product of its arguments.
THEOREM MulIsProduct ==
  \A X, H \in SUBSET (0 .. Width - 1) : Mul(X, H) = RefMul(X, H)
<1> SUFFICES ASSUME NEW X \in Elements, NEW H \in Elements PROVE Mul(X, H) = RefMul(X, H)
  BY DEF Elements
<1> DEFINE start == [Z |-> {}, V |-> H]
           S == [n \in 0 .. Width |-> Loops]
           G == [n \in 0 .. Width |-> [r \in Loops |-> Round(X, n - 1, r)]]
           D(run) == run = [n \in 0 .. Width |-> IF n = 0 THEN start ELSE Round(X, n - 1, run[n - 1])]
           run == CHOOSE run : D(run)
<1>1. Width \in Nat /\ 0 \in Nat /\ 0 <= Width /\ 0 \in 0 .. Width /\ Width \in 0 .. Width
  BY FieldAssumption
<1>2. start \in Loops
  BY StartType
<1>3. Mul(X, H) = run[Width].Z
  BY DEF Mul
<1>4. \E f : D(f)
  <2>1. \A n \in 0 + 1 .. Width : n \in 0 .. Width /\ n - 1 \in 0 .. Width /\ n # 0
    BY <1>1
  <2>2. ASSUME NEW n \in 0 .. Width, NEW r \in Loops
        PROVE  G[n][r] = Round(X, n - 1, r) /\ G[n][r] \in Loops
    BY RoundType
  <2>3. \A n \in 0 .. Width : S[n] = Loops
    OBVIOUS
  <2> HIDE DEF S, G, start, D
  <2>4. StepsIn(G, S, 0, Width)
    BY <2>1, <2>2, <2>3 DEF StepsIn
  <2>5. start \in S[0]
    BY <1>1, <1>2, <2>3
  <2>6. PICK f : ChainTo(f, start, G, S, 0, Width)
    BY <1>1, <2>4, <2>5, ChainExists
  <2>7. f = [n \in 0 .. Width |-> IF n = 0 THEN start ELSE G[n][f[n - 1]]]
    BY <2>6 DEF ChainTo
  <2>8. ASSUME NEW n \in 0 .. Width, n # 0 PROVE G[n][f[n - 1]] = Round(X, n - 1, f[n - 1])
    <3>1. n - 1 \in 0 .. Width
      BY <2>8, <1>1
    <3>2. f[n - 1] \in Loops
      BY <2>3, <2>6, <3>1 DEF ChainTo
    <3> QED BY <2>2, <3>2
  <2>9. f = [n \in 0 .. Width |-> IF n = 0 THEN start ELSE Round(X, n - 1, f[n - 1])]
    BY <2>7, <2>8
  <2> QED BY <2>9 DEF D
<1>5. D(run)
  <2> HIDE DEF D
  <2> QED BY <1>4
<1> HIDE DEF run
<1>6. run[0] = start /\ \A n \in 0 + 1 .. Width : run[n] = Round(X, n - 1, run[n - 1])
  <2>1. \A n \in 0 + 1 .. Width : n \in 0 .. Width /\ n # 0
    BY <1>1
  <2> QED BY <1>1, <1>5, <2>1
<1> HIDE DEF D, S, G
<1> DEFINE P == {n \in 0 .. Width : LoopIs(run[n], X, H, n)}
<1>7. 0 \in P
  BY <1>1, <1>6, LoopStarts
<1>8. ASSUME NEW n \in 0 + 1 .. Width, n - 1 \in P PROVE n \in P
  <2>1. n - 1 \in 0 .. Width - 1 /\ (n - 1) + 1 = n /\ n \in 0 .. Width
    BY <1>1
  <2>2. LoopIs(run[n - 1], X, H, n - 1)
    BY <1>8
  <2>3. LoopIs(Round(X, n - 1, run[n - 1]), X, H, n)
    BY <2>1, <2>2, RoundIs
  <2> QED BY <1>6, <2>1, <2>3
<1> HIDE DEF P
<1>9. \A n \in 0 .. Width : n \in P
  BY <1>1, <1>7, <1>8, Upwards
<1>10. LoopIs(run[Width], X, H, Width)
  BY <1>1, <1>9 DEF P
<1>11. LowBits(X, Width) = X
  <2>1. \A i \in 0 .. Width - 1 : i < Width
    BY <1>1
  <2> QED BY <2>1 DEF LowBits, Elements
<1> QED BY <1>3, <1>10, <1>11 DEF LoopIs
=============================================================================
